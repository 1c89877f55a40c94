----------------------- MODULE SessionLifecycleProofs -----------------------
(***************************************************************************)
(* Theorems of SessionLifecycle, for every number of sessions, engines and *)
(* calls in flight, both adapters and every setting.                       *)
(*                                                                         *)
(* The record functions of the service (SetStatus, OnError, ...) are       *)
(* summarised once: each returns a session record, leaves the two marks    *)
(* alone, keeps the registered engine or drops it, and arms a timer only   *)
(* when reconnecting is enabled.  The proofs about steps use the summary.  *)
(***************************************************************************)
EXTENDS SessionCap, FiniteSetTheorems, TLAPS

Marks(r, q) ==
    /\ q \in SessionRecord
    /\ q.starting = r.starting
    /\ q.stopping = r.stopping
    /\ MaxAttempts = 0 => (q.timer => r.timer)
Keeps(r, q) == Marks(r, q) /\ q.engine = r.engine
Drops(r, q) == Marks(r, q) /\ q.engine = None

\* The summary of the functions that keep the engine: the status writes and the callbacks.
LEMMA RecordsKeep ==
    ASSUME NEW r \in SessionRecord, NEW st \in Status
    PROVE  /\ Keeps(r, SetStatus(r, st))
           /\ Keeps(r, OnStateChanged(r, st))
           /\ Keeps(r, CancelReconnect(r))
           /\ Keeps(r, ScheduleReconnect(r))
           /\ Keeps(r, OnReady(r))
           /\ Keeps(r, OnDisconnected(r))
<1>1. \A q \in SessionRecord, x \in Status : Keeps(q, SetStatus(q, x))
  BY DEF SessionRecord, SetStatus, Keeps, Marks
<1>0. 0 \in 0..MaxAttempts /\ \A n \in 0..MaxAttempts : n < MaxAttempts => n + 1 \in 0..MaxAttempts
  BY ConfigAssumption DEF ConfigAssumption
<1>2. \A q \in SessionRecord : Keeps(q, CancelReconnect(q))
  BY <1>0 DEF SessionRecord, CancelReconnect, Keeps, Marks
<1>3. ASSUME NEW q \in SessionRecord PROVE Keeps(q, ScheduleReconnect(q))
  <2> DEFINE failed == [SetStatus(q, "FAILED") EXCEPT !.reason = TRUE]
             armed == [q EXCEPT !.attempts = @ + 1, !.timer = TRUE]
  <2>1. Keeps(q, failed)
    BY DEF SessionRecord, SetStatus, Keeps, Marks, Status
  <2>2. Keeps(q, q)
    BY DEF Keeps, Marks
  <2>3. q.attempts \in 0..MaxAttempts
    BY DEF SessionRecord
  <2>4. q.attempts < MaxAttempts => Keeps(q, armed)
    <3> SUFFICES ASSUME q.attempts < MaxAttempts PROVE Keeps(q, armed)
      OBVIOUS
    <3>1. armed \in SessionRecord
      BY <1>0, <2>3 DEF SessionRecord
    <3>2. MaxAttempts # 0
      BY <2>3, ConfigAssumption DEF ConfigAssumption
    <3> QED BY <3>1, <3>2 DEF Keeps, Marks, SessionRecord
  <2>5. q.attempts >= MaxAttempts \/ q.attempts < MaxAttempts
    BY <2>3, ConfigAssumption DEF ConfigAssumption
  <2>6. CASE proc # "up" \/ ~q.tracked
    BY <2>2, <2>6 DEF ScheduleReconnect
  <2>7. CASE ~(proc # "up" \/ ~q.tracked) /\ q.attempts >= MaxAttempts
    BY <2>1, <2>7 DEF ScheduleReconnect
  <2>8. CASE ~(proc # "up" \/ ~q.tracked) /\ ~(q.attempts >= MaxAttempts)
    BY <2>4, <2>5, <2>8 DEF ScheduleReconnect
  <2> QED BY <2>6, <2>7, <2>8
<1>4. Keeps(r, OnReady(r))
  BY <1>0 DEF SessionRecord, SetStatus, OnReady, Keeps, Marks, Status
<1>5. Keeps(r, OnDisconnected(r))
  <2>1. Keeps(r, SetStatus(r, "DISCONNECTED"))
    BY <1>1 DEF Status
  <2>2. Keeps(SetStatus(r, "DISCONNECTED"), ScheduleReconnect(SetStatus(r, "DISCONNECTED")))
    BY <1>3, <2>1 DEF Keeps, Marks
  <2> QED BY <2>1, <2>2 DEF OnDisconnected, Keeps, Marks
<1> QED BY <1>1, <1>2, <1>3, <1>4, <1>5 DEF OnStateChanged

\* The summary of the functions that drop the engine.
LEMMA RecordsDrop ==
    ASSUME NEW r \in SessionRecord
    PROVE  /\ Drops(r, Evict(r))
           /\ Drops(r, OnError(r))
<1>1. \A q \in SessionRecord : Drops(q, Evict(q))
  BY DEF SessionRecord, Evict, Drops, Marks
<1>2. Keeps(r, SetStatus(r, "FAILED"))
  BY RecordsKeep DEF Status
<1>3. Keeps(r, CancelReconnect(SetStatus(r, "FAILED")))
  BY <1>2, RecordsKeep DEF Keeps, Marks, Status
<1> DEFINE q == [CancelReconnect(SetStatus(r, "FAILED")) EXCEPT !.reason = TRUE]
<1>4. Keeps(r, q)
  BY <1>3 DEF Keeps, Marks, SessionRecord
<1>5. Drops(r, Evict(q))
  BY <1>1, <1>4 DEF Keeps, Drops, Marks
<1> QED BY <1>1, <1>5 DEF OnError

\* What a teardown reports keeps the engine too.
LEMMA TeardownKeeps ==
    ASSUME NEW r \in SessionRecord, NEW e
    PROVE  Keeps(r, TeardownSeen(r, e))
<1>1. Keeps(r, r)
  BY DEF Keeps, Marks
<1>2. Keeps(r, OnStateChanged(r, "DISCONNECTED"))
  BY RecordsKeep DEF Status
<1> QED BY <1>1, <1>2 DEF TeardownSeen

\* Tearing down leaves every engine record a record.
LEMMA TornType ==
    ASSUME NEW es \in [Engines -> EngineRecord], NEW r \in SessionRecord
    PROVE  Torn(r, es) \in [Engines -> EngineRecord]
<1>1. \A g \in EngineRecord : TornDown(g) \in EngineRecord
  BY DEF EngineRecord, TornDown, EngineStatus, Status
<1>2. r.engine # None => r.engine \in Engines
  BY DEF SessionRecord
<1>3. \A e \in Engines : TornDown(es[e]) \in EngineRecord
  BY <1>1
<1> QED BY <1>2, <1>3 DEF Torn

\* A rejected initialization leaves an engine record behind.
LEMMA RejectedType ==
    ASSUME NEW es \in [Engines -> EngineRecord], NEW e \in Engines
    PROVE  [es EXCEPT ![e].phase = "closing", ![e].st = "FAILED"] \in [Engines -> EngineRecord]
<1>1. es[e] \in EngineRecord
  OBVIOUS
<1>2. [es[e] EXCEPT !.phase = "closing", !.st = "FAILED"] \in EngineRecord
  BY <1>1 DEF EngineRecord, EngineStatus, Status
<1>3. [es EXCEPT ![e].phase = "closing", ![e].st = "FAILED"]
        = [es EXCEPT ![e] = [es[e] EXCEPT !.phase = "closing", !.st = "FAILED"]]
  BY <1>1 DEF EngineRecord
<1> QED BY <1>2, <1>3

-----------------------------------------------------------------------------
(* Type correctness, with the shape of the tasks.                           *)

InitPcs == {"initStatus", "initWait", "guard", "undo", "timedOut", "thrown"}

\* Which calls can be where.
TaskShape ==
    \A t \in Tasks :
       /\ task[t].pc = "idle" => task[t] = Idle
       /\ task[t].pc # "idle" => task[t].s \in Sessions
       /\ task[t].pc = "find" => task[t].op \in {"start", "stop", "delete"}
       /\ task[t].pc \in {"hook", "reap"} => task[t].op = "start"
       /\ task[t].pc \in InitPcs => task[t].op \in {"start", "reconnect"}
       /\ task[t].pc \in {"initStatus", "initWait"} => task[t].e \in Engines
       /\ task[t].pc = "destroy" => task[t].op = "reconnect"
       /\ task[t].pc \in {"down", "drop", "purge"} => task[t].op \in {"stop", "delete"}

TypeInv == TypeOK /\ TaskShape

\* initializeEngine(): session s has a new engine, its marks are those the caller left.
LEMMA InitializeEffect ==
    ASSUME TypeInv, NEW t \in Tasks, NEW op \in {"start", "reconnect"}, NEW s \in Sessions,
           NEW r \in SessionRecord, InitializeEngine(t, op, s, r)
    PROVE  \E e \in Engines, q \in SessionRecord, k \in TaskRecord :
              /\ Marks(r, q) /\ q.engine = e
              /\ sess' = Becomes(s, q)
              /\ k.op = op /\ k.s = s /\ k.e = e /\ k.pc \in {"initStatus", "thrown"}
              /\ task' = [task EXCEPT ![t] = k]
              /\ eng' \in [Engines -> EngineRecord]
              /\ proc' = proc
<1>1. PICK e \in Engines, written \in {TRUE, ~DbFails} :
         LET registered == [r EXCEPT !.engine = e, !.reason = FALSE] IN
         /\ eng' = [eng EXCEPT ![e] = [NoEngine EXCEPT !.owner = s, !.phase = "new"]]
         /\ sess' = [sess EXCEPT ![s] = IF written THEN SetStatus(registered, "INITIALIZING")
                                        ELSE registered]
         /\ task' = [task EXCEPT ![t] = [Idle EXCEPT !.op = op, !.s = s, !.e = e,
                                           !.pc = IF written THEN "initStatus" ELSE "thrown"]]
         /\ UNCHANGED proc
  BY DEF InitializeEngine
<1> DEFINE registered == [r EXCEPT !.engine = e, !.reason = FALSE]
           q == IF written THEN SetStatus(registered, "INITIALIZING") ELSE registered
           k == [Idle EXCEPT !.op = op, !.s = s, !.e = e,
                             !.pc = IF written THEN "initStatus" ELSE "thrown"]
<1>2. registered \in SessionRecord /\ Marks(r, registered) /\ registered.engine = e
  BY DEF SessionRecord, Marks
<1>3. Keeps(registered, SetStatus(registered, "INITIALIZING"))
  BY <1>2, RecordsKeep DEF Status
<1>4. q \in SessionRecord /\ Marks(r, q) /\ q.engine = e
  BY <1>2, <1>3 DEF Keeps, Marks
<1>5. /\ k \in TaskRecord
      /\ k.op = op /\ k.s = s /\ k.e = e /\ k.pc \in {"initStatus", "thrown"}
  BY DEF TaskRecord, Idle
<1>6. [NoEngine EXCEPT !.owner = s, !.phase = "new"] \in EngineRecord
  BY DEF NoEngine, EngineRecord, EngineStatus, Status
<1>7. eng' \in [Engines -> EngineRecord]
  BY <1>1, <1>6 DEF TypeInv, TypeOK
<1>8. sess' = Becomes(s, q) /\ task' = [task EXCEPT ![t] = k]
  BY <1>1 DEF Becomes
<1> HIDE DEF q, k
<1> QED BY <1>1, <1>4, <1>5, <1>7, <1>8

\* A catch block: the session has no engine any more, and start() either gives the reservation
\* back now or goes on to reap.
LEMMA CatchEffect ==
    ASSUME TypeInv, NEW t \in Tasks, task[t].pc \in InitPcs, NEW r \in SessionRecord,
           NEW es \in [Engines -> EngineRecord], Catch(t, r, es)
    PROVE  \E q \in SessionRecord :
              /\ sess' = Becomes(task[t].s, q)
              /\ q.engine = None
              /\ q.stopping = r.stopping
              /\ MaxAttempts = 0 => (q.timer => r.timer)
              /\ \/ task[t].op = "reconnect" /\ q.starting = r.starting /\ task' = End(t)
                 \/ task[t].op = "start" /\ ~q.starting /\ task' = End(t)
                 \/ task[t].op = "start" /\ q.starting = r.starting /\ task' = Goto(t, "reap")
              /\ eng' \in [Engines -> EngineRecord]
              /\ proc' = proc
<1>1. eng' \in [Engines -> EngineRecord] /\ proc' = proc
  BY TornType DEF Catch
<1>2. CASE task[t].op = "reconnect"
  <2> DEFINE q == ScheduleReconnect(Evict(r))
  <2>1. Drops(r, Evict(r))
    BY RecordsDrop
  <2>2. Keeps(Evict(r), q)
    BY <2>1, RecordsKeep DEF Drops, Marks, Status
  <2>3. sess' = Becomes(task[t].s, q) /\ task' = End(t)
    BY <1>2 DEF Catch
  <2> HIDE DEF q
  <2> QED BY <1>1, <1>2, <2>1, <2>2, <2>3 DEF Drops, Keeps, Marks
<1>3. CASE task[t].op # "reconnect" /\ r.engine = None
  <2> DEFINE q == [r EXCEPT !.starting = FALSE]
  <2>1. /\ q \in SessionRecord /\ q.engine = None /\ q.stopping = r.stopping
        /\ q.timer = r.timer /\ ~q.starting
    BY <1>3 DEF SessionRecord
  <2>2. sess' = Becomes(task[t].s, q) /\ task' = End(t)
    BY <1>3 DEF Catch
  <2>3. task[t].op = "start"
    BY <1>3 DEF TypeInv, TaskShape
  <2> HIDE DEF q
  <2> QED BY <1>1, <2>1, <2>2, <2>3
<1>4. CASE task[t].op # "reconnect" /\ r.engine # None
  <2> DEFINE q == [Evict(r) EXCEPT !.reason = TRUE]
  <2>1. /\ q \in SessionRecord /\ q.engine = None /\ q.stopping = r.stopping
        /\ q.timer = r.timer /\ q.starting = r.starting
    BY DEF SessionRecord, Evict
  <2>2. sess' = Becomes(task[t].s, q) /\ task' = Goto(t, "reap")
    BY <1>4 DEF Catch
  <2>3. task[t].op = "start"
    BY <1>4 DEF TypeInv, TaskShape
  <2> HIDE DEF q
  <2> QED BY <1>1, <2>1, <2>2, <2>3
<1> QED BY <1>2, <1>3, <1>4

\* An event of an engine: no task moves, and a session loses at most its engine.
LEMMA EngineEffect ==
    ASSUME TypeInv, NEW e \in Engines, EngineStep(e)
    PROVE  /\ eng' \in [Engines -> EngineRecord]
           /\ sess' \in [Sessions -> SessionRecord]
           /\ \A s \in Sessions : /\ Marks(sess[s], sess'[s])
                                  /\ sess'[s].engine \in {sess[s].engine, None}
           /\ UNCHANGED <<task, proc>>
<1> USE DEF TypeInv, TypeOK
<1>1. ASSUME NEW s \in Sessions PROVE Keeps(sess[s], sess[s])
  BY DEF Keeps, Marks
<1>2. ASSUME NEW q, sess' = Callback(e, q), eng[e].owner \in Sessions => q \in SessionRecord /\ Marks(Owner(e), q) /\ q.engine \in {Owner(e).engine, None}
      PROVE  /\ sess' \in [Sessions -> SessionRecord]
             /\ \A s \in Sessions : /\ Marks(sess[s], sess'[s])
                                    /\ sess'[s].engine \in {sess[s].engine, None}
  <2>1. eng[e].owner \in Sessions \cup {None}
    BY DEF EngineRecord
  <2>2. CASE ~IsLive(e)
    BY <1>1, <1>2, <2>2 DEF Callback, Keeps
  <2>3. CASE IsLive(e)
    <3>1. eng[e].owner \in Sessions
      BY <2>1, <2>3 DEF IsLive
    <3>2. sess' = [sess EXCEPT ![eng[e].owner] = q]
      BY <1>2, <2>3 DEF Callback, Becomes
    <3> QED BY <1>1, <1>2, <3>1, <3>2 DEF Owner, Keeps
  <2> QED BY <2>2, <2>3
<1>3. eng[e].owner \in Sessions => Owner(e) \in SessionRecord
  BY DEF Owner
<1> DEFINE Allowed(q) == eng[e].owner \in Sessions => q \in SessionRecord /\ Marks(Owner(e), q) /\ q.engine \in {Owner(e).engine, None}
<1>4. /\ \A st \in Status : Allowed(OnStateChanged(Owner(e), st))
      /\ Allowed(OnReady(Owner(e))) /\ Allowed(OnDisconnected(Owner(e)))
  BY <1>3, RecordsKeep DEF Keeps, Marks, Status
<1>5. Allowed(OnError(Owner(e)))
  BY <1>3, RecordsDrop DEF Drops, Marks
<1>6. eng[e] \in EngineRecord /\ TornDown(eng[e]) \in EngineRecord
  BY DEF EngineRecord, TornDown, EngineStatus, Status
<1>7. CASE Launched(e)
  BY <1>1, <1>6, <1>7 DEF Launched, EngineRecord, Keeps
<1>8. CASE QrReceived(e)
  BY <1>1, <1>6, <1>8 DEF QrReceived, EngineRecord, Keeps
<1>9. CASE QrRendered(e)
  <2>1. eng' \in [Engines -> EngineRecord] /\ UNCHANGED <<task, proc>>
    BY <1>6, <1>9 DEF QrRendered, EngineRecord, EngineStatus, Status
  <2>2. sess' = sess \/ sess' = Callback(e, OnStateChanged(Owner(e), "QR_READY"))
    BY <1>9 DEF QrRendered
  <2>3. CASE sess' = sess
    BY <1>1, <2>1, <2>3 DEF Keeps
  <2>4. CASE sess' = Callback(e, OnStateChanged(Owner(e), "QR_READY"))
    BY <1>2, <1>4, <2>1, <2>4 DEF Status
  <2> QED BY <2>2, <2>3, <2>4
<1>10. CASE Authenticated(e)
  BY <1>2, <1>4, <1>6, <1>10 DEF Authenticated, EngineRecord, EngineStatus, Status
<1>11. CASE Ready(e)
  BY <1>2, <1>4, <1>6, <1>11 DEF Ready, EngineRecord, EngineStatus, Status
<1>12. CASE Disconnected(e)
  BY <1>2, <1>4, <1>6, <1>12 DEF Disconnected, EngineRecord, EngineStatus, Status
<1>13. CASE StuckAuth(e)
  BY <1>1, <1>6, <1>13 DEF StuckAuth, EngineRecord, Keeps
<1>14. CASE Failed(e)
  <2> DEFINE failed == [eng[e] EXCEPT !.st = "FAILED",
                                      !.phase = IF Adapter = "baileys" THEN "closing" ELSE @]
  <2>1. failed \in EngineRecord
    BY <1>6 DEF EngineRecord, EngineStatus, Status
  <2>2. TornDown(failed) \in EngineRecord
    BY <2>1 DEF EngineRecord, TornDown, EngineStatus, Status
  <2>3. eng' = [eng EXCEPT ![e] = IF IsLive(e) THEN TornDown(failed) ELSE failed]
    BY <1>14 DEF Failed
  <2>4. eng' \in [Engines -> EngineRecord]
    BY <2>1, <2>2, <2>3
  <2> QED BY <1>2, <1>5, <1>14, <2>4 DEF Failed
<1>15. CASE Dropped(e)
  BY <1>2, <1>4, <1>6, <1>15 DEF Dropped, EngineRecord, EngineStatus, Status
<1>16. CASE Detached(e)
  BY <1>2, <1>4, <1>6, <1>16 DEF Detached, EngineRecord, EngineStatus, Status
<1>17. CASE AuthCleared(e)
  BY <1>2, <1>4, <1>6, <1>17 DEF AuthCleared, EngineRecord, EngineStatus, Status
<1> QED BY <1>7, <1>8, <1>9, <1>10, <1>11, <1>12, <1>13, <1>14, <1>15, <1>16, <1>17 DEF EngineStep

\* Every step keeps the types and the shape.
LEMMA TypeStep ==
    ASSUME TypeInv, [Next]_vars
    PROVE  TypeInv'
<1> USE DEF TypeInv
<1>0. /\ \A s \in Sessions : sess[s] \in SessionRecord
      /\ \A t \in Tasks : task[t] \in TaskRecord
      /\ Idle \in TaskRecord /\ Idle.pc = "idle" /\ Idle.op = "none" /\ Idle.e = None
  BY DEF TypeOK, TaskRecord, Idle
<1>1. ASSUME NEW s \in Sessions, NEW q \in SessionRecord, sess' = Becomes(s, q)
      PROVE  sess' \in [Sessions -> SessionRecord]
  BY <1>1 DEF TypeOK, Becomes
<1>2. ASSUME NEW t \in Tasks, NEW k \in TaskRecord, task' = [task EXCEPT ![t] = k],
             k.pc = "idle" => k = Idle,
             k.pc # "idle" => k.s \in Sessions,
             k.pc = "find" => k.op \in {"start", "stop", "delete"},
             k.pc \in {"hook", "reap"} => k.op = "start",
             k.pc \in InitPcs => k.op \in {"start", "reconnect"},
             k.pc \in {"initStatus", "initWait"} => k.e \in Engines,
             k.pc = "destroy" => k.op = "reconnect",
             k.pc \in {"down", "drop", "purge"} => k.op \in {"stop", "delete"}
      PROVE  task' \in [Tasks -> TaskRecord] /\ TaskShape'
  BY <1>2 DEF TypeOK, TaskShape
<1>3. ASSUME NEW t \in Tasks, task' = End(t)
      PROVE  task' \in [Tasks -> TaskRecord] /\ TaskShape'
  BY <1>0, <1>2, <1>3 DEF End, InitPcs
<1>4. ASSUME NEW t \in Tasks, NEW pc, task' = Goto(t, pc), task[t].pc # "idle",
             \/ pc = "hook" /\ task[t].op = "start"
             \/ pc = "initWait" /\ task[t].pc = "initStatus"
             \/ pc \in {"undo", "timedOut", "thrown"} /\ task[t].op \in {"start", "reconnect"}
             \/ pc = "reap" /\ task[t].op = "start"
             \/ pc \in {"down", "drop", "purge"} /\ task[t].op \in {"stop", "delete"}
      PROVE  task' \in [Tasks -> TaskRecord] /\ TaskShape'
  <2> DEFINE k == [task[t] EXCEPT !.pc = pc]
  <2>1. task' = [task EXCEPT ![t] = k]
    BY <1>4 DEF Goto, TypeOK
  <2>2. k \in TaskRecord /\ k.pc = pc /\ k.op = task[t].op /\ k.s = task[t].s /\ k.e = task[t].e
    BY <1>0, <1>4 DEF TaskRecord
  <2>3. /\ task[t].s \in Sessions
        /\ task[t].pc = "initStatus" => task[t].e \in Engines /\ task[t].op \in {"start", "reconnect"}
    BY <1>4 DEF TaskShape, InitPcs
  <2> HIDE DEF k
  <2> QED BY <1>2, <1>4, <2>1, <2>2, <2>3 DEF InitPcs
<1>5. ASSUME NEW r \in SessionRecord, NEW t \in Tasks
      PROVE  \A op : Marks(Unreserve(op, r), Unreserve(op, r)) /\ Unreserve(op, r) \in SessionRecord
  BY DEF Unreserve, SessionRecord, Marks
<1>6. ASSUME NEW t \in Tasks, NEW s \in Sessions, NEW op \in Requests, Request(t, op, s)
      PROVE  TypeInv'
  <2> DEFINE k == [Idle EXCEPT !.op = op, !.s = s, !.pc = "find"]
  <2>1. op \in {"start", "stop", "delete"}
    BY ConfigAssumption DEF ConfigAssumption
  <2>2. k \in TaskRecord /\ k.pc = "find" /\ k.op = op /\ k.s = s
    BY <2>1 DEF TaskRecord, Idle
  <2>3. task' = [task EXCEPT ![t] = k] /\ UNCHANGED <<sess, eng, proc>>
    BY <1>6 DEF Request
  <2> HIDE DEF k
  <2> QED BY <1>2, <2>1, <2>2, <2>3 DEF InitPcs, TypeOK
<1>7. ASSUME NEW t \in Tasks, NEW op \in {"start", "reconnect"}, NEW s \in Sessions,
             NEW r \in SessionRecord, InitializeEngine(t, op, s, r)
      PROVE  TypeInv'
  <2>1. PICK e \in Engines, q \in SessionRecord, k \in TaskRecord :
              /\ sess' = Becomes(s, q)
              /\ k.op = op /\ k.s = s /\ k.e = e /\ k.pc \in {"initStatus", "thrown"}
              /\ task' = [task EXCEPT ![t] = k]
              /\ eng' \in [Engines -> EngineRecord]
              /\ proc' = proc
    BY <1>7, InitializeEffect
  <2> QED BY <1>1, <1>2, <2>1 DEF InitPcs, TypeOK
<1>8. ASSUME NEW t \in Tasks, task[t].pc \in InitPcs, NEW r \in SessionRecord,
             NEW es \in [Engines -> EngineRecord], Catch(t, r, es)
      PROVE  TypeInv'
  <2>1. PICK q \in SessionRecord :
              /\ sess' = Becomes(task[t].s, q)
              /\ task' = End(t) \/ (task[t].op = "start" /\ task' = Goto(t, "reap"))
              /\ eng' \in [Engines -> EngineRecord]
              /\ proc' = proc
    BY <1>8, CatchEffect
  <2>2. task[t].s \in Sessions /\ task[t].pc # "idle"
    BY <1>8 DEF TaskShape, InitPcs
  <2> QED BY <1>1, <1>3, <1>4, <2>1, <2>2 DEF TypeOK
<1>9. ASSUME NEW t \in Tasks, NEW s \in Sessions, ReconnectFires(t, s)
      PROVE  TypeInv'
  <2> DEFINE r == [sess[s] EXCEPT !.timer = FALSE]
  <2>1. r \in SessionRecord
    BY <1>0 DEF SessionRecord
  <2>2. CASE r.engine = None /\ InitializeEngine(t, "reconnect", s, r)
    BY <1>7, <2>1, <2>2
  <2>3. CASE /\ r.engine # None
             /\ eng' = Torn(r, eng)
             /\ sess' = Becomes(s, TeardownSeen(r, r.engine))
             /\ task' = [task EXCEPT ![t] = [Idle EXCEPT !.op = "reconnect", !.s = s,
                                                         !.pc = "destroy"]]
             /\ UNCHANGED proc
    <3> DEFINE k == [Idle EXCEPT !.op = "reconnect", !.s = s, !.pc = "destroy"]
    <3>1. k \in TaskRecord /\ k.op = "reconnect" /\ k.pc = "destroy" /\ k.s = s
      BY DEF TaskRecord, Idle
    <3>2. TeardownSeen(r, r.engine) \in SessionRecord
      BY <2>1, TeardownKeeps DEF Keeps, Marks
    <3>3. eng' \in [Engines -> EngineRecord]
      BY <2>1, <2>3, TornType DEF TypeOK
    <3>4. task' = [task EXCEPT ![t] = k]
      BY <2>3
    <3> HIDE DEF k, r
    <3> QED BY <1>1, <1>2, <2>3, <3>1, <3>2, <3>3, <3>4 DEF InitPcs, TypeOK
  <2> QED BY <1>9, <2>2, <2>3 DEF ReconnectFires
<1>10. ASSUME NEW s \in Sessions, ReconnectSuppressed(s)
       PROVE  TypeInv'
  <2>1. [sess[s] EXCEPT !.timer = FALSE] \in SessionRecord
    BY <1>0 DEF SessionRecord
  <2> QED BY <1>1, <1>10, <2>1 DEF ReconnectSuppressed, TypeOK, TaskShape
<1>11. ASSUME NEW t \in Tasks, TaskStep(t) \/ EngineAnswers(t)
       PROVE  TypeInv'
  <2> DEFINE s == task[t].s
             r == sess[s]
  <2>0. ASSUME task[t].pc # "idle" PROVE s \in Sessions /\ r \in SessionRecord
    BY <1>0, <2>0 DEF TaskShape
  <2>1. CASE StartRejected(t)
    BY <1>3, <2>1 DEF StartRejected, TypeOK
  <2>2. CASE StartReserved(t)
    <3> DEFINE q == [r EXCEPT !.starting = TRUE, !.stopping = FALSE]
    <3>1. s \in Sessions /\ task[t].pc = "find" /\ task[t].op = "start"
      BY <2>0, <2>2 DEF StartReserved
    <3>2. q \in SessionRecord
      BY <1>0, <3>1 DEF SessionRecord
    <3>3. CancelReconnect(q) \in SessionRecord
      BY <3>2, RecordsKeep DEF Keeps, Marks, Status
    <3> QED BY <1>1, <1>4, <2>2, <3>1, <3>3 DEF StartReserved, TypeOK
  <2>3. CASE StartHookDone(t)
    <3>1. s \in Sessions /\ r \in SessionRecord /\ task[t].pc = "hook"
      BY <2>0, <2>3 DEF StartHookDone
    <3>2. [r EXCEPT !.tracked = TRUE, !.attempts = 0, !.timer = FALSE] \in SessionRecord
      <4>1. 0 \in 0..MaxAttempts
        BY ConfigAssumption DEF ConfigAssumption
      <4> QED BY <3>1, <4>1 DEF SessionRecord
    <3> QED BY <1>7, <2>3, <3>1, <3>2 DEF StartHookDone
  <2>4. CASE BeginInitialize(t)
    <3>1. s \in Sessions /\ r \in SessionRecord /\ task[t].e \in Engines
      BY <2>0, <2>4 DEF BeginInitialize, TaskShape
    <3>2. OnStateChanged(r, "INITIALIZING") \in SessionRecord
      BY <3>1, RecordsKeep DEF Keeps, Marks, Status
    <3>3. sess' \in [Sessions -> SessionRecord]
      BY <1>1, <2>4, <3>1, <3>2 DEF BeginInitialize, TypeOK
    <3>4. eng' \in [Engines -> EngineRecord]
      BY <2>4, <3>1 DEF BeginInitialize, TypeOK, EngineRecord, EngineStatus, Status
    <3> QED BY <1>4, <2>4, <3>3, <3>4 DEF BeginInitialize, TypeOK
  <2>5. CASE InitResolved(t)
    <3>1. s \in Sessions /\ r \in SessionRecord /\ task[t].pc = "initWait"
      BY <2>0, <2>5 DEF InitResolved
    <3>2. ASSUME NEW b \in BOOLEAN,
                 task' = [task EXCEPT ![t].pc = "guard", ![t].retired = b]
          PROVE  task' \in [Tasks -> TaskRecord] /\ TaskShape'
      <4> DEFINE k == [task[t] EXCEPT !.pc = "guard", !.retired = b]
      <4>1. task' = [task EXCEPT ![t] = k]
        BY <3>2 DEF TypeOK
      <4>2. k \in TaskRecord /\ k.pc = "guard" /\ k.op = task[t].op /\ k.s = s
        BY <1>0 DEF TaskRecord
      <4>3. task[t].op \in {"start", "reconnect"}
        BY <3>1 DEF TaskShape, InitPcs
      <4> HIDE DEF k
      <4> QED BY <1>2, <3>1, <4>1, <4>2, <4>3 DEF InitPcs
    <3>3. (r.stopping \/ r.row = "GONE") \in BOOLEAN
      OBVIOUS
    <3>4. CASE /\ task' = [task EXCEPT ![t].pc = "guard",
                                       ![t].retired = r.stopping \/ r.row = "GONE"]
               /\ UNCHANGED sess
      BY <2>5, <3>2, <3>3, <3>4 DEF InitResolved, TypeOK
    <3>5. CASE /\ task' = IF task[t].op = "start" THEN End(t)
                          ELSE [task EXCEPT ![t].pc = "guard", ![t].retired = FALSE]
               /\ sess' = Becomes(s, Unreserve(task[t].op, r))
      <4>1. sess' \in [Sessions -> SessionRecord]
        BY <1>1, <1>5, <3>1, <3>5
      <4>2. task' \in [Tasks -> TaskRecord] /\ TaskShape'
        BY <1>3, <3>2, <3>5
      <4> QED BY <2>5, <4>1, <4>2 DEF InitResolved, TypeOK
    <3> QED BY <2>5, <3>4, <3>5 DEF InitResolved
  <2>6. CASE Guard(t)
    <3>1. s \in Sessions /\ r \in SessionRecord /\ task[t].op \in {"start", "reconnect"} /\ task[t].pc = "guard"
      BY <2>0, <2>6 DEF Guard, TaskShape, InitPcs
    <3>2. TeardownSeen(r, r.engine) \in SessionRecord
      BY <3>1, TeardownKeeps DEF Keeps, Marks
    <3>3. Torn(r, eng) \in [Engines -> EngineRecord]
      BY <3>1, TornType DEF TypeOK
    <3>4. CASE task[t].retired /\ r.engine # None
      BY <1>1, <1>4, <2>6, <3>1, <3>2, <3>3, <3>4 DEF Guard, TypeOK
    <3>5. CASE ~(task[t].retired /\ r.engine # None)
      BY <1>1, <1>3, <1>5, <2>6, <3>1, <3>5 DEF Guard, TypeOK
    <3> QED BY <3>4, <3>5
  <2>7. CASE GuardTornDown(t)
    <3>1. s \in Sessions /\ Evict(r) \in SessionRecord
      BY <2>0, <2>7, RecordsDrop DEF GuardTornDown, Drops, Marks
    <3> QED BY <1>1, <1>3, <1>5, <2>7, <3>1 DEF GuardTornDown, TypeOK
  <2>8. CASE InitRejected(t)
    <3>1. s \in Sessions /\ r \in SessionRecord /\ task[t].e \in Engines /\ task[t].pc \in InitPcs
      BY <2>0, <2>8 DEF InitRejected, TaskShape, InitPcs
    <3>2. (IF IsLive(task[t].e) THEN OnError(r) ELSE r) \in SessionRecord
      BY <3>1, RecordsDrop DEF Drops, Marks
    <3>3. [eng EXCEPT ![task[t].e].phase = "closing", ![task[t].e].st = "FAILED"]
            \in [Engines -> EngineRecord]
      BY <3>1, RejectedType DEF TypeOK
    <3> QED BY <1>8, <2>8, <3>1, <3>2, <3>3 DEF InitRejected
  <2>9. CASE Thrown(t)
    <3>1. r \in SessionRecord /\ task[t].pc \in InitPcs
      BY <2>0, <2>9 DEF Thrown, InitPcs
    <3> QED BY <1>8, <2>9, <3>1 DEF Thrown, TypeOK
  <2>10. CASE InitTimedOut(t)
    <3>1. s \in Sessions /\ r \in SessionRecord /\ task[t].e \in Engines /\ task[t].op \in {"start", "reconnect"}
      BY <2>0, <2>10 DEF InitTimedOut, TaskShape, InitPcs
    <3>2. [Evict(r) EXCEPT !.reason = TRUE] \in SessionRecord
      BY <3>1 DEF Evict, SessionRecord
    <3>3. eng' \in [Engines -> EngineRecord]
      BY <2>10, <3>1 DEF InitTimedOut, TypeOK, TornDown, EngineRecord, EngineStatus, Status
    <3> QED BY <1>1, <1>4, <2>10, <3>1, <3>2, <3>3 DEF InitTimedOut, TypeOK
  <2>11. CASE TimeoutTornDown(t)
    <3>1. s \in Sessions /\ r \in SessionRecord /\ task[t].op \in {"start", "reconnect"}
      BY <2>0, <2>11 DEF TimeoutTornDown, TaskShape, InitPcs
    <3>2. SetStatus(r, "DISCONNECTED") \in SessionRecord
      BY <3>1, RecordsKeep DEF Keeps, Marks, Status
    <3> QED BY <1>1, <1>4, <2>11, <3>1, <3>2 DEF TimeoutTornDown, TypeOK
  <2>12. CASE StartReaped(t)
    <3>1. s \in Sessions /\ r \in SessionRecord
      BY <2>0, <2>12 DEF StartReaped
    <3>2. [SetStatus(r, "FAILED") EXCEPT !.starting = FALSE] \in SessionRecord
      BY <3>1 DEF SetStatus, SessionRecord, Status
    <3> QED BY <1>1, <1>3, <2>12, <3>1, <3>2 DEF StartReaped, TypeOK
  <2>13. CASE Reinitialize(t)
    BY <1>7, <2>0, <2>13 DEF Reinitialize
  <2>14. ASSUME NEW q \in SessionRecord, task[t].pc # "idle", task[t].op \in {"stop", "delete"},
                AfterTeardown(t, q)
         PROVE  sess' \in [Sessions -> SessionRecord] /\ task' \in [Tasks -> TaskRecord] /\ TaskShape'
    <3>1. SetStatus(q, "DISCONNECTED") \in SessionRecord
      BY RecordsKeep DEF Keeps, Marks, Status
    <3> QED BY <1>1, <1>3, <1>4, <2>0, <2>14, <3>1 DEF AfterTeardown
  <2>15. CASE TearDown(t)
    <3> DEFINE q == CancelReconnect([r EXCEPT !.stopping = TRUE])
    <3>1. s \in Sessions /\ r \in SessionRecord /\ task[t].op \in {"stop", "delete"}
      BY <2>0, <2>15 DEF TearDown
    <3>2. q \in SessionRecord
      <4>1. [r EXCEPT !.stopping = TRUE] \in SessionRecord
        BY <3>1 DEF SessionRecord
      <4> QED BY <4>1, RecordsKeep DEF Keeps, Marks, Status
    <3>3. TeardownSeen(q, q.engine) \in SessionRecord /\ Torn(q, eng) \in [Engines -> EngineRecord]
      BY <3>2, TeardownKeeps, TornType DEF Keeps, Marks, TypeOK
    <3>4. CASE q.engine # None
      <4>1. eng' = Torn(q, eng) /\ sess' = Becomes(s, TeardownSeen(q, q.engine)) /\ task' = Goto(t, "down") /\ proc' = proc
        BY <2>15, <3>4 DEF TearDown
      <4> HIDE DEF q
      <4> QED BY <1>1, <1>4, <2>15, <3>1, <3>3, <4>1 DEF TearDown, TypeOK
    <3>5. CASE q.engine = None
      <4>1. AfterTeardown(t, q) /\ UNCHANGED <<eng, proc>>
        BY <2>15, <3>5 DEF TearDown
      <4> HIDE DEF q
      <4> QED BY <2>14, <2>15, <3>1, <3>2, <4>1 DEF TearDown, TypeOK
    <3> QED BY <3>4, <3>5
  <2>16. CASE TornDownDone(t)
    <3>1. task[t].op \in {"stop", "delete"} /\ Evict(r) \in SessionRecord
      BY <2>0, <2>16, RecordsDrop DEF TornDownDone, TaskShape, Drops, Marks
    <3> QED BY <2>14, <2>16, <3>1 DEF TornDownDone, TypeOK
  <2>17. ASSUME task[t].pc \in {"drop", "purge"}
         PROVE  /\ s \in Sessions /\ task[t].op \in {"stop", "delete"}
                /\ Unmark(r) \in SessionRecord
                /\ [r EXCEPT !.row = "GONE"] \in SessionRecord
    <3>1. s \in Sessions /\ r \in SessionRecord /\ task[t].op \in {"stop", "delete"}
      BY <2>0, <2>17 DEF TaskShape
    <3> QED BY <3>1 DEF Unmark, SessionRecord
  <2>18. CASE DropRows(t)
    BY <1>1, <1>3, <1>4, <2>17, <2>18 DEF DropRows, TypeOK
  <2>19. CASE Purged(t)
    BY <1>1, <1>3, <2>17, <2>19 DEF Purged, TypeOK
  <2> QED BY <1>11, <2>1, <2>2, <2>3, <2>4, <2>5, <2>6, <2>7, <2>8, <2>9, <2>10, <2>11, <2>12,
             <2>13, <2>15, <2>16, <2>18, <2>19 DEF TaskStep, EngineAnswers
<1>12. ASSUME NEW e \in Engines, EngineStep(e)
       PROVE  TypeInv'
  BY <1>12, EngineEffect DEF TypeOK, TaskShape
<1>13. CASE Drain
  BY <1>13 DEF Drain, TypeOK, TaskShape
<1>14. CASE Destroy
  <2>1. \A s \in Sessions :
           LET r == CancelReconnect(sess[s])
           IN (IF r.engine = None THEN r ELSE TeardownSeen(r, r.engine)) \in SessionRecord
    BY <1>0, RecordsKeep, TeardownKeeps DEF Keeps, Marks, Status
  <2>2. \A e \in Engines : TornDown(eng[e]) \in EngineRecord /\ eng[e] \in EngineRecord
    BY DEF TypeOK, TornDown, EngineRecord, EngineStatus, Status
  <2>3. sess' \in [Sessions -> SessionRecord]
    BY <1>14, <2>1 DEF Destroy
  <2>4. eng' \in [Engines -> EngineRecord]
    BY <1>14, <2>2 DEF Destroy
  <2> QED BY <1>14, <2>3, <2>4 DEF Destroy, TypeOK, TaskShape
<1>15. CASE Restart
  <2>1. 0 \in 0..MaxAttempts
    BY ConfigAssumption DEF ConfigAssumption
  <2>2. \A s \in Sessions :
          [NewSession EXCEPT !.row = IF sess[s].row \in ActiveStatus THEN "DISCONNECTED"
                                     ELSE sess[s].row] \in SessionRecord
    BY <1>0, <2>1 DEF NewSession, SessionRecord, Status
  <2>3. NoEngine \in EngineRecord
    BY DEF NoEngine, EngineRecord, EngineStatus, Status
  <2>4. sess' \in [Sessions -> SessionRecord] /\ eng' \in [Engines -> EngineRecord]
    BY <1>15, <2>2, <2>3 DEF Restart
  <2>5. task' = [t \in Tasks |-> Idle] /\ proc' = "up"
    BY <1>15 DEF Restart
  <2> QED BY <1>0, <2>4, <2>5 DEF TypeOK, TaskShape, InitPcs
<1>16. CASE UNCHANGED vars
  BY <1>16 DEF vars, TypeOK, TaskShape
<1> QED BY <1>6, <1>9, <1>10, <1>11, <1>12, <1>13, <1>14, <1>15, <1>16 DEF Next

LEMMA TypeInit == ASSUME Init PROVE TypeInv
<1>1. 0 \in 0..MaxAttempts
  BY ConfigAssumption DEF ConfigAssumption
<1>2. NewSession \in SessionRecord
  BY <1>1 DEF NewSession, SessionRecord, Status
<1>3. NoEngine \in EngineRecord
  BY DEF NoEngine, EngineRecord, EngineStatus, Status
<1>4. Idle \in TaskRecord /\ Idle.pc = "idle"
  BY DEF Idle, TaskRecord
<1> QED BY <1>2, <1>3, <1>4 DEF Init, TypeInv, TypeOK, TaskShape, InitPcs

\* Every reachable state is well typed; in particular a session never counts more reconnect
\* attempts than its configured maximum.
THEOREM SessionTypeCorrect == Spec => []TypeOK
<1>1. Init => TypeInv
  BY TypeInit
<1>2. TypeInv /\ [Next]_vars => TypeInv'
  BY TypeStep
<1> QED BY <1>1, <1>2, PTL DEF Spec, TypeInv

-----------------------------------------------------------------------------
(* The reservation.  A step changes nothing about it, or lets one call take *)
(* a free reservation, or lets its only holder give it back.                *)

Holds(t, s) == task[t].op = "start" /\ task[t].s = s /\ task[t].pc # "find"

LEMMA ReservationByHolders ==
    ReservationHeldOnce <=> \A s \in Sessions :
        /\ sess[s].starting <=> \E t \in Tasks : Holds(t, s)
        /\ \A t, u \in Tasks : Holds(t, s) /\ Holds(u, s) => t = u
BY DEF ReservationHeldOnce, Starters, Holds

LEMMA ReservationKept ==
    ASSUME TypeInv, TypeInv', ReservationHeldOnce,
           \A s \in Sessions : sess'[s].starting = sess[s].starting,
           \A s \in Sessions, t \in Tasks : Holds(t, s)' <=> Holds(t, s)
    PROVE  ReservationHeldOnce'
BY DEF ReservationHeldOnce, Starters, Holds

LEMMA ReservationTaken ==
    ASSUME TypeInv, TypeInv', ReservationHeldOnce, NEW c \in Tasks, NEW s \in Sessions,
           ~sess[s].starting, sess'[s].starting, Holds(c, s)', ~ \E q \in Sessions : Holds(c, q),
           \A q \in Sessions \ {s} : sess'[q].starting = sess[q].starting,
           \A t \in Tasks \ {c} : task'[t] = task[t]
    PROVE  ReservationHeldOnce'
BY DEF ReservationHeldOnce, Starters, Holds

LEMMA ReservationGiven ==
    ASSUME TypeInv, TypeInv', ReservationHeldOnce, NEW c \in Tasks, NEW s \in Sessions,
           ~sess'[s].starting, Holds(c, s), \A q \in Sessions : ~Holds(c, q)',
           \A q \in Sessions \ {s} : sess'[q].starting = sess[q].starting,
           \A t \in Tasks \ {c} : task'[t] = task[t]
    PROVE  ReservationHeldOnce'
BY DEF ReservationHeldOnce, Starters, Holds

\* Every step keeps the reservation.
LEMMA ReservationStep ==
    ASSUME TypeInv, TypeInv', ReservationHeldOnce, [Next]_vars
    PROVE  ReservationHeldOnce'
<1>0. /\ \A s \in Sessions : sess[s] \in SessionRecord
      /\ \A t \in Tasks : task[t] \in TaskRecord
      /\ task \in [Tasks -> TaskRecord] /\ sess \in [Sessions -> SessionRecord]
      /\ Idle.op = "none"
  BY DEF TypeInv, TypeOK, Idle
<1>1. ASSUME NEW s \in Sessions, NEW q \in SessionRecord, sess' = Becomes(s, q),
             q.starting = sess[s].starting, NEW c \in Tasks, NEW k \in TaskRecord,
             task' = [task EXCEPT ![c] = k],
             \A x \in Sessions : k.op = "start" /\ k.s = x /\ k.pc # "find" <=> Holds(c, x)
      PROVE  ReservationHeldOnce'
  <2>1. \A x \in Sessions : sess'[x].starting = sess[x].starting
    BY <1>0, <1>1 DEF Becomes
  <2>2. \A x \in Sessions, t \in Tasks : Holds(t, x)' <=> Holds(t, x)
    BY <1>0, <1>1 DEF Holds
  <2> QED BY <2>1, <2>2, ReservationKept
\* Its only holder ends.
<1>2. ASSUME NEW c \in Tasks, NEW s \in Sessions, NEW q \in SessionRecord, sess' = Becomes(s, q),
             Holds(c, s), ~q.starting, task' = End(c)
      PROVE  ReservationHeldOnce'
  <2>1. ~sess'[s].starting /\ \A x \in Sessions \ {s} : sess'[x].starting = sess[x].starting
    BY <1>0, <1>2 DEF Becomes
  <2>2. \A x \in Sessions : ~Holds(c, x)'
    BY <1>0, <1>2 DEF End, Holds
  <2>3. \A t \in Tasks \ {c} : task'[t] = task[t]
    BY <1>0, <1>2 DEF End
  <2> QED BY <1>2, <2>1, <2>2, <2>3, ReservationGiven
\* A call that holds nothing ends, or moves.
<1>3. ASSUME NEW c \in Tasks, NEW s \in Sessions, NEW q \in SessionRecord,
             sess' = Becomes(s, q), q.starting = sess[s].starting,
             task[c].op # "start" \/ task[c].pc = "find", task' = End(c)
      PROVE  ReservationHeldOnce'
  <2>1. \A x \in Sessions : sess'[x].starting = sess[x].starting
    BY <1>0, <1>3 DEF Becomes
  <2>2. \A x \in Sessions, t \in Tasks : Holds(t, x)' <=> Holds(t, x)
    BY <1>0, <1>3 DEF Holds, End
  <2> QED BY <2>1, <2>2, ReservationKept
\* A call past its check moves on.
<1>4. ASSUME NEW c \in Tasks, NEW s \in Sessions, NEW q \in SessionRecord,
             sess' = Becomes(s, q), q.starting = sess[s].starting, NEW pc, pc # "find",
             task[c].op # "start" \/ task[c].pc # "find", task' = Goto(c, pc)
      PROVE  ReservationHeldOnce'
  <2>1. \A x \in Sessions : sess'[x].starting = sess[x].starting
    BY <1>0, <1>4 DEF Becomes
  <2>2. \A x \in Sessions, t \in Tasks : Holds(t, x)' <=> Holds(t, x)
    BY <1>0, <1>4 DEF Holds, Goto, TaskRecord
  <2> QED BY <2>1, <2>2, ReservationKept
<1>5. ASSUME UNCHANGED sess PROVE \A s \in Sessions : sess' = Becomes(s, sess[s])
  BY <1>0, <1>5 DEF Becomes
<1>6. ASSUME NEW t \in Tasks, NEW s \in Sessions, NEW op \in Requests, Request(t, op, s)
      PROVE  ReservationHeldOnce'
  <2>1. \A x \in Sessions : sess'[x].starting = sess[x].starting
    BY <1>6 DEF Request
  <2>2. task[t] = Idle
    BY <1>6 DEF Request, TypeInv, TaskShape
  <2>3. task' = [task EXCEPT ![t] = [Idle EXCEPT !.op = op, !.s = s, !.pc = "find"]]
    BY <1>6 DEF Request
  <2>4. \A x \in Sessions, u \in Tasks : Holds(u, x)' <=> Holds(u, x)
    BY <1>0, <2>2, <2>3 DEF Holds, Idle
  <2> QED BY <2>1, <2>4, ReservationKept
<1>7. ASSUME NEW t \in Tasks, NEW op \in {"start", "reconnect"}, NEW s \in Sessions,
             NEW r \in SessionRecord, InitializeEngine(t, op, s, r),
             r.starting = sess[s].starting,
             op = "start" => Holds(t, s), op = "reconnect" => task[t].op # "start"
      PROVE  ReservationHeldOnce'
  <2>1. PICK e \in Engines, q \in SessionRecord, k \in TaskRecord :
              /\ Marks(r, q) /\ sess' = Becomes(s, q)
              /\ k.op = op /\ k.s = s /\ k.pc \in {"initStatus", "thrown"}
              /\ task' = [task EXCEPT ![t] = k]
    BY <1>7, InitializeEffect
  <2> QED BY <1>1, <1>7, <2>1 DEF Holds, Marks
<1>8. ASSUME NEW t \in Tasks, task[t].pc \in InitPcs, NEW r \in SessionRecord,
             NEW es \in [Engines -> EngineRecord], Catch(t, r, es),
             r.starting = sess[task[t].s].starting
      PROVE  ReservationHeldOnce'
  <2>1. task[t].s \in Sessions /\ task[t].pc # "find"
    BY <1>8 DEF TypeInv, TaskShape, InitPcs
  <2>2. PICK q \in SessionRecord :
              /\ sess' = Becomes(task[t].s, q)
              /\ \/ task[t].op = "reconnect" /\ q.starting = r.starting /\ task' = End(t)
                 \/ task[t].op = "start" /\ ~q.starting /\ task' = End(t)
                 \/ task[t].op = "start" /\ q.starting = r.starting /\ task' = Goto(t, "reap")
    BY <1>8, CatchEffect
  <2>3. CASE task[t].op = "reconnect" /\ q.starting = r.starting /\ task' = End(t)
    BY <1>3, <1>8, <2>1, <2>2, <2>3
  <2>4. CASE task[t].op = "start" /\ ~q.starting /\ task' = End(t)
    BY <1>2, <2>1, <2>2, <2>4 DEF Holds
  <2>5. CASE task[t].op = "start" /\ q.starting = r.starting /\ task' = Goto(t, "reap")
    BY <1>4, <1>8, <2>1, <2>2, <2>5
  <2> QED BY <2>2, <2>3, <2>4, <2>5
<1>9. ASSUME NEW t \in Tasks, NEW s \in Sessions, ReconnectFires(t, s)
      PROVE  ReservationHeldOnce'
  <2> DEFINE r == [sess[s] EXCEPT !.timer = FALSE]
  <2>1. r \in SessionRecord /\ r.starting = sess[s].starting
    BY <1>0 DEF SessionRecord
  <2>2. task[t] = Idle
    BY <1>9 DEF ReconnectFires, TypeInv, TaskShape
  <2>3. CASE InitializeEngine(t, "reconnect", s, r)
    BY <1>0, <1>7, <2>1, <2>2, <2>3
  <2>4. CASE /\ sess' = Becomes(s, TeardownSeen(r, r.engine))
             /\ task' = [task EXCEPT ![t] = [Idle EXCEPT !.op = "reconnect", !.s = s,
                                                         !.pc = "destroy"]]
    <3> DEFINE k == [Idle EXCEPT !.op = "reconnect", !.s = s, !.pc = "destroy"]
    <3>1. k \in TaskRecord /\ k.op = "reconnect"
      BY DEF TaskRecord, Idle
    <3>2. Keeps(r, TeardownSeen(r, r.engine))
      BY <2>1, TeardownKeeps
    <3>3. task' = [task EXCEPT ![t] = k]
      BY <2>4
    <3> HIDE DEF k, r
    <3> QED BY <1>0, <1>1, <2>1, <2>2, <2>4, <3>1, <3>2, <3>3 DEF Holds, Keeps, Marks
  <2> QED BY <1>9, <2>3, <2>4 DEF ReconnectFires
<1>10. ASSUME NEW s \in Sessions, ReconnectSuppressed(s)
       PROVE  ReservationHeldOnce'
  <2>1. /\ task' = task
        /\ \A x \in Sessions : sess'[x].starting = sess[x].starting
    BY <1>0, <1>10 DEF ReconnectSuppressed, Becomes, SessionRecord
  <2> QED BY <2>1, ReservationKept DEF Holds
<1>11. ASSUME NEW t \in Tasks, TaskStep(t) \/ EngineAnswers(t)
       PROVE  ReservationHeldOnce'
  <2> DEFINE s == task[t].s
             r == sess[s]
  <2>0. ASSUME task[t].pc # "idle" PROVE s \in Sessions /\ r \in SessionRecord
    BY <1>0, <2>0 DEF TypeInv, TaskShape
  <2>1. CASE StartRejected(t)
    BY <1>3, <1>5, <2>0, <2>1 DEF StartRejected
  <2>2. CASE StartReserved(t)
    <3> DEFINE q == [r EXCEPT !.starting = TRUE, !.stopping = FALSE]
    <3>1. s \in Sessions /\ task[t].pc = "find" /\ task[t].op = "start" /\ ~r.starting
      BY <2>0, <2>2 DEF StartReserved, Admissible
    <3>2. q \in SessionRecord /\ q.starting
      BY <1>0, <3>1 DEF SessionRecord
    <3>3. CancelReconnect(q).starting
      BY <3>2, RecordsKeep DEF Keeps, Marks, Status
    <3>4. sess' = Becomes(s, CancelReconnect(q)) /\ task' = Goto(t, "hook")
      BY <2>2 DEF StartReserved
    <3>5. sess'[s].starting /\ \A x \in Sessions \ {s} : sess'[x].starting = sess[x].starting
      BY <1>0, <3>1, <3>3, <3>4 DEF Becomes
    <3>6. PICK c \in Sessions : c = s
      BY <3>1
    <3>7. /\ Holds(t, c)'
          /\ ~ \E x \in Sessions : Holds(t, x)
          /\ \A u \in Tasks \ {t} : task'[u] = task[u]
      BY <1>0, <3>1, <3>4, <3>6 DEF Holds, Goto, TaskRecord
    <3>8. /\ ~sess[c].starting /\ sess'[c].starting
          /\ \A x \in Sessions \ {c} : sess'[x].starting = sess[x].starting
      BY <3>1, <3>5, <3>6
    <3> QED BY <3>7, <3>8, ReservationTaken
  <2>3. CASE StartHookDone(t)
    <3> DEFINE q == [r EXCEPT !.tracked = TRUE, !.attempts = 0, !.timer = FALSE]
    <3>1. s \in Sessions /\ r \in SessionRecord /\ Holds(t, s)
      BY <2>0, <2>3 DEF StartHookDone, TypeInv, TaskShape, Holds
    <3>2. q \in SessionRecord /\ q.starting = r.starting
      <4>1. 0 \in 0..MaxAttempts
        BY ConfigAssumption DEF ConfigAssumption
      <4> QED BY <3>1, <4>1 DEF SessionRecord
    <3>3. InitializeEngine(t, "start", s, q)
      BY <2>3 DEF StartHookDone
    <3> HIDE DEF q
    <3> QED BY <1>7, <3>1, <3>2, <3>3
  <2>4. CASE BeginInitialize(t)
    <3>1. s \in Sessions /\ r \in SessionRecord /\ task[t].pc = "initStatus"
      BY <2>0, <2>4 DEF BeginInitialize
    <3>2. Keeps(r, OnStateChanged(r, "INITIALIZING")) /\ Keeps(r, r)
      BY <3>1, RecordsKeep DEF Keeps, Marks, Status
    <3>3. PICK q \in SessionRecord : sess' = Becomes(s, q) /\ q.starting = r.starting
      BY <1>5, <2>4, <3>1, <3>2 DEF BeginInitialize, Keeps, Marks
    <3> QED BY <1>4, <2>4, <3>1, <3>3 DEF BeginInitialize
  <2>5. CASE InitResolved(t)
    <3>1. s \in Sessions /\ r \in SessionRecord /\ task[t].pc = "initWait"
      BY <2>0, <2>5 DEF InitResolved
    <3>2. ASSUME NEW b \in BOOLEAN, NEW q \in SessionRecord, sess' = Becomes(s, q),
                 q.starting = r.starting,
                 task' = [task EXCEPT ![t].pc = "guard", ![t].retired = b]
          PROVE  ReservationHeldOnce'
      <4> DEFINE k == [task[t] EXCEPT !.pc = "guard", !.retired = b]
      <4>1. task' = [task EXCEPT ![t] = k]
        BY <1>0, <3>2
      <4>2. k \in TaskRecord /\ k.pc = "guard" /\ k.op = task[t].op /\ k.s = s
        BY <1>0 DEF TaskRecord
      <4>3. \A x \in Sessions : k.op = "start" /\ k.s = x /\ k.pc # "find" <=> Holds(t, x)
        BY <3>1, <4>2 DEF Holds
      <4> HIDE DEF k
      <4> QED BY <1>1, <3>1, <3>2, <4>1, <4>2, <4>3
    <3>3. (r.stopping \/ r.row = "GONE") \in BOOLEAN
      OBVIOUS
    <3>4. CASE /\ task' = [task EXCEPT ![t].pc = "guard",
                                       ![t].retired = r.stopping \/ r.row = "GONE"]
               /\ UNCHANGED sess
      BY <1>5, <3>1, <3>2, <3>3, <3>4
    <3>5. CASE /\ task' = IF task[t].op = "start" THEN End(t)
                          ELSE [task EXCEPT ![t].pc = "guard", ![t].retired = FALSE]
               /\ sess' = Becomes(s, Unreserve(task[t].op, r))
      <4>1. CASE task[t].op = "start"
        <5>1. Unreserve(task[t].op, r) \in SessionRecord /\ ~Unreserve(task[t].op, r).starting
          BY <3>1, <4>1 DEF Unreserve, SessionRecord
        <5> QED BY <1>2, <3>1, <3>5, <4>1, <5>1 DEF Holds
      <4>2. CASE task[t].op # "start"
        BY <3>1, <3>2, <3>5, <4>2 DEF Unreserve
      <4> QED BY <4>1, <4>2
    <3> QED BY <2>5, <3>4, <3>5 DEF InitResolved
  <2>6. ASSUME task[t].pc \in {"guard", "undo"}, NEW q \in SessionRecord, q.starting = r.starting,
               sess' = Becomes(s, Unreserve(task[t].op, q)), task' = End(t)
        PROVE  ReservationHeldOnce'
    <3>1. s \in Sessions /\ task[t].op \in {"start", "reconnect"}
      BY <2>0, <2>6 DEF TypeInv, TaskShape, InitPcs
    <3>2. CASE task[t].op = "start"
      <4>1. Unreserve(task[t].op, q) \in SessionRecord /\ ~Unreserve(task[t].op, q).starting
        BY <3>2 DEF Unreserve, SessionRecord
      <4> QED BY <1>2, <2>6, <3>1, <3>2, <4>1 DEF Holds
    <3>3. CASE task[t].op # "start"
      BY <1>3, <2>6, <3>1, <3>3 DEF Unreserve
    <3> QED BY <3>2, <3>3
  <2>7. CASE Guard(t)
    <3>1. s \in Sessions /\ r \in SessionRecord /\ task[t].pc = "guard"
      BY <2>0, <2>7 DEF Guard
    <3>2. Keeps(r, TeardownSeen(r, r.engine))
      BY <3>1, TeardownKeeps
    <3>3. CASE task[t].retired /\ r.engine # None
      BY <1>4, <2>7, <3>1, <3>2, <3>3 DEF Guard, Keeps, Marks
    <3>4. CASE ~(task[t].retired /\ r.engine # None)
      BY <2>6, <2>7, <3>1, <3>4 DEF Guard
    <3> QED BY <3>3, <3>4
  <2>8. CASE GuardTornDown(t)
    <3>1. Drops(r, Evict(r)) /\ task[t].pc = "undo"
      BY <2>0, <2>8, RecordsDrop DEF GuardTornDown
    <3> QED BY <2>6, <2>8, <3>1 DEF GuardTornDown, Drops, Marks
  <2>9. CASE InitRejected(t)
    <3>1. r \in SessionRecord /\ task[t].e \in Engines /\ task[t].pc \in InitPcs
      BY <2>0, <2>9 DEF InitRejected, TypeInv, TaskShape, InitPcs
    <3>2. /\ (IF IsLive(task[t].e) THEN OnError(r) ELSE r) \in SessionRecord
          /\ (IF IsLive(task[t].e) THEN OnError(r) ELSE r).starting = r.starting
      BY <3>1, RecordsDrop DEF Drops, Marks
    <3>3. [eng EXCEPT ![task[t].e].phase = "closing", ![task[t].e].st = "FAILED"]
            \in [Engines -> EngineRecord]
      BY <3>1, RejectedType DEF TypeInv, TypeOK
    <3> QED BY <1>8, <2>9, <3>1, <3>2, <3>3 DEF InitRejected
  <2>10. CASE Thrown(t)
    <3>1. r \in SessionRecord /\ task[t].pc \in InitPcs
      BY <2>0, <2>10 DEF Thrown, InitPcs
    <3> QED BY <1>8, <2>10, <3>1 DEF Thrown, TypeInv, TypeOK
  <2>11. CASE InitTimedOut(t)
    <3>1. s \in Sessions /\ r \in SessionRecord /\ task[t].pc = "initWait"
      BY <2>0, <2>11 DEF InitTimedOut
    <3>2. /\ [Evict(r) EXCEPT !.reason = TRUE] \in SessionRecord
          /\ [Evict(r) EXCEPT !.reason = TRUE].starting = r.starting
      BY <3>1 DEF Evict, SessionRecord
    <3> QED BY <1>4, <2>11, <3>1, <3>2 DEF InitTimedOut
  <2>12. CASE TimeoutTornDown(t)
    <3>1. s \in Sessions /\ r \in SessionRecord /\ task[t].pc = "timedOut"
      BY <2>0, <2>12 DEF TimeoutTornDown
    <3>2. Keeps(r, SetStatus(r, "DISCONNECTED"))
      BY <3>1, RecordsKeep DEF Status
    <3> QED BY <1>4, <2>12, <3>1, <3>2 DEF TimeoutTornDown, Keeps, Marks
  <2>13. CASE StartReaped(t)
    <3>1. s \in Sessions /\ r \in SessionRecord /\ Holds(t, s)
      BY <2>0, <2>13 DEF StartReaped, TypeInv, TaskShape, Holds
    <3>2. /\ [SetStatus(r, "FAILED") EXCEPT !.starting = FALSE] \in SessionRecord
          /\ ~[SetStatus(r, "FAILED") EXCEPT !.starting = FALSE].starting
      BY <3>1 DEF SetStatus, SessionRecord, Status
    <3> QED BY <1>2, <2>13, <3>1, <3>2 DEF StartReaped
  <2>14. CASE Reinitialize(t)
    <3>1. s \in Sessions /\ r \in SessionRecord /\ task[t].op = "reconnect"
      BY <2>0, <2>14 DEF Reinitialize, TypeInv, TaskShape
    <3> QED BY <1>7, <2>14, <3>1 DEF Reinitialize
  <2>15. ASSUME NEW q \in SessionRecord, q.starting = r.starting, task[t].pc # "idle",
                task[t].op \in {"stop", "delete"}, AfterTeardown(t, q)
         PROVE  ReservationHeldOnce'
    <3>1. Keeps(q, SetStatus(q, "DISCONNECTED"))
      BY RecordsKeep DEF Status
    <3> QED BY <1>3, <1>4, <2>0, <2>15, <3>1 DEF AfterTeardown, Keeps, Marks
  <2>16. CASE TearDown(t)
    <3> DEFINE q == CancelReconnect([r EXCEPT !.stopping = TRUE])
    <3>1. s \in Sessions /\ r \in SessionRecord /\ task[t].op \in {"stop", "delete"} /\ task[t].pc = "find"
      BY <2>0, <2>16 DEF TearDown
    <3>2. q \in SessionRecord /\ q.starting = r.starting
      <4>1. [r EXCEPT !.stopping = TRUE] \in SessionRecord /\ [r EXCEPT !.stopping = TRUE].starting = r.starting
        BY <3>1 DEF SessionRecord
      <4> QED BY <4>1, RecordsKeep DEF Keeps, Marks, Status
    <3>3. Keeps(q, TeardownSeen(q, q.engine))
      BY <3>2, TeardownKeeps
    <3>4. CASE q.engine # None
      <4>1. sess' = Becomes(s, TeardownSeen(q, q.engine)) /\ task' = Goto(t, "down")
        BY <2>16, <3>4 DEF TearDown
      <4> HIDE DEF q
      <4> QED BY <1>4, <3>1, <3>2, <3>3, <4>1 DEF Keeps, Marks
    <3>5. CASE q.engine = None
      <4>1. AfterTeardown(t, q)
        BY <2>16, <3>5 DEF TearDown
      <4> HIDE DEF q
      <4> QED BY <2>15, <3>1, <3>2, <4>1
    <3> QED BY <3>4, <3>5
  <2>17. CASE TornDownDone(t)
    <3>1. task[t].op \in {"stop", "delete"} /\ Drops(r, Evict(r))
      BY <2>0, <2>17, RecordsDrop DEF TornDownDone, TypeInv, TaskShape
    <3> QED BY <2>15, <2>17, <3>1 DEF TornDownDone, Drops, Marks
  <2>18. ASSUME task[t].pc \in {"drop", "purge"}
         PROVE  /\ s \in Sessions /\ task[t].op # "start"
                /\ Unmark(r) \in SessionRecord /\ Unmark(r).starting = r.starting
                /\ [r EXCEPT !.row = "GONE"] \in SessionRecord
                /\ [r EXCEPT !.row = "GONE"].starting = r.starting
    <3>1. s \in Sessions /\ r \in SessionRecord /\ task[t].op \in {"stop", "delete"}
      BY <2>0, <2>18 DEF TypeInv, TaskShape
    <3> QED BY <3>1 DEF Unmark, SessionRecord
  <2>19. CASE DropRows(t)
    BY <1>3, <1>4, <2>18, <2>19 DEF DropRows
  <2>20. CASE Purged(t)
    BY <1>3, <2>18, <2>20 DEF Purged
  <2> QED BY <1>11, <2>1, <2>2, <2>3, <2>4, <2>5, <2>7, <2>8, <2>9, <2>10, <2>11, <2>12, <2>13,
             <2>14, <2>16, <2>17, <2>19, <2>20 DEF TaskStep, EngineAnswers
<1>12. ASSUME NEW e \in Engines, EngineStep(e)
       PROVE  ReservationHeldOnce'
  BY <1>12, EngineEffect, ReservationKept DEF Marks, Holds
<1>13. CASE Drain
  BY <1>13, ReservationKept DEF Drain, Holds
<1>14. CASE Destroy
  <2>1. ASSUME NEW s \in Sessions
        PROVE  LET r == CancelReconnect(sess[s])
               IN (IF r.engine = None THEN r ELSE TeardownSeen(r, r.engine)).starting = sess[s].starting
    <3>1. Keeps(sess[s], CancelReconnect(sess[s]))
      BY <1>0, RecordsKeep DEF Status
    <3>2. Keeps(CancelReconnect(sess[s]), TeardownSeen(CancelReconnect(sess[s]), CancelReconnect(sess[s]).engine))
      BY <3>1, TeardownKeeps DEF Keeps, Marks
    <3> QED BY <3>1, <3>2 DEF Keeps, Marks
  <2>2. \A s \in Sessions : sess'[s].starting = sess[s].starting
    BY <1>14, <2>1 DEF Destroy
  <2> QED BY <1>14, <2>2, ReservationKept DEF Destroy, Holds
<1>15. CASE Restart
  <2>1. \A s \in Sessions : ~sess'[s].starting
    BY <1>15 DEF Restart, NewSession
  <2>2. \A s \in Sessions, t \in Tasks : ~Holds(t, s)'
    BY <1>15 DEF Restart, Holds, Idle
  <2> QED BY <2>1, <2>2 DEF ReservationHeldOnce, Starters, Holds
<1>16. CASE UNCHANGED vars
  BY <1>16, ReservationKept DEF vars, Holds
<1> QED BY <1>6, <1>9, <1>10, <1>11, <1>12, <1>13, <1>14, <1>15, <1>16 DEF Next

\* initializingSessions is exact: marked if and only if one start() call is past its check, on
\* every path out of start(), whatever else runs in between.
THEOREM ReservationIsHeldOnce == Spec => []ReservationHeldOnce
<1>1. Init => TypeInv /\ ReservationHeldOnce
  <2>1. Init => ReservationHeldOnce
    BY DEF Init, NewSession, Idle, ReservationHeldOnce, Starters
  <2> QED BY <2>1, TypeInit
<1>2. TypeInv /\ ReservationHeldOnce /\ [Next]_vars => TypeInv' /\ ReservationHeldOnce'
  BY TypeStep, ReservationStep
<1> QED BY <1>1, <1>2, PTL DEF Spec

-----------------------------------------------------------------------------
(* A stopped session loses its engine: while a session marked as stopping  *)
(* has an engine, some call in flight is bound to take it out of the map.  *)

Undoes(k) ==
    \/ k.pc \in {"initStatus", "initWait", "thrown", "timedOut", "undo", "down"}
    \/ k.pc = "guard" /\ k.retired

StopPending ==
    \A s \in Sessions :
       sess[s].stopping /\ sess[s].engine # None
       => \E t \in Tasks : task[t].s = s /\ Undoes(task[t])

\* Nobody moves, no mark appears, no engine appears.
LEMMA PendingKept ==
    ASSUME TypeInv, StopPending, task' = task,
           \A s \in Sessions : /\ sess'[s].stopping => sess[s].stopping
                               /\ sess'[s].engine # None => sess[s].engine # None
    PROVE  StopPending'
BY DEF StopPending, Undoes

\* One call moves and touches its own session: it undoes, or it did not undo before.
LEMMA PendingMoves ==
    ASSUME TypeInv, StopPending, NEW c \in Tasks, NEW s \in Sessions, NEW q, NEW k,
           sess' = Becomes(s, q), task' = [task EXCEPT ![c] = k],
           task[c].s = s \/ ~Undoes(task[c]),
           q.stopping /\ q.engine # None =>
              \/ k.s = s /\ Undoes(k)
              \/ sess[s].stopping /\ sess[s].engine # None /\ ~Undoes(task[c])
    PROVE  StopPending'
<1> SUFFICES ASSUME NEW x \in Sessions, sess'[x].stopping, sess'[x].engine # None
             PROVE  \E t \in Tasks : task'[t].s = x /\ Undoes(task'[t])
  BY DEF StopPending, Undoes
<1>0. /\ sess'[s] = q /\ \A y \in Sessions \ {s} : sess'[y] = sess[y]
      /\ task'[c] = k /\ \A t \in Tasks \ {c} : task'[t] = task[t]
  BY DEF Becomes, TypeInv, TypeOK
<1>1. CASE x # s
  <2>1. PICK t \in Tasks : task[t].s = x /\ Undoes(task[t])
    BY <1>0, <1>1 DEF StopPending
  <2> QED BY <1>0, <1>1, <2>1
<1>2. CASE x = s
  <2>1. CASE k.s = s /\ Undoes(k)
    BY <1>0, <1>2, <2>1
  <2>2. CASE sess[s].stopping /\ sess[s].engine # None /\ ~Undoes(task[c])
    <3>1. PICK t \in Tasks : task[t].s = s /\ Undoes(task[t])
      BY <2>2 DEF StopPending
    <3> QED BY <1>0, <1>2, <2>2, <3>1
  <2> QED BY <1>0, <1>2, <2>1, <2>2
<1> QED BY <1>1, <1>2

LEMMA PendingStep ==
    ASSUME TypeInv, TypeInv', StopPending, [Next]_vars
    PROVE  StopPending'
<1>0. /\ \A s \in Sessions : sess[s] \in SessionRecord
      /\ \A t \in Tasks : task[t] \in TaskRecord
      /\ task \in [Tasks -> TaskRecord] /\ sess \in [Sessions -> SessionRecord]
      /\ Idle.pc = "idle"
  BY DEF TypeInv, TypeOK, Idle
\* The session has no engine or no mark after the step.
<1>1. ASSUME NEW c \in Tasks, NEW q, NEW k, task[c].s \in Sessions,
             sess' = Becomes(task[c].s, q), task' = [task EXCEPT ![c] = k],
             ~q.stopping \/ q.engine = None
      PROVE  StopPending'
  BY <1>1, PendingMoves
\* The call undoes after the step.
<1>2. ASSUME NEW c \in Tasks, NEW q, NEW pc, task[c].s \in Sessions,
             sess' = Becomes(task[c].s, q), task' = Goto(c, pc),
             pc \in {"initStatus", "initWait", "thrown", "timedOut", "undo", "down"}
      PROVE  StopPending'
  <2> DEFINE k == [task[c] EXCEPT !.pc = pc]
  <2>1. task' = [task EXCEPT ![c] = k] /\ k.s = task[c].s /\ k.pc = pc
    BY <1>0, <1>2 DEF Goto, TaskRecord
  <2> HIDE DEF k
  <2>2. Undoes(k)
    BY <1>2, <2>1 DEF Undoes
  <2> QED BY <1>2, <2>1, <2>2, PendingMoves
\* A call that did not undo moves and leaves mark and engine.
<1>3. ASSUME NEW c \in Tasks, NEW q, NEW k, task[c].s \in Sessions, ~Undoes(task[c]),
             sess' = Becomes(task[c].s, q), task' = [task EXCEPT ![c] = k],
             q.stopping = sess[task[c].s].stopping, q.engine = sess[task[c].s].engine
      PROVE  StopPending'
  BY <1>3, PendingMoves
<1>4. ASSUME UNCHANGED sess PROVE \A s \in Sessions : sess' = Becomes(s, sess[s])
  BY <1>0, <1>4 DEF Becomes
<1>6. ASSUME NEW t \in Tasks, NEW s \in Sessions, NEW op \in Requests, Request(t, op, s)
      PROVE  StopPending'
  <2>1. ~Undoes(task[t])
    BY <1>6 DEF Request, Undoes
  <2>2. UNCHANGED sess /\ \A u \in Tasks \ {t} : task'[u] = task[u]
    BY <1>6 DEF Request
  <2> QED BY <2>1, <2>2 DEF StopPending, Undoes
<1>7. ASSUME NEW t \in Tasks, NEW op \in {"start", "reconnect"}, NEW s \in Sessions,
             NEW r \in SessionRecord, InitializeEngine(t, op, s, r),
             task[t].s = s \/ ~Undoes(task[t])
      PROVE  StopPending'
  <2>1. PICK q \in SessionRecord, k \in TaskRecord :
              /\ sess' = Becomes(s, q)
              /\ k.s = s /\ k.pc \in {"initStatus", "thrown"}
              /\ task' = [task EXCEPT ![t] = k]
    BY <1>7, InitializeEffect
  <2>2. Undoes(k)
    BY <2>1 DEF Undoes
  <2> QED BY <1>7, <2>1, <2>2, PendingMoves
<1>8. ASSUME NEW t \in Tasks, task[t].pc \in InitPcs, NEW r \in SessionRecord,
             NEW es \in [Engines -> EngineRecord], Catch(t, r, es)
      PROVE  StopPending'
  <2>1. PICK q \in SessionRecord :
              /\ sess' = Becomes(task[t].s, q)
              /\ q.engine = None
              /\ task' = End(t) \/ task' = Goto(t, "reap")
    BY <1>8, CatchEffect
  <2>2. \E k : task' = [task EXCEPT ![t] = k]
    BY <2>1 DEF End, Goto
  <2>3. task[t].s \in Sessions
    BY <1>8 DEF TypeInv, TaskShape, InitPcs
  <2> QED BY <1>1, <2>1, <2>2, <2>3
<1>9. ASSUME NEW t \in Tasks, NEW s \in Sessions, ReconnectFires(t, s)
      PROVE  StopPending'
  <2> DEFINE r == [sess[s] EXCEPT !.timer = FALSE]
  <2>1. r \in SessionRecord /\ ~r.stopping
    BY <1>0, <1>9 DEF SessionRecord, ReconnectFires
  <2>2. ~Undoes(task[t])
    BY <1>9 DEF ReconnectFires, Undoes
  <2>3. CASE InitializeEngine(t, "reconnect", s, r)
    BY <1>7, <2>1, <2>2, <2>3
  <2>4. CASE /\ sess' = Becomes(s, TeardownSeen(r, r.engine))
             /\ task' = [task EXCEPT ![t] = [Idle EXCEPT !.op = "reconnect", !.s = s,
                                                         !.pc = "destroy"]]
    <3>1. ~TeardownSeen(r, r.engine).stopping
      BY <2>1, TeardownKeeps DEF Keeps, Marks
    <3> HIDE DEF r
    <3> QED BY <2>2, <2>4, <3>1, PendingMoves
  <2> QED BY <1>9, <2>3, <2>4 DEF ReconnectFires
<1>10. ASSUME NEW s \in Sessions, ReconnectSuppressed(s)
       PROVE  StopPending'
  <2>1. /\ task' = task
        /\ \A x \in Sessions : sess'[x].stopping = sess[x].stopping /\ sess'[x].engine = sess[x].engine
    BY <1>0, <1>10 DEF ReconnectSuppressed, Becomes, SessionRecord
  <2> QED BY <2>1, PendingKept
<1>11. ASSUME NEW t \in Tasks, TaskStep(t) \/ EngineAnswers(t)
       PROVE  StopPending'
  <2> DEFINE s == task[t].s
             r == sess[s]
  <2>0. ASSUME task[t].pc # "idle" PROVE s \in Sessions /\ r \in SessionRecord
    BY <1>0, <2>0 DEF TypeInv, TaskShape
  <2>1. CASE StartRejected(t)
    BY <1>3, <1>4, <2>0, <2>1 DEF StartRejected, Undoes, End
  <2>2. CASE StartReserved(t)
    <3> DEFINE q == [r EXCEPT !.starting = TRUE, !.stopping = FALSE]
    <3>1. s \in Sessions /\ r \in SessionRecord
      BY <2>0, <2>2 DEF StartReserved
    <3>2. q \in SessionRecord /\ ~q.stopping
      BY <3>1 DEF SessionRecord
    <3>3. ~CancelReconnect(q).stopping
      BY <3>2, RecordsKeep DEF Keeps, Marks, Status
    <3> QED BY <1>1, <2>2, <3>1, <3>3 DEF StartReserved, Goto
  <2>3. CASE StartHookDone(t)
    <3>1. s \in Sessions /\ r \in SessionRecord
      BY <2>0, <2>3 DEF StartHookDone
    <3>2. [r EXCEPT !.tracked = TRUE, !.attempts = 0, !.timer = FALSE] \in SessionRecord
      <4>1. 0 \in 0..MaxAttempts
        BY ConfigAssumption DEF ConfigAssumption
      <4> QED BY <3>1, <4>1 DEF SessionRecord
    <3> QED BY <1>7, <2>3, <3>1, <3>2 DEF StartHookDone
  <2>4. CASE BeginInitialize(t)
    <3>1. s \in Sessions /\ task' = Goto(t, "initWait")
      BY <2>0, <2>4 DEF BeginInitialize
    <3>2. \E q : sess' = Becomes(s, q)
      BY <1>4, <2>4, <3>1 DEF BeginInitialize
    <3> QED BY <1>2, <3>1, <3>2
  <2>5. CASE InitResolved(t)
    <3>1. s \in Sessions /\ r \in SessionRecord /\ task[t].pc = "initWait"
      BY <2>0, <2>5 DEF InitResolved
    <3>2. CASE /\ task' = [task EXCEPT ![t].pc = "guard",
                                       ![t].retired = r.stopping \/ r.row = "GONE"]
               /\ UNCHANGED sess
      <4> DEFINE k == [task[t] EXCEPT !.pc = "guard", !.retired = r.stopping \/ r.row = "GONE"]
      <4>1. task' = [task EXCEPT ![t] = k] /\ sess' = Becomes(s, r)
        BY <1>0, <1>4, <3>1, <3>2
      <4>2. k.s = s /\ k.pc = "guard" /\ (r.stopping => k.retired)
        BY <1>0 DEF TaskRecord
      <4>3. r.stopping => Undoes(k)
        BY <4>2 DEF Undoes
      <4> HIDE DEF k
      <4> QED BY <3>1, <4>1, <4>2, <4>3, PendingMoves
    <3>3. CASE /\ ~r.stopping
               /\ task' = IF task[t].op = "start" THEN End(t)
                          ELSE [task EXCEPT ![t].pc = "guard", ![t].retired = FALSE]
               /\ sess' = Becomes(s, Unreserve(task[t].op, r))
      <4>1. \E k : task' = [task EXCEPT ![t] = k]
        BY <1>0, <3>3 DEF End
      <4>2. ~Unreserve(task[t].op, r).stopping
        BY <3>1, <3>3 DEF Unreserve, SessionRecord
      <4> QED BY <1>1, <3>1, <3>3, <4>1, <4>2
    <3> QED BY <2>5, <3>2, <3>3 DEF InitResolved
  <2>6. CASE Guard(t)
    <3>1. s \in Sessions /\ r \in SessionRecord /\ task[t].pc = "guard"
      BY <2>0, <2>6 DEF Guard
    <3>2. CASE task[t].retired /\ r.engine # None
      BY <1>2, <2>6, <3>1, <3>2 DEF Guard
    <3>3. CASE ~(task[t].retired /\ r.engine # None)
      <4>1. sess' = Becomes(s, Unreserve(task[t].op, r)) /\ task' = End(t)
        BY <2>6, <3>3 DEF Guard
      <4>2. /\ Unreserve(task[t].op, r).stopping = r.stopping
            /\ Unreserve(task[t].op, r).engine = r.engine
        BY <3>1 DEF Unreserve, SessionRecord
      <4>3. CASE r.engine = None
        BY <1>1, <3>1, <4>1, <4>2, <4>3 DEF End
      <4>4. CASE ~task[t].retired
        <5>1. ~Undoes(task[t])
          BY <3>1, <4>4 DEF Undoes
        <5> QED BY <1>3, <3>1, <4>1, <4>2, <5>1 DEF End
      <4> QED BY <3>3, <4>3, <4>4
    <3> QED BY <3>2, <3>3
  <2>7. CASE GuardTornDown(t)
    <3>1. s \in Sessions /\ Drops(r, Evict(r))
      BY <2>0, <2>7, RecordsDrop DEF GuardTornDown
    <3>2. Unreserve(task[t].op, Evict(r)).engine = None
      BY <3>1 DEF Unreserve, Drops, Marks, SessionRecord
    <3> QED BY <1>1, <2>7, <3>1, <3>2 DEF GuardTornDown, End
  <2>8. CASE InitRejected(t)
    <3>1. r \in SessionRecord /\ task[t].e \in Engines /\ task[t].pc \in InitPcs
      BY <2>0, <2>8 DEF InitRejected, TypeInv, TaskShape, InitPcs
    <3>2. (IF IsLive(task[t].e) THEN OnError(r) ELSE r) \in SessionRecord
      BY <3>1, RecordsDrop DEF Drops, Marks
    <3>3. [eng EXCEPT ![task[t].e].phase = "closing", ![task[t].e].st = "FAILED"]
            \in [Engines -> EngineRecord]
      BY <3>1, RejectedType DEF TypeInv, TypeOK
    <3> QED BY <1>8, <2>8, <3>1, <3>2, <3>3 DEF InitRejected
  <2>9. CASE Thrown(t)
    <3>1. r \in SessionRecord /\ task[t].pc \in InitPcs
      BY <2>0, <2>9 DEF Thrown, InitPcs
    <3> QED BY <1>8, <2>9, <3>1 DEF Thrown, TypeInv, TypeOK
  <2>10. CASE InitTimedOut(t)
    BY <1>2, <2>0, <2>10 DEF InitTimedOut
  <2>11. CASE TimeoutTornDown(t)
    BY <1>2, <2>0, <2>11 DEF TimeoutTornDown
  <2>12. CASE StartReaped(t)
    <3>1. s \in Sessions /\ r \in SessionRecord /\ ~Undoes(task[t])
      BY <2>0, <2>12 DEF StartReaped, Undoes
    <3>2. /\ [SetStatus(r, "FAILED") EXCEPT !.starting = FALSE].stopping = r.stopping
          /\ [SetStatus(r, "FAILED") EXCEPT !.starting = FALSE].engine = r.engine
      BY <3>1 DEF SetStatus, SessionRecord
    <3> QED BY <1>3, <2>12, <3>1, <3>2 DEF StartReaped, End
  <2>13. CASE Reinitialize(t)
    BY <1>7, <2>0, <2>13 DEF Reinitialize
  <2>14. CASE TearDown(t)
    <3> DEFINE q == CancelReconnect([r EXCEPT !.stopping = TRUE])
    <3>1. s \in Sessions
      BY <2>0, <2>14 DEF TearDown
    <3>2. CASE q.engine # None
      BY <1>2, <2>14, <3>1, <3>2 DEF TearDown
    <3>3. CASE q.engine = None
      <4>1. AfterTeardown(t, q)
        BY <2>14, <3>3 DEF TearDown
      <4>2. SetStatus(q, "DISCONNECTED").engine = None
        <5>1. [r EXCEPT !.stopping = TRUE] \in SessionRecord
          BY <1>0, <3>1 DEF SessionRecord
        <5>2. q \in SessionRecord
          BY <5>1, RecordsKeep DEF Keeps, Marks, Status
        <5> QED BY <3>3, <5>2, RecordsKeep DEF Keeps, Status
      <4> HIDE DEF q
      <4> QED BY <1>1, <3>1, <3>3, <4>1, <4>2 DEF AfterTeardown, End, Goto
    <3> QED BY <3>2, <3>3
  <2>15. CASE TornDownDone(t)
    <3>1. s \in Sessions /\ Drops(r, Evict(r))
      BY <2>0, <2>15, RecordsDrop DEF TornDownDone
    <3>2. SetStatus(Evict(r), "DISCONNECTED").engine = None
      BY <3>1, RecordsKeep DEF Drops, Marks, Keeps, Status
    <3> QED BY <1>1, <2>15, <3>1, <3>2 DEF TornDownDone, AfterTeardown, End, Goto, Drops
  <2>16. ASSUME task[t].pc \in {"drop", "purge"}
         PROVE  /\ s \in Sessions /\ ~Undoes(task[t])
                /\ ~Unmark(r).stopping
                /\ [r EXCEPT !.row = "GONE"].stopping = r.stopping
                /\ [r EXCEPT !.row = "GONE"].engine = r.engine
    <3>1. s \in Sessions /\ r \in SessionRecord
      BY <2>0, <2>16
    <3> QED BY <2>16, <3>1 DEF Unmark, SessionRecord, Undoes
  <2>17. CASE DropRows(t)
    BY <1>1, <1>3, <2>16, <2>17 DEF DropRows, End, Goto
  <2>18. CASE Purged(t)
    BY <1>1, <2>16, <2>18 DEF Purged, End
  <2> QED BY <1>11, <2>1, <2>2, <2>3, <2>4, <2>5, <2>6, <2>7, <2>8, <2>9, <2>10, <2>11, <2>12,
             <2>13, <2>14, <2>15, <2>17, <2>18 DEF TaskStep, EngineAnswers
<1>12. ASSUME NEW e \in Engines, EngineStep(e)
       PROVE  StopPending'
  <2>1. /\ task' = task
        /\ \A s \in Sessions : sess'[s].stopping = sess[s].stopping
                               /\ sess'[s].engine \in {sess[s].engine, None}
    BY <1>12, EngineEffect DEF Marks
  <2> QED BY <2>1, PendingKept
<1>13. CASE Drain
  BY <1>13, PendingKept DEF Drain
<1>14. CASE Destroy
  <2>1. ASSUME NEW s \in Sessions
        PROVE  Keeps(sess[s], LET r == CancelReconnect(sess[s])
                              IN IF r.engine = None THEN r ELSE TeardownSeen(r, r.engine))
    <3>1. Keeps(sess[s], CancelReconnect(sess[s]))
      BY <1>0, RecordsKeep DEF Status
    <3>2. Keeps(CancelReconnect(sess[s]), TeardownSeen(CancelReconnect(sess[s]), CancelReconnect(sess[s]).engine))
      BY <3>1, TeardownKeeps DEF Keeps, Marks
    <3> QED BY <3>1, <3>2 DEF Keeps, Marks
  <2>2. \A s \in Sessions : Keeps(sess[s], sess'[s])
    BY <1>14, <2>1 DEF Destroy
  <2> QED BY <1>14, <2>2, PendingKept DEF Destroy, Keeps, Marks
<1>15. CASE Restart
  <2>1. \A s \in Sessions : ~sess'[s].stopping
    BY <1>15 DEF Restart, NewSession
  <2> QED BY <2>1 DEF StopPending
<1>16. CASE UNCHANGED vars
  BY <1>16, PendingKept DEF vars
<1> QED BY <1>6, <1>9, <1>10, <1>11, <1>12, <1>13, <1>14, <1>15, <1>16 DEF Next

\* A session marked by stop() has no engine once the calls in flight on it are over: no start,
\* reconnect, stop or delete it raced, and no failure of those, leaves one behind in the map.
THEOREM StopIsNotUndone == Spec => []StoppedStaysDown
<1>1. Init => TypeInv /\ StopPending
  <2>1. Init => StopPending
    BY DEF Init, NewSession, StopPending
  <2> QED BY <2>1, TypeInit
<1>2. TypeInv /\ StopPending /\ [Next]_vars => TypeInv' /\ StopPending'
  BY TypeStep, PendingStep
<1>3. StopPending => StoppedStaysDown
  BY DEF StopPending, StoppedStaysDown, Quiet
<1> QED BY <1>1, <1>2, <1>3, PTL DEF Spec

-----------------------------------------------------------------------------
(* The row of a stopped session.                                            *)

\* A call moves the session it is about and no other.
LEMMA CallsStayHome ==
    ASSUME TypeInv, NEW t \in Tasks, TaskStep(t) \/ EngineAnswers(t), NEW s \in Sessions, task[t].s # s
    PROVE  sess'[s] = sess[s]
<1>1. ASSUME NEW x, NEW r, x # s PROVE Becomes(x, r)[s] = sess[s]
  BY <1>1 DEF TypeInv, TypeOK, Becomes
<1>2. ASSUME NEW op, NEW r, InitializeEngine(t, op, task[t].s, r) PROVE sess'[s] = sess[s]
  BY <1>2 DEF InitializeEngine, TypeInv, TypeOK
<1>3. ASSUME NEW r, NEW es, Catch(t, r, es) PROVE sess'[s] = sess[s]
  BY <1>1, <1>3 DEF Catch
<1>4. ASSUME NEW r, AfterTeardown(t, r) PROVE sess'[s] = sess[s]
  BY <1>1, <1>4 DEF AfterTeardown
<1>5. CASE TearDown(t)
  BY <1>1, <1>4, <1>5 DEF TearDown
<1>6. CASE InitRejected(t) \/ Thrown(t)
  BY <1>3, <1>6 DEF InitRejected, Thrown
<1>7. CASE StartHookDone(t) \/ Reinitialize(t)
  BY <1>2, <1>7 DEF StartHookDone, Reinitialize
<1>8. CASE TornDownDone(t)
  BY <1>4, <1>8 DEF TornDownDone
<1>9. CASE StartRejected(t) \/ StartReserved(t) \/ BeginInitialize(t) \/ Guard(t) \/ GuardTornDown(t)
           \/ InitTimedOut(t) \/ TimeoutTornDown(t) \/ StartReaped(t) \/ DropRows(t) \/ Purged(t) \/ InitResolved(t)
  BY <1>1, <1>9 DEF StartRejected, StartReserved, BeginInitialize, Guard, GuardTornDown, InitTimedOut, TimeoutTornDown,
     StartReaped, DropRows, Purged, InitResolved
<1> QED BY <1>5, <1>6, <1>7, <1>8, <1>9 DEF TaskStep, EngineAnswers

\* An event reaches the session of the engine while it is the registered one, and no other.
LEMMA EventsReachTheLive ==
    ASSUME TypeInv, NEW e \in Engines, EngineStep(e), NEW s \in Sessions, sess[s].engine = None
    PROVE  sess'[s] = sess[s]
<1>1. ASSUME NEW r PROVE Callback(e, r)[s] = sess[s]
  <2>1. IsLive(e) => eng[e].owner # s
    BY SetsAssumption DEF IsLive
  <2> QED BY <2>1 DEF Callback, Becomes, TypeInv, TypeOK
<1> QED BY <1>1 DEF EngineStep, Launched, QrReceived, QrRendered, Authenticated, Ready, Disconnected, StuckAuth,
       AuthCleared, Failed, Dropped, Detached

\* The row of a session that was stopped stays as it is until somebody calls again: no reconnect, no late event of an
\* engine and no drain writes it.
THEOREM StoppedRowStands == Spec => StopIsFinal
<1>1. ASSUME TypeInv, StopPending, Next, NEW s \in Sessions, sess[s].stopping, Quiet(s), sess'[s].stopping
      PROVE  sess'[s].row = sess[s].row
  <2>0. sess \in [Sessions -> SessionRecord] /\ sess[s].engine = None
    BY <1>1 DEF TypeInv, TypeOK, StopPending, Quiet
  <2>1. ASSUME NEW t \in Tasks, NEW x \in Sessions, NEW op \in Requests, Request(t, op, x) PROVE sess'[s].row = sess[s].row
    BY <2>1 DEF Request
  <2>2. ASSUME NEW t \in Tasks, NEW x \in Sessions, ReconnectFires(t, x) PROVE sess'[s].row = sess[s].row
    <3>1. x # s
      BY <1>1, <2>2 DEF ReconnectFires
    <3> DEFINE r == [sess[x] EXCEPT !.timer = FALSE]
    <3>2. \/ sess' = Becomes(x, TeardownSeen(r, r.engine))
          \/ InitializeEngine(t, "reconnect", x, r)
      BY <2>2 DEF ReconnectFires
    <3> HIDE DEF r
    <3>3. CASE sess' = Becomes(x, TeardownSeen(r, r.engine))
      BY <2>0, <3>1, <3>3 DEF Becomes
    <3>4. CASE InitializeEngine(t, "reconnect", x, r)
      BY <2>0, <3>1, <3>4 DEF InitializeEngine
    <3> QED BY <3>2, <3>3, <3>4
  <2>3. ASSUME NEW x \in Sessions, ReconnectSuppressed(x) PROVE sess'[s].row = sess[s].row
    BY <2>0, <2>3 DEF ReconnectSuppressed, Becomes, SessionRecord
  <2>4. ASSUME NEW t \in Tasks, TaskStep(t) \/ EngineAnswers(t) PROVE sess'[s].row = sess[s].row
    BY <1>1, <2>4, CallsStayHome DEF Quiet
  <2>5. ASSUME NEW e \in Engines, EngineStep(e) PROVE sess'[s].row = sess[s].row
    BY <1>1, <2>0, <2>5, EventsReachTheLive
  <2>6. CASE Drain
    BY <2>6 DEF Drain
  <2>7. CASE Destroy
    <3>1. sess'[s] = CancelReconnect(sess[s])
      <4>1. CancelReconnect(sess[s]).engine = None
        BY <2>0 DEF CancelReconnect, SessionRecord
      <4> QED BY <2>7, <4>1 DEF Destroy
    <3> QED BY <2>0, <3>1 DEF CancelReconnect, SessionRecord
  <2>8. ~ Restart
    BY <1>1 DEF Restart, NewSession
  <2> QED BY <1>1, <2>1, <2>2, <2>3, <2>4, <2>5, <2>6, <2>7, <2>8 DEF Next
<1>2. TypeInv /\ StopPending /\ [Next]_vars =>
        [\A s \in Sessions : sess[s].stopping /\ Quiet(s) /\ sess'[s].stopping => sess'[s].row = sess[s].row]_vars
  BY <1>1
<1>3. Init => TypeInv /\ StopPending
  <2>1. Init => StopPending
    BY DEF Init, NewSession, StopPending
  <2> QED BY <2>1, TypeInit
<1>4. TypeInv /\ StopPending /\ [Next]_vars => TypeInv' /\ StopPending'
  BY TypeStep, PendingStep
<1> QED BY <1>2, <1>3, <1>4, PTL DEF Spec, StopIsFinal

-----------------------------------------------------------------------------
(* The cap.  start() counts the places that are taken and takes its own in *)
(* one tick; what follows (the engine in place of the reservation) happens *)
(* within the place.  Only a reconnect takes a place without counting.     *)

\* The session needs no place it did not have, and with reconnects off no timer is armed.
Lighter(r, q) ==
    /\ q.engine # None \/ q.starting => r.engine # None \/ r.starting
    /\ q.starting => r.starting
    /\ MaxAttempts = 0 => (q.timer => r.timer)

\* A start of s is admitted; a reconnect of s registers its engine.
TakenByStart(s) ==
    /\ Admissible(s)
    /\ sess'[s].starting /\ ~sess'[s].timer
    /\ \A x \in Sessions \ {s} : sess'[x] = sess[x]
TakenByReconnect(s) ==
    /\ sess'[s].starting => sess[s].starting
    /\ MaxAttempts = 0 => (sess'[s].timer => sess[s].timer)
    /\ \E t \in Tasks : task'[t].op = "reconnect" /\ task'[t].s = s

NoReconnects ==
    /\ \A s \in Sessions : ~sess[s].timer
    /\ \A t \in Tasks : task[t].op # "reconnect"

\* What any step does to the places.
PlacesMove ==
    /\ NoReconnects => \A t \in Tasks : task'[t].op # "reconnect"
    /\ \/ \E s \in Sessions : TakenByStart(s)
       \/ \A s \in Sessions : Lighter(sess[s], sess'[s]) \/ TakenByReconnect(s)

\* Nobody takes a place, and nobody begins to reconnect.
LEMMA PlacesKept ==
    ASSUME \A s \in Sessions : Lighter(sess[s], sess'[s]),
           \A t \in Tasks : task'[t].op = "reconnect" => task[t].op = "reconnect"
    PROVE  PlacesMove
BY DEF PlacesMove, NoReconnects

LEMMA PlacesStep ==
    ASSUME TypeInv, ReservationHeldOnce, [Next]_vars
    PROVE  PlacesMove
<1>0. /\ \A s \in Sessions : sess[s] \in SessionRecord
      /\ \A t \in Tasks : task[t] \in TaskRecord
      /\ task \in [Tasks -> TaskRecord] /\ sess \in [Sessions -> SessionRecord]
      /\ Idle.op = "none"
  BY DEF TypeInv, TypeOK, Idle
\* One call moves; its session gets lighter.
<1>1. ASSUME NEW c \in Tasks, NEW s \in Sessions, NEW q, sess' = Becomes(s, q), Lighter(sess[s], q),
             NEW k, task' = [task EXCEPT ![c] = k], k.op = "reconnect" => task[c].op = "reconnect"
      PROVE  PlacesMove
  <2>1. \A x \in Sessions : Lighter(sess[x], sess'[x])
    BY <1>0, <1>1 DEF Becomes, Lighter
  <2>2. \A t \in Tasks : task'[t].op = "reconnect" => task[t].op = "reconnect"
    BY <1>0, <1>1
  <2> QED BY <2>1, <2>2, PlacesKept
<1>2. ASSUME NEW c \in Tasks, NEW s \in Sessions, NEW q, sess' = Becomes(s, q), Lighter(sess[s], q),
             task' = End(c) \/ \E pc : task' = Goto(c, pc)
      PROVE  PlacesMove
  <2>1. \E k : task' = [task EXCEPT ![c] = k] /\ (k.op = "reconnect" => task[c].op = "reconnect")
    <3>1. CASE task' = End(c)
      BY <1>0, <3>1 DEF End
    <3>2. CASE \E pc : task' = Goto(c, pc)
      <4>1. PICK pc : task' = Goto(c, pc)
        BY <3>2
      <4> DEFINE k == [task[c] EXCEPT !.pc = pc]
      <4>2. task' = [task EXCEPT ![c] = k] /\ k.op = task[c].op
        BY <1>0, <4>1 DEF Goto, TaskRecord
      <4> HIDE DEF k
      <4> QED BY <1>0, <4>2
    <3> QED BY <1>2, <3>1, <3>2
  <2> QED BY <1>1, <1>2, <2>1
<1>3. \A r, q : /\ Marks(r, q) /\ q.engine \in {r.engine, None} => Lighter(r, q)
                /\ Keeps(r, q) => Lighter(r, q)
                /\ Drops(r, q) => Lighter(r, q)
  BY <1>0 DEF Marks, Keeps, Drops, Lighter
<1>4. /\ \A r : Lighter(r, r)
      /\ \A r, p, q : Lighter(r, p) /\ Lighter(p, q) => Lighter(r, q)
  BY DEF Lighter
<1>5. ASSUME NEW s \in Sessions, UNCHANGED sess PROVE sess' = Becomes(s, sess[s])
  BY <1>0, <1>5 DEF Becomes
<1>6. ASSUME NEW t \in Tasks, NEW s \in Sessions, NEW op \in Requests, Request(t, op, s)
      PROVE  PlacesMove
  <2> DEFINE k == [Idle EXCEPT !.op = op, !.s = s, !.pc = "find"]
  <2>1. k.op # "reconnect" /\ task' = [task EXCEPT ![t] = k]
    BY <1>6, ConfigAssumption DEF Request, Idle, ConfigAssumption
  <2> HIDE DEF k
  <2>2. sess' = Becomes(s, sess[s])
    BY <1>5, <1>6 DEF Request
  <2> QED BY <1>1, <1>4, <2>1, <2>2
\* A catch block: the engine goes.
<1>8. ASSUME NEW t \in Tasks, task[t].pc \in InitPcs, NEW r \in SessionRecord, Lighter(sess[task[t].s], r),
             NEW es \in [Engines -> EngineRecord], Catch(t, r, es)
      PROVE  PlacesMove
  <2>1. PICK q \in SessionRecord :
              /\ sess' = Becomes(task[t].s, q)
              /\ q.engine = None /\ (q.starting => r.starting)
              /\ MaxAttempts = 0 => (q.timer => r.timer)
              /\ task' = End(t) \/ task' = Goto(t, "reap")
    BY <1>8, CatchEffect
  <2>2. Lighter(r, q)
    BY <2>1 DEF Lighter
  <2>3. task[t].s \in Sessions
    BY <1>8 DEF TypeInv, TaskShape, InitPcs
  <2> QED BY <1>2, <1>4, <1>8, <2>1, <2>2, <2>3
<1>9. ASSUME NEW s \in Sessions, ReconnectSuppressed(s)
      PROVE  PlacesMove
  <2>1. Lighter(sess[s], [sess[s] EXCEPT !.timer = FALSE])
    BY <1>0 DEF Lighter, SessionRecord
  <2>2. \A x \in Sessions : Lighter(sess[x], sess'[x])
    BY <1>0, <1>4, <1>9, <2>1 DEF ReconnectSuppressed, Becomes
  <2> QED BY <1>9, <2>2, PlacesKept DEF ReconnectSuppressed
\* A reconnect registers its engine.
<1>10. ASSUME NEW t \in Tasks, NEW s \in Sessions, NEW r \in SessionRecord, InitializeEngine(t, "reconnect", s, r),
              r.starting = sess[s].starting, r.timer => sess[s].timer, ~NoReconnects
       PROVE  PlacesMove
  <2>1. PICK e \in Engines, q \in SessionRecord, k \in TaskRecord :
              /\ Marks(r, q) /\ sess' = Becomes(s, q)
              /\ k.op = "reconnect" /\ k.s = s /\ task' = [task EXCEPT ![t] = k]
    BY <1>10, InitializeEffect
  <2>2. sess'[s] = q /\ task'[t] = k /\ \A x \in Sessions \ {s} : sess'[x] = sess[x]
    BY <1>0, <2>1 DEF Becomes
  <2>3. TakenByReconnect(s)
    BY <1>10, <2>1, <2>2 DEF TakenByReconnect, Marks
  <2>4. \A x \in Sessions : Lighter(sess[x], sess'[x]) \/ TakenByReconnect(x)
    BY <1>4, <2>2, <2>3
  <2> QED BY <1>10, <2>4 DEF PlacesMove
<1>7. ASSUME NEW t \in Tasks, NEW s \in Sessions, ReconnectFires(t, s)
      PROVE  PlacesMove
  <2> DEFINE r == [sess[s] EXCEPT !.timer = FALSE]
  <2>1. /\ r \in SessionRecord /\ Lighter(sess[s], r)
        /\ r.starting = sess[s].starting /\ ~r.timer
    BY <1>0 DEF SessionRecord, Lighter
  <2>2. ~NoReconnects
    BY <1>7 DEF ReconnectFires, NoReconnects
  <2>3. \/ sess' = Becomes(s, TeardownSeen(r, r.engine))
        \/ InitializeEngine(t, "reconnect", s, r)
    BY <1>7 DEF ReconnectFires
  <2> HIDE DEF r
  <2>4. CASE sess' = Becomes(s, TeardownSeen(r, r.engine))
    <3>1. Lighter(sess[s], TeardownSeen(r, r.engine))
      BY <1>3, <1>4, <2>1, TeardownKeeps
    <3>2. \A x \in Sessions : Lighter(sess[x], sess'[x])
      BY <1>0, <1>4, <2>4, <3>1 DEF Becomes
    <3> QED BY <2>2, <3>2 DEF PlacesMove
  <2> QED BY <1>10, <2>1, <2>2, <2>3, <2>4
<1>11. ASSUME NEW t \in Tasks, TaskStep(t) \/ EngineAnswers(t)
       PROVE  PlacesMove
  <2> DEFINE s == task[t].s
             r == sess[s]
  <2>0. ASSUME task[t].pc # "idle" PROVE s \in Sessions /\ r \in SessionRecord
    BY <1>0, <2>0 DEF TypeInv, TaskShape
  <2>1. CASE StartRejected(t)
    <3>1. s \in Sessions /\ sess' = Becomes(s, r)
      BY <1>5, <2>0, <2>1 DEF StartRejected
    <3> QED BY <1>2, <1>4, <2>1, <3>1 DEF StartRejected
  <2>2. CASE StartReserved(t)
    <3> DEFINE q == CancelReconnect([r EXCEPT !.starting = TRUE, !.stopping = FALSE])
    <3>1. s \in Sessions /\ r \in SessionRecord
      BY <2>0, <2>2 DEF StartReserved
    <3>2. ~q.timer /\ q.starting
      BY <3>1 DEF SessionRecord, CancelReconnect
    <3>3. sess' = Becomes(s, q) /\ task' = Goto(t, "hook") /\ Admissible(s)
      BY <2>2 DEF StartReserved
    <3> HIDE DEF q
    <3>4. /\ \A x \in Sessions \ {s} : sess'[x] = sess[x]
          /\ ~sess'[s].timer /\ sess'[s].starting
      BY <1>0, <3>1, <3>2, <3>3 DEF Becomes
    <3>5. \A u \in Tasks : task'[u].op = task[u].op
      BY <1>0, <3>3 DEF Goto, TaskRecord
    <3>6. TakenByStart(s)
      BY <3>3, <3>4 DEF TakenByStart
    <3> QED BY <3>1, <3>5, <3>6 DEF PlacesMove, NoReconnects
  <2>3. CASE StartHookDone(t)
    <3> DEFINE x == [r EXCEPT !.tracked = TRUE, !.attempts = 0, !.timer = FALSE]
    <3>1. s \in Sessions /\ r \in SessionRecord /\ task[t].op = "start" /\ task[t].pc = "hook"
      BY <2>0, <2>3 DEF StartHookDone, TypeInv, TaskShape
    <3>2. r.starting
      BY <3>1 DEF ReservationHeldOnce, Starters
    <3>3. x \in SessionRecord /\ x.starting /\ ~x.timer
      <4>1. 0 \in 0..MaxAttempts
        BY ConfigAssumption DEF ConfigAssumption
      <4> QED BY <3>1, <3>2, <4>1 DEF SessionRecord
    <3>4. InitializeEngine(t, "start", s, x)
      BY <2>3 DEF StartHookDone
    <3> HIDE DEF x
    <3>5. PICK e \in Engines, q \in SessionRecord, k \in TaskRecord :
              /\ Marks(x, q) /\ sess' = Becomes(s, q)
              /\ k.op = "start" /\ task' = [task EXCEPT ![t] = k]
      BY <3>1, <3>3, <3>4, InitializeEffect
    <3>6. Lighter(r, q)
      BY <3>2, <3>3, <3>5 DEF Marks, Lighter
    <3> QED BY <1>1, <3>1, <3>5, <3>6
  <2>4. CASE BeginInitialize(t)
    <3>1. s \in Sessions /\ r \in SessionRecord /\ task' = Goto(t, "initWait")
      BY <2>0, <2>4 DEF BeginInitialize
    <3>2. \E q : sess' = Becomes(s, q) /\ Lighter(r, q)
      <4>1. Lighter(r, OnStateChanged(r, "INITIALIZING"))
        BY <1>3, <3>1, RecordsKeep DEF Status
      <4> QED BY <1>4, <1>5, <2>4, <3>1, <4>1 DEF BeginInitialize
    <3> QED BY <1>2, <3>1, <3>2
  <2>5. ASSUME NEW q \in SessionRecord, NEW op PROVE Lighter(q, Unreserve(op, q))
    BY DEF Unreserve, Lighter, SessionRecord
  <2>6. CASE InitResolved(t)
    <3>1. s \in Sessions /\ r \in SessionRecord
      BY <2>0, <2>6 DEF InitResolved
    <3>2. CASE /\ task' = [task EXCEPT ![t].pc = "guard",
                                       ![t].retired = r.stopping \/ r.row = "GONE"]
               /\ UNCHANGED sess
      <4> DEFINE k == [task[t] EXCEPT !.pc = "guard", !.retired = r.stopping \/ r.row = "GONE"]
      <4>1. task' = [task EXCEPT ![t] = k] /\ k.op = task[t].op
        BY <1>0, <3>2 DEF TaskRecord
      <4> HIDE DEF k
      <4>2. sess' = Becomes(s, r)
        BY <1>5, <3>1, <3>2
      <4> QED BY <1>0, <1>1, <1>4, <3>1, <4>1, <4>2
    <3>3. CASE task' = End(t) /\ sess' = Becomes(s, Unreserve(task[t].op, r))
      BY <1>2, <2>5, <3>1, <3>3
    <3>4. CASE /\ task' = [task EXCEPT ![t].pc = "guard", ![t].retired = FALSE]
               /\ sess' = Becomes(s, Unreserve(task[t].op, r))
      <4> DEFINE k == [task[t] EXCEPT !.pc = "guard", !.retired = FALSE]
      <4>1. task' = [task EXCEPT ![t] = k] /\ k.op = task[t].op
        BY <1>0, <3>4 DEF TaskRecord
      <4> DEFINE q == Unreserve(task[t].op, r)
      <4>2. Lighter(r, q) /\ sess' = Becomes(s, q)
        BY <2>5, <3>1, <3>4
      <4> HIDE DEF k, q
      <4> QED BY <1>1, <3>1, <4>1, <4>2
    <3> DEFINE kept == /\ task' = [task EXCEPT ![t].pc = "guard",
                                               ![t].retired = r.stopping \/ r.row = "GONE"]
                       /\ UNCHANGED sess
               failed == /\ task' = IF task[t].op = "start" THEN End(t)
                                    ELSE [task EXCEPT ![t].pc = "guard", ![t].retired = FALSE]
                         /\ sess' = Becomes(s, Unreserve(task[t].op, r))
    <3>5. kept \/ failed
      BY <2>6 DEF InitResolved
    <3>6. CASE kept
      BY <3>2, <3>6
    <3>7. CASE failed /\ task[t].op = "start"
      BY <3>3, <3>7
    <3>8. CASE failed /\ task[t].op # "start"
      BY <3>4, <3>8
    <3> HIDE DEF kept, failed
    <3> QED BY <3>5, <3>6, <3>7, <3>8
  <2>7. CASE Guard(t)
    <3>1. s \in Sessions /\ r \in SessionRecord /\ task[t].pc = "guard"
      BY <2>0, <2>7 DEF Guard
    <3>2. Lighter(r, TeardownSeen(r, r.engine)) /\ Lighter(r, Unreserve(task[t].op, r))
      BY <1>3, <2>5, <3>1, TeardownKeeps
    <3> QED BY <1>2, <2>7, <3>1, <3>2 DEF Guard
  <2>8. ASSUME task[t].pc # "idle"
        PROVE  /\ Evict(r) \in SessionRecord /\ Lighter(r, Evict(r))
               /\ \A st \in Status : /\ Lighter(r, SetStatus(r, st)) /\ SetStatus(r, st) \in SessionRecord
                                     /\ Lighter(r, SetStatus(Evict(r), st))
    <3>1. Drops(r, Evict(r)) /\ \A st \in Status : Keeps(r, SetStatus(r, st))
      BY <2>0, <2>8, RecordsDrop, RecordsKeep
    <3>2. Evict(r) \in SessionRecord
      BY <3>1 DEF Drops, Marks
    <3>3. \A st \in Status : Keeps(Evict(r), SetStatus(Evict(r), st))
      BY <3>2, RecordsKeep
    <3>4. Lighter(r, Evict(r)) /\ \A st \in Status : Lighter(r, SetStatus(r, st))
      BY <1>3, <3>1
    <3>5. \A st \in Status : Lighter(Evict(r), SetStatus(Evict(r), st))
      BY <1>3, <3>3
    <3>6. \A st \in Status : Lighter(r, SetStatus(Evict(r), st))
      BY <1>4, <3>4, <3>5
    <3>7. \A st \in Status : SetStatus(r, st) \in SessionRecord
      BY <3>1 DEF Keeps, Marks
    <3> QED BY <3>2, <3>4, <3>6, <3>7
  <2>9. CASE GuardTornDown(t)
    <3>1. s \in Sessions /\ task[t].pc # "idle"
      BY <2>0, <2>9 DEF GuardTornDown
    <3>2. Lighter(r, Unreserve(task[t].op, Evict(r)))
      BY <1>4, <2>5, <2>8, <3>1
    <3> QED BY <1>2, <2>9, <3>1, <3>2 DEF GuardTornDown
  <2>10. CASE InitRejected(t)
    <3>1. r \in SessionRecord /\ task[t].e \in Engines /\ task[t].pc \in InitPcs
      BY <2>0, <2>10 DEF InitRejected, TypeInv, TaskShape, InitPcs
    <3> DEFINE x == IF IsLive(task[t].e) THEN OnError(r) ELSE r
    <3>2. x \in SessionRecord /\ Lighter(r, x)
      BY <1>3, <1>4, <3>1, RecordsDrop DEF Drops, Marks
    <3>3. [eng EXCEPT ![task[t].e].phase = "closing", ![task[t].e].st = "FAILED"]
            \in [Engines -> EngineRecord]
      BY <3>1, RejectedType DEF TypeInv, TypeOK
    <3>4. Catch(t, x, [eng EXCEPT ![task[t].e].phase = "closing", ![task[t].e].st = "FAILED"])
      BY <2>10 DEF InitRejected
    <3> HIDE DEF x
    <3> QED BY <1>8, <3>1, <3>2, <3>3, <3>4
  <2>11. CASE Thrown(t)
    <3>1. r \in SessionRecord /\ task[t].pc \in InitPcs
      BY <2>0, <2>11 DEF Thrown, InitPcs
    <3> QED BY <1>4, <1>8, <2>11, <3>1 DEF Thrown, TypeInv, TypeOK
  <2>12. CASE InitTimedOut(t)
    <3>1. s \in Sessions /\ task[t].pc # "idle"
      BY <2>0, <2>12 DEF InitTimedOut
    <3>2. Lighter(r, [Evict(r) EXCEPT !.reason = TRUE])
      BY <2>8, <3>1 DEF Lighter, SessionRecord
    <3> QED BY <1>2, <2>12, <3>1, <3>2 DEF InitTimedOut
  <2>13. CASE TimeoutTornDown(t)
    <3>1. s \in Sessions /\ task[t].pc # "idle"
      BY <2>0, <2>13 DEF TimeoutTornDown
    <3> QED BY <1>2, <2>8, <2>13, <3>1 DEF TimeoutTornDown, Status
  <2>14. CASE StartReaped(t)
    <3>1. s \in Sessions /\ task[t].pc # "idle"
      BY <2>0, <2>14 DEF StartReaped
    <3>2. Lighter(r, [SetStatus(r, "FAILED") EXCEPT !.starting = FALSE])
      BY <2>8, <3>1 DEF Lighter, SessionRecord, Status
    <3> QED BY <1>2, <2>14, <3>1, <3>2 DEF StartReaped
  <2>15. CASE Reinitialize(t)
    <3>1. s \in Sessions /\ r \in SessionRecord /\ task[t].op = "reconnect"
      BY <2>0, <2>15 DEF Reinitialize, TypeInv, TaskShape
    <3> QED BY <1>10, <2>15, <3>1 DEF Reinitialize, NoReconnects
  <2>16. CASE TearDown(t)
    <3> DEFINE q == CancelReconnect([r EXCEPT !.stopping = TRUE])
    <3>1. s \in Sessions /\ r \in SessionRecord
      BY <2>0, <2>16 DEF TearDown
    <3>2. q \in SessionRecord /\ Lighter(r, q)
      <4>1. [r EXCEPT !.stopping = TRUE] \in SessionRecord /\ Lighter(r, [r EXCEPT !.stopping = TRUE])
        BY <3>1 DEF SessionRecord, Lighter
      <4>2. Keeps([r EXCEPT !.stopping = TRUE], q)
        BY <4>1, RecordsKeep DEF Status
      <4> QED BY <1>3, <1>4, <4>1, <4>2 DEF Keeps, Marks
    <3>3. /\ \/ /\ sess' = Becomes(s, TeardownSeen(q, q.engine)) /\ task' = Goto(t, "down")
             \/ AfterTeardown(t, q)
      BY <2>16 DEF TearDown
    <3> HIDE DEF q
    <3>4. Lighter(r, TeardownSeen(q, q.engine)) /\ Lighter(r, SetStatus(q, "DISCONNECTED"))
      BY <1>3, <1>4, <3>2, TeardownKeeps, RecordsKeep DEF Status
    <3> QED BY <1>2, <3>1, <3>2, <3>3, <3>4 DEF AfterTeardown
  <2>17. CASE TornDownDone(t)
    <3>1. s \in Sessions /\ task[t].pc # "idle"
      BY <2>0, <2>17 DEF TornDownDone
    <3>2. Lighter(r, Evict(r)) /\ Lighter(r, SetStatus(Evict(r), "DISCONNECTED"))
      BY <2>8, <3>1 DEF Status
    <3> QED BY <1>2, <2>17, <3>1, <3>2 DEF TornDownDone, AfterTeardown
  <2>18. ASSUME task[t].pc \in {"drop", "purge"}
         PROVE  s \in Sessions /\ Lighter(r, Unmark(r)) /\ Lighter(r, [r EXCEPT !.row = "GONE"])
    <3>1. s \in Sessions /\ r \in SessionRecord
      BY <2>0, <2>18
    <3> QED BY <3>1 DEF Unmark, SessionRecord, Lighter
  <2>19. CASE DropRows(t)
    BY <1>2, <2>18, <2>19 DEF DropRows
  <2>20. CASE Purged(t)
    BY <1>2, <2>18, <2>20 DEF Purged
  <2> QED BY <1>11, <2>1, <2>2, <2>3, <2>4, <2>6, <2>7, <2>9, <2>10, <2>11, <2>12, <2>13, <2>14,
             <2>15, <2>16, <2>17, <2>19, <2>20 DEF TaskStep, EngineAnswers
<1>12. ASSUME NEW e \in Engines, EngineStep(e)
       PROVE  PlacesMove
  <2>1. task' = task /\ \A s \in Sessions : Marks(sess[s], sess'[s]) /\ sess'[s].engine \in {sess[s].engine, None}
    BY <1>12, EngineEffect
  <2> QED BY <1>0, <1>3, <2>1, PlacesKept
<1>13. CASE Drain \/ UNCHANGED vars
  BY <1>0, <1>4, <1>13, PlacesKept DEF Drain, vars
<1>14. CASE Destroy
  <2>1. ASSUME NEW s \in Sessions
        PROVE  Lighter(sess[s], LET r == CancelReconnect(sess[s])
                                IN IF r.engine = None THEN r ELSE TeardownSeen(r, r.engine))
    <3>1. Keeps(sess[s], CancelReconnect(sess[s]))
      BY <1>0, RecordsKeep DEF Status
    <3>2. Keeps(CancelReconnect(sess[s]), TeardownSeen(CancelReconnect(sess[s]), CancelReconnect(sess[s]).engine))
      BY <3>1, TeardownKeeps DEF Keeps, Marks
    <3> QED BY <1>3, <1>4, <3>1, <3>2
  <2>2. \A s \in Sessions : Lighter(sess[s], sess'[s])
    BY <1>14, <2>1 DEF Destroy
  <2> QED BY <1>0, <1>14, <2>2, PlacesKept DEF Destroy
<1>15. CASE Restart
  <2>1. \A s \in Sessions : Lighter(sess[s], sess'[s])
    BY <1>15 DEF Restart, NewSession, Lighter
  <2>2. \A t \in Tasks : task'[t].op # "reconnect"
    BY <1>15 DEF Restart, Idle
  <2> QED BY <2>1, <2>2, PlacesKept
<1> QED BY <1>6, <1>7, <1>9, <1>11, <1>12, <1>13, <1>14, <1>15 DEF Next

\* Nobody takes a place the cap does not leave, so the counted ones stay within it.
LEMMA PlacesWithinCap ==
    ASSUME TypeInv, NEW n \in SUBSET Sessions, NEW m \in SUBSET Sessions,
           MaxConcurrent > 0 => Cardinality(Occupied \ n) <= MaxConcurrent,
           \/ Occupied' \ m \subseteq Occupied \ n
           \/ \E s \in Sessions : TakenByStart(s)
    PROVE  MaxConcurrent > 0 => Cardinality(Occupied' \ m) <= MaxConcurrent
<1>1. IsFiniteSet(Occupied) /\ IsFiniteSet(Occupied') /\ Occupied \subseteq Sessions /\ Occupied' \subseteq Sessions
  BY FS_Subset, SetsAssumption DEF SetsAssumption, Occupied
<1>2. CASE Occupied' \ m \subseteq Occupied \ n
  <2>1. IsFiniteSet(Occupied \ n)
    BY <1>1, FS_Subset
  <2>2. /\ Cardinality(Occupied' \ m) <= Cardinality(Occupied \ n)
        /\ Cardinality(Occupied \ n) \in Nat /\ Cardinality(Occupied' \ m) \in Nat
    BY <1>2, <2>1, FS_Subset, FS_CardinalityType
  <2> QED BY <2>2, ConfigAssumption DEF ConfigAssumption
<1>3. ASSUME NEW s \in Sessions, TakenByStart(s)
      PROVE  MaxConcurrent > 0 => Cardinality(Occupied' \ m) <= MaxConcurrent
  <2>1. Occupied' \ m \subseteq Occupied \cup {s}
    BY <1>3 DEF Occupied, TakenByStart
  <2>2. s \notin Occupied
    BY <1>3 DEF Occupied, Admissible, TakenByStart
  <2>3. IsFiniteSet(Occupied \cup {s}) /\ Cardinality(Occupied \cup {s}) = Cardinality(Occupied) + 1
    BY <1>1, <2>2, FS_AddElement
  <2>4. /\ Cardinality(Occupied' \ m) <= Cardinality(Occupied) + 1
        /\ Cardinality(Occupied) \in Nat /\ Cardinality(Occupied' \ m) \in Nat
    BY <1>1, <2>1, <2>3, FS_Subset, FS_CardinalityType
  <2> QED BY <1>3, <2>4, ConfigAssumption DEF TakenByStart, Admissible, ConfigAssumption
<1> QED BY <1>2, <1>3

\* MAX_CONCURRENT_SESSIONS, for any sessions, calls and reconnects: a start is admitted only while the sessions that
\* have an engine or a start under way leave a place, and nobody but a reconnect since takes one without counting.
THEOREM StartsStayWithinCap == CapSpec => []StartsRespectCap
<1> DEFINE Inv == TypeInv /\ ReservationHeldOnce /\ late \in SUBSET Sessions /\ StartsRespectCap
<1>1. CapInit => Inv
  <2>1. ASSUME CapInit PROVE Inv
    <3>1. ReservationHeldOnce
      BY <2>1 DEF CapInit, Init, NewSession, Idle, ReservationHeldOnce, Starters
    <3>2. Occupied \ late = {}
      BY <2>1 DEF CapInit, Init, NewSession, Occupied
    <3>3. StartsRespectCap
      BY <3>2, FS_EmptySet, ConfigAssumption DEF StartsRespectCap, ConfigAssumption
    <3> QED BY <2>1, <3>1, <3>3, TypeInit DEF CapInit
  <2> QED BY <2>1
<1>2. Inv /\ [CapNext]_<<vars, late>> => Inv'
  <2>1. ASSUME Inv, CapNext PROVE Inv'
    <3>1. TypeInv' /\ ReservationHeldOnce' /\ PlacesMove
      BY <2>1, TypeStep, ReservationStep, PlacesStep DEF CapNext
    <3>2. late' = Lates
      BY <2>1 DEF CapNext
    <3>3. late' \in SUBSET Sessions
      BY <3>2 DEF Lates, Occupied
    <3>4. ASSUME ~ \E s \in Sessions : TakenByStart(s)
          PROVE  Occupied' \ late' \subseteq Occupied \ late
      <4>1. \A s \in Sessions : Lighter(sess[s], sess'[s]) \/ TakenByReconnect(s)
        BY <3>1, <3>4 DEF PlacesMove
      <4>2. ~Admits
        BY <4>1 DEF Admits, Lighter, TakenByReconnect
      <4>3. late' = {s \in Occupied' : s \in late \/ (s \notin Occupied /\ Reconnecting(s)')}
        BY <3>2, <4>2 DEF Lates
      <4>4. ASSUME NEW s \in Sessions, s \in Occupied', s \notin Occupied PROVE Reconnecting(s)'
        <5>1. ~Lighter(sess[s], sess'[s])
          BY <4>4 DEF Lighter, Occupied
        <5> QED BY <4>1, <5>1 DEF TakenByReconnect, Reconnecting
      <4>5. Occupied' \subseteq Sessions
        BY DEF Occupied
      <4> QED BY <4>3, <4>4, <4>5
    <3>5. MaxConcurrent > 0 => Cardinality(Occupied' \ late') <= MaxConcurrent
      <4>1. \/ Occupied' \ late' \subseteq Occupied \ late
            \/ \E s \in Sessions : TakenByStart(s)
        BY <3>4
      <4>2. MaxConcurrent > 0 => Cardinality(Occupied \ late) <= MaxConcurrent
        BY <2>1 DEF StartsRespectCap
      <4> QED BY <2>1, <3>3, <4>1, <4>2, PlacesWithinCap
    <3> QED BY <3>1, <3>3, <3>5 DEF StartsRespectCap
  <2>2. ASSUME Inv, UNCHANGED <<vars, late>> PROVE Inv'
    <3>1. TypeInv' /\ ReservationHeldOnce'
      BY <2>2, TypeStep, ReservationStep
    <3>2. Occupied' = Occupied /\ late' = late
      BY <2>2 DEF vars, Occupied
    <3> QED BY <2>2, <3>1, <3>2 DEF StartsRespectCap
  <2> QED BY <2>1, <2>2
<1>3. Inv => StartsRespectCap
  OBVIOUS
<1> QED BY <1>1, <1>2, <1>3, PTL DEF CapSpec

CapInv == NoReconnects /\ CapRespected

\* Without automatic reconnects (maxReconnectAttempts 0) the cap is never exceeded, whatever overlaps.
THEOREM CapHoldsWithoutReconnects == MaxAttempts = 0 => (Spec => []CapRespected)
<1> SUFFICES ASSUME MaxAttempts = 0 PROVE Spec => []CapRespected
  OBVIOUS
<1>1. Init => TypeInv /\ ReservationHeldOnce /\ CapInv
  <2>1. ASSUME Init PROVE ReservationHeldOnce /\ CapInv
    <3>1. ReservationHeldOnce /\ NoReconnects
      BY <2>1 DEF Init, NewSession, Idle, ReservationHeldOnce, Starters, NoReconnects
    <3>2. Occupied = {}
      BY <2>1 DEF Init, NewSession, Occupied
    <3>3. CapRespected
      BY <3>2, FS_EmptySet, ConfigAssumption DEF CapRespected, ConfigAssumption
    <3> QED BY <3>1, <3>3 DEF CapInv
  <2> QED BY <2>1, TypeInit
<1>2. TypeInv /\ ReservationHeldOnce /\ CapInv /\ [Next]_vars => TypeInv' /\ ReservationHeldOnce' /\ CapInv'
  <2> SUFFICES ASSUME TypeInv, ReservationHeldOnce, CapInv, [Next]_vars PROVE CapInv'
    BY TypeStep, ReservationStep
  <2>1. PlacesMove /\ NoReconnects
    BY PlacesStep DEF CapInv
  <2>2. \A t \in Tasks : task'[t].op # "reconnect"
    BY <2>1 DEF PlacesMove
  <2>3. \/ \E s \in Sessions : TakenByStart(s)
        \/ \A s \in Sessions : Lighter(sess[s], sess'[s])
    BY <2>1, <2>2 DEF PlacesMove, TakenByReconnect
  <2>4. NoReconnects'
    BY <2>1, <2>2, <2>3 DEF NoReconnects, TakenByStart, Lighter
  <2>5. \/ Occupied' \ {} \subseteq Occupied \ {}
        \/ \E s \in Sessions : TakenByStart(s)
    BY <2>3 DEF Occupied, Lighter
  <2>6. Occupied \ {} = Occupied /\ Occupied' \ {} = Occupied'
    OBVIOUS
  <2>7. MaxConcurrent > 0 => Cardinality(Occupied \ {}) <= MaxConcurrent
    BY <2>6 DEF CapInv, CapRespected
  <2>8. {} \in SUBSET Sessions
    OBVIOUS
  <2>9. MaxConcurrent > 0 => Cardinality(Occupied' \ {}) <= MaxConcurrent
    BY <2>5, <2>7, <2>8, PlacesWithinCap
  <2> QED BY <2>4, <2>6, <2>9 DEF CapInv, CapRespected
<1>3. CapInv => CapRespected
  BY DEF CapInv
<1> QED BY <1>1, <1>2, <1>3, PTL DEF Spec

=============================================================================
