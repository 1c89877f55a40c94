------------------------------ MODULE MCSessions ------------------------------
(***************************************************************************)
(* SessionLifecycle in four of its settings, a behaviour in one of them:   *)
(* overlapping calls on one session with reconnects, failing statements    *)
(* and restarts; starts, stops and reconnects of two sessions under a cap; *)
(* starts that fail for good; and one call at a time on a session of the   *)
(* other adapter.                                                          *)
(***************************************************************************)
EXTENDS SessionLifecycle, TLC

VARIABLES part, late

Cap == INSTANCE SessionCap WITH
           Requests <- {"start", "stop"}, MaxConcurrent <- 1, DbFails <- FALSE, Restarts <- FALSE

Failing == INSTANCE SessionLifecycle WITH
               Requests <- {"start", "stop"}, MaxAttempts <- 0, DbFails <- FALSE, Restarts <- FALSE

Serial == INSTANCE SessionLifecycle WITH Adapter <- "wwjs", DbFails <- FALSE

\* Where one session is called, the others are not and stay as they are.
One == CHOOSE s \in Sessions : TRUE
OthersRest == \A s \in Sessions \ {One} : sess'[s] = sess[s] /\ \A t \in Tasks : task'[t].s # s
OneCall == \A t \in Tasks \ {CHOOSE u \in Tasks : TRUE} : task'[t] = task[t]

\* The QR codes of an engine do not bear on the place it takes.
NoQr == \A e \in Engines : ~eng'[e].qr

SessionsInit ==
    /\ part \in {"overlap", "cap", "failing", "serial"}
    /\ Cap!CapInit

SessionsNext ==
    /\ UNCHANGED part
    /\ \/ part = "overlap" /\ Next /\ OthersRest
       \/ part = "cap" /\ Cap!CapNext /\ NoQr
       \/ part = "failing" /\ Failing!Next /\ OthersRest
       \/ part = "serial" /\ Serial!Next /\ OthersRest /\ OneCall
    /\ part # "cap" => UNCHANGED late

SessionsSpec == SessionsInit /\ [][SessionsNext]_<<vars, part, late>>

LiveInit == SessionsInit /\ part \in {"overlap", "serial"}

\* The continuations of the code run in either part, and a launch of a wwjs client ends (Fairness).
FairSessions ==
    /\ LiveInit /\ [][SessionsNext]_<<vars, part, late>>
    /\ \A t \in Tasks : WF_vars(IF part = "overlap" THEN TaskStep(t) ELSE Serial!TaskStep(t))
    /\ \A e \in Engines : WF_vars(part = "serial" /\ Serial!Launched(e))

\* A start takes a place only while MAX_CONCURRENT_SESSIONS leaves one, reconnected sessions counted, and keeps it;
\* with no reconnect to come, a session whose start failed says why (session.service.ts 477-487, 514-537).
StartsAreAccounted ==
    /\ part = "cap" => Cap!StartsRespectCap
    /\ part = "failing" => Failing!FailedHasReason

\* Without overlapping calls no engine runs unregistered, a deleted session leaves no engine behind, and no row claims
\* a running session that neither an engine nor a reconnect backs (session.service.ts 187-260, 394-554).
SerialIsClean == part = "serial" => Serial!EngineIsRegistered /\ Serial!DeletedIsGone /\ Serial!ClaimsAreBacked

SessionSymmetry == Permutations(Engines) \cup Permutations(Tasks) \cup Permutations(Sessions)

===============================================================================
