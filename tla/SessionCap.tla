------------------------------ MODULE SessionCap ------------------------------
(***************************************************************************)
(* MAX_CONCURRENT_SESSIONS in SessionLifecycle.  start() counts the places *)
(* that are taken, an engine or a reservation each; a reconnect gives its  *)
(* place up when its engine dies and takes one again without counting.     *)
(* The history variable keeps who did so since the last count.             *)
(***************************************************************************)
EXTENDS SessionLifecycle

VARIABLE late     \* the sessions a reconnect gave a place to since a start was last admitted

CapInit == Init /\ late = {}

\* A start is admitted: start() has counted and makes its reservation.
Admits == \E s \in Sessions : ~sess[s].starting /\ sess'[s].starting

\* A reconnect of s runs.
Reconnecting(s) == \E t \in Tasks : task[t].op = "reconnect" /\ task[t].s = s

Lates ==
    IF Admits THEN {}
    ELSE {s \in Occupied' : s \in late \/ (s \notin Occupied /\ Reconnecting(s)')}

CapNext == Next /\ late' = Lates

CapSpec == CapInit /\ [][CapNext]_<<vars, late>>

\* A start is admitted only while the sessions that run or initialize an engine, reconnected ones included, leave a
\* place under MAX_CONCURRENT_SESSIONS, and keeps the place it was counted for until its engine stands or it gives up
\* (session.service.ts 467-487, 551-553).  What exceeds the cap is reconnects since that start (1329-1349), nothing else.
StartsRespectCap == MaxConcurrent > 0 => Cardinality(Occupied \ late) <= MaxConcurrent

===============================================================================
