------------------------------ MODULE ServiceProofs ------------------------------
(***************************************************************************)
(* The limiter, bulk batches, webhooks, the sandbox and the life of a      *)
(* plugin, for every value of their constants.                             *)
(*                                                                         *)
(* For any number of callers, slots and queue places: the limiter never    *)
(* runs more than `max` tasks, loses no slot in a hand-over, and nobody    *)
(* waits while a slot is free.  For any finite set of batches, any number  *)
(* of items, any cadence and any faults: a batch is what its row says      *)
(* (bulk-message.service.ts).  For any deliveries, retry counts, faults    *)
(* and number of restarts: what the rows say of a webhook delivery is      *)
(* true, and the receiver is asked no more often than configured           *)
(* (webhook.service.ts, webhook.processor.ts).  For any calls, capability  *)
(* calls and hook events: the books that the program keeps about the       *)
(* worker of a plugin are exact (sandbox/plugin-worker-host.ts).  For any  *)
(* plugins, versions and workers: what the loader keeps about a plugin     *)
(* agrees with its status (plugins.service.ts, plugin-loader.service.ts).  *)
(***************************************************************************)
EXTENDS MCServices, FiniteSetTheorems, TLAPS

-----------------------------------------------------------------------------
(* The sandbox and the life of a plugin                                     *)

Results == {"none", "ok", "rejected", "continue", "504", "502", "error", "unhealthy"}
Kinds == {"load", "lifecycle", "hook", "webhook", "search", "health"}
Waiting == {c \in HostCalls : Awaits(c)}
PendingOn(e) == {c \in HostCalls : Awaits(c) /\ call[c].event = e}
RunningCaps == {k \in Caps : cap[k].state = "runs"}

\* Nothing is under way for a call that was not made, and no handler of a hook rejects.
WireIsTrue ==
    \A c \in HostCalls : /\ call[c].state = "idle" => wire[c] = "none"
                         /\ call[c].kind = "hook" => wire[c] # "rejected"

\* The inductive invariant of the sandbox.
HostInv == HostTypeOK /\ InFlightIsPending /\ CapsAreCounted /\ DeadOwesNothing /\ WireIsTrue

-----------------------------------------------------------------------------
(* Calls that are settled                                                   *)

CallSet == [kind : CallKinds \cup {"none"}, event : CallEvents \cup {"none"},
            state : {"idle", "pending", "settled"}, result : Results]
CapSet == [state : {"idle", "asked", "runs", "refused", "answered"}, under : SUBSET CallEvents]

LEMMA Outcomes ==
    \A k \in Kinds : TimedOut[k] \in Results /\ DrainedTo[k] \in Results
                     /\ (k = "hook" => TimedOut[k] = "continue" /\ DrainedTo[k] = "continue")
  BY DEF Kinds, TimedOut, DrainedTo, Results

LEMMA CountsAreNumbers ==
    ASSUME NEW e \in CallEvents
    PROVE  /\ IsFiniteSet(PendingOn(e)) /\ Cardinality(PendingOn(e)) \in Nat
           /\ IsFiniteSet(PendingOn(e)') /\ Cardinality(PendingOn(e)') \in Nat
  <1>1. IsFiniteSet(HostCalls)
    BY SandboxAssumption
  <1>2. PendingOn(e) \in SUBSET HostCalls /\ PendingOn(e)' \in SUBSET HostCalls
    BY DEF PendingOn
  <1>3. \A U \in SUBSET HostCalls : IsFiniteSet(U)
    BY <1>1, FS_Subset
  <1> QED BY <1>2, <1>3, FS_CardinalityType

\* Whichever calls are settled, and with whatever results: the pending ones stay counted per event.
LEMMA SettlingKeepsCount ==
    ASSUME HostInv, NEW cs \in SUBSET Waiting, NEW results \in [HostCalls -> Results],
           \A c \in cs : call[c].kind = "hook" => results[c] \in {"ok", "continue"},
           Settle(cs, results), inFlightHookEvents' = Settles(cs)
    PROVE  /\ call' \in [HostCalls -> CallSet] /\ inFlightHookEvents' \in [CallEvents -> Nat]
           /\ InFlightIsPending'
           /\ \A c \in HostCalls : /\ c \notin cs => call'[c] = call[c]
                                   /\ call'[c].kind = call[c].kind /\ call'[c].event = call[c].event
                                   /\ c \in cs => call'[c].state = "settled" /\ call[c].state = "pending"
           /\ \A c \in HostCalls : call'[c].kind = "hook" /\ call'[c].state = "settled" => call'[c].result \in {"ok", "continue"}
  <1>1. call \in [HostCalls -> CallSet]
    BY DEF HostInv, HostTypeOK, CallSet, Results
  <1>2. \A c \in cs : c \in HostCalls /\ Awaits(c)
    BY DEF Waiting
  <1>3. ASSUME NEW c \in HostCalls
        PROVE  /\ call'[c] \in CallSet /\ call'[c].kind = call[c].kind /\ call'[c].event = call[c].event
               /\ c \notin cs => call'[c] = call[c]
               /\ c \in cs => call'[c].state = "settled" /\ call'[c].result = results[c] /\ call[c].state = "pending"
    <2>1. CASE c \in cs
      <3>1. call'[c] = [call[c] EXCEPT !.state = "settled", !.result = results[c]]
        BY <2>1 DEF Settle
      <3>2. call[c] \in CallSet /\ results[c] \in Results
        BY <1>1
      <3>3. call'[c] \in CallSet /\ call'[c].state = "settled" /\ call'[c].result = results[c]
            /\ call'[c].kind = call[c].kind /\ call'[c].event = call[c].event
        <4> DEFINE r == call[c]
                   v == results[c]
                   n == call'[c]
        <4>1. n = [r EXCEPT !.state = "settled", !.result = v] /\ r \in CallSet /\ v \in Results
          BY <3>1, <3>2
        <4> HIDE DEF r, v, n
        <4>2. n \in CallSet /\ n.state = "settled" /\ n.result = v /\ n.kind = r.kind /\ n.event = r.event
          BY <4>1 DEF CallSet, Results
        <4> QED BY <4>2 DEF r, v, n
      <3>4. call[c].state = "pending"
        BY <1>2, <2>1 DEF Awaits
      <3> QED BY <2>1, <3>3, <3>4
    <2>2. CASE c \notin cs
      BY <2>2, <1>1 DEF Settle
    <2> QED BY <2>1, <2>2
  <1>4. call' \in [HostCalls -> CallSet]
    <2>1. call' = [c \in HostCalls |-> call'[c]]
      BY DEF Settle
    <2> QED BY <1>3, <2>1
  <1>5. ASSUME NEW e \in CallEvents PROVE inFlightHookEvents'[e] = Cardinality(PendingOn(e)')
    <2> DEFINE gone == {c \in cs : call[c].event = e}
    <2>1. PendingOn(e)' = PendingOn(e) \ gone
      <3>1. \A c \in HostCalls : (call'[c].state = "pending") <=> (call[c].state = "pending" /\ c \notin cs)
        BY <1>3
      <3> QED BY <3>1, <1>3 DEF PendingOn, Awaits
    <2>2. PendingOn(e) \cap gone = gone
      BY <1>2 DEF PendingOn
    <2>3. Cardinality(PendingOn(e) \ gone) = Cardinality(PendingOn(e)) - Cardinality(gone)
      BY <2>2, CountsAreNumbers, FS_Difference
    <2>4. inFlightHookEvents'[e] = inFlightHookEvents[e] - Cardinality(gone)
      BY DEF Settles
    <2>5. inFlightHookEvents[e] = Cardinality(PendingOn(e))
      BY DEF HostInv, InFlightIsPending, PendingOn
    <2> QED BY <2>1, <2>3, <2>4, <2>5
  <1>6. InFlightIsPending'
    BY <1>5 DEF InFlightIsPending, PendingOn
  <1>7. inFlightHookEvents' \in [CallEvents -> Nat]
    BY <1>5, CountsAreNumbers DEF Settles
  <1>8. \A c \in HostCalls : call'[c].kind = "hook" /\ call'[c].state = "settled" => call'[c].result \in {"ok", "continue"}
    BY <1>3 DEF HostInv, DeadOwesNothing
  <1> QED BY <1>3, <1>4, <1>6, <1>7, <1>8

-----------------------------------------------------------------------------
(* The steps                                                                *)

LEMMA HostStarts == HostInit => HostInv
  <1> SUFFICES ASSUME HostInit PROVE HostInv
    OBVIOUS
  <1> USE SandboxAssumption DEF HostInit
  <1>1. call \in [HostCalls -> CallSet] /\ cap \in [Caps -> CapSet]
    BY DEF CallSet, CapSet, NoCall, NoCap, Results
  <1>2. \A c \in HostCalls : call[c].state = "idle" /\ wire[c] = "none" /\ call[c].kind = "none"
    BY DEF NoCall
  <1>3. HostTypeOK
    <2>1. running \in 0 .. MaxInFlightCaps /\ inFlightHookEvents \in [CallEvents -> Nat]
      OBVIOUS
    <2>2. wire \in [HostCalls -> {"none", "sent", "ok", "rejected"}] /\ state \in {"up", "killed", "exited"} /\ ready \in BOOLEAN
      OBVIOUS
    <2> QED BY <1>1, <2>1, <2>2 DEF HostTypeOK, CallSet, CapSet, Results
  <1>4. InFlightIsPending
    <2>1. \A e \in CallEvents : {c \in HostCalls : Awaits(c) /\ call[c].event = e} = {}
      BY <1>2 DEF Awaits
    <2> QED BY <2>1, FS_EmptySet DEF InFlightIsPending
  <1>5. CapsAreCounted
    <2>1. {k \in Caps : cap[k].state = "runs"} = {}
      BY DEF NoCap
    <2> QED BY <2>1, FS_EmptySet DEF CapsAreCounted
  <1>6. DeadOwesNothing /\ WireIsTrue
    BY <1>2 DEF DeadOwesNothing, WireIsTrue, Dead
  <1> QED BY <1>3, <1>4, <1>5, <1>6 DEF HostInv

LEMMA AskKeeps ==
    ASSUME HostInv, NEW c \in HostCalls, NEW kind \in CallKinds, NEW e \in CallEvents \cup {"none"}, Ask(c, kind, e)
    PROVE  HostInv'
  <1> DEFINE waits == ~(Dead \/ (kind = "load" /\ ready))
             told == IF Dead THEN DrainedTo[kind] ELSE "ok"
             new == IF waits THEN [kind |-> kind, event |-> e, state |-> "pending", result |-> "none"]
                    ELSE [kind |-> kind, event |-> e, state |-> "settled", result |-> told]
  <1>1. /\ call[c].state = "idle" /\ (kind = "hook") = (e # "none")
        /\ call' = [call EXCEPT ![c] = new] /\ UNCHANGED <<state, ready, cap, running>>
    BY DEF Ask
  <1>2. told \in Results /\ (kind = "hook" /\ ~waits => told = "continue")
    <2>1. kind \in Kinds
      BY SandboxAssumption DEF Kinds
    <2>2. "ok" \in Results
      BY DEF Results
    <2> QED BY <2>1, <2>2, Outcomes
  <1>3. new \in CallSet /\ new.kind = kind /\ new.event = e /\ new.state = (IF waits THEN "pending" ELSE "settled")
        /\ (~waits => new.result = told)
    BY <1>2 DEF CallSet, Results
  <1> HIDE DEF new, told
  <1>4. call \in [HostCalls -> CallSet]
    BY DEF HostInv, HostTypeOK, CallSet, Results
  <1>5. call' \in [HostCalls -> CallSet] /\ call'[c] = new /\ \A x \in HostCalls : x # c => call'[x] = call[x]
    BY <1>1, <1>3, <1>4
  <1>6. wire' = (IF waits THEN [wire EXCEPT ![c] = "sent"] ELSE wire)
        /\ (waits => inFlightHookEvents' = [x \in CallEvents |-> inFlightHookEvents[x] + IF x = e THEN 1 ELSE 0])
        /\ (~waits => inFlightHookEvents' = inFlightHookEvents)
    BY DEF Ask
  <1>7. ASSUME NEW x \in CallEvents PROVE inFlightHookEvents'[x] = Cardinality(PendingOn(x)')
    <2>1. inFlightHookEvents[x] = Cardinality(PendingOn(x))
      BY DEF HostInv, InFlightIsPending, PendingOn
    <2>2. c \notin PendingOn(x)
      BY <1>1 DEF PendingOn, Awaits
    <2>3. \A y \in HostCalls : y # c => (y \in PendingOn(x)' <=> y \in PendingOn(x))
      BY <1>5 DEF PendingOn, Awaits
    <2>4. c \in PendingOn(x)' <=> (waits /\ x = e)
      BY <1>3, <1>5 DEF PendingOn, Awaits
    <2>5. PendingOn(x) \subseteq HostCalls /\ PendingOn(x)' \subseteq HostCalls
      BY DEF PendingOn
    <2>6. CASE waits /\ x = e
      <3>1. PendingOn(x)' = PendingOn(x) \cup {c}
        BY <2>3, <2>4, <2>5, <2>6
      <3>2. inFlightHookEvents'[x] = inFlightHookEvents[x] + 1
        BY <1>6, <2>6
      <3> QED BY <2>1, <2>2, <3>1, <3>2, CountsAreNumbers, FS_AddElement
    <2>7. CASE ~(waits /\ x = e)
      <3>1. PendingOn(x)' = PendingOn(x)
        BY <2>2, <2>3, <2>4, <2>5, <2>7
      <3>2. inFlightHookEvents[x] \in Nat
        BY DEF HostInv, HostTypeOK
      <3>3. inFlightHookEvents'[x] = inFlightHookEvents[x]
        BY <1>6, <2>7, <3>2
      <3> QED BY <2>1, <3>1, <3>3
    <2> QED BY <2>6, <2>7
  <1>8. InFlightIsPending'
    BY <1>7 DEF InFlightIsPending, PendingOn
  <1>9. inFlightHookEvents' \in [CallEvents -> Nat]
    <2>1. DOMAIN inFlightHookEvents' = CallEvents /\ inFlightHookEvents' = [x \in CallEvents |-> inFlightHookEvents'[x]]
      BY <1>6 DEF HostInv, HostTypeOK
    <2> QED BY <1>7, <2>1, CountsAreNumbers
  <1>10. HostTypeOK'
    BY <1>1, <1>5, <1>6, <1>9 DEF HostInv, HostTypeOK, CallSet, Results
  <1>11. CapsAreCounted'
    BY <1>1 DEF HostInv, CapsAreCounted
  <1>12. DeadOwesNothing'
    <2>1. Dead' => ~waits
      BY <1>1 DEF Dead
    <2>2. Dead' = Dead
      BY <1>1 DEF Dead
    <2>3. \A x \in HostCalls : Dead' => ~Awaits(x)'
      BY <1>3, <1>5, <2>1, <2>2 DEF HostInv, DeadOwesNothing, Awaits
    <2>4. \A x \in HostCalls : call'[x].kind = "hook" /\ call'[x].state = "settled" => call'[x].result \in {"ok", "continue"}
      BY <1>2, <1>3, <1>5 DEF HostInv, DeadOwesNothing
    <2> QED BY <2>3, <2>4 DEF DeadOwesNothing
  <1>13. WireIsTrue'
    <2>1. wire[c] = "none" /\ wire \in [HostCalls -> {"none", "sent", "ok", "rejected"}]
      BY <1>1 DEF HostInv, HostTypeOK, WireIsTrue
    <2>2. wire'[c] \in {"none", "sent"} /\ \A x \in HostCalls : x # c => wire'[x] = wire[x]
      BY <1>6, <2>1
    <2>3. call'[c].state # "idle"
      BY <1>3, <1>5
    <2> QED BY <1>5, <2>2, <2>3 DEF HostInv, WireIsTrue
  <1> QED BY <1>8, <1>10, <1>11, <1>12, <1>13 DEF HostInv

\* Calls are settled while the capability calls stand, and the worker does not come back.
LEMMA SettlingKeeps ==
    ASSUME HostInv, NEW cs \in SUBSET Waiting, NEW results \in [HostCalls -> Results],
           \A c \in cs : call[c].kind = "hook" => results[c] \in {"ok", "continue"},
           Settle(cs, results), inFlightHookEvents' = Settles(cs),
           state' \in {"up", "killed", "exited"}, Dead' => Dead \/ cs = Waiting, ready' \in BOOLEAN,
           wire' \in [HostCalls -> {"none", "sent", "ok", "rejected"}],
           \A c \in HostCalls : wire'[c] \in {wire[c], "none"},
           cap' \in [Caps -> CapSet], running' = running,
           \A k \in Caps : cap'[k].state = "runs" <=> cap[k].state = "runs"
    PROVE  HostInv'
  <1>1. /\ call' \in [HostCalls -> CallSet] /\ inFlightHookEvents' \in [CallEvents -> Nat]
        /\ InFlightIsPending'
        /\ \A c \in HostCalls : /\ c \notin cs => call'[c] = call[c]
                                /\ call'[c].kind = call[c].kind /\ call'[c].event = call[c].event
                                /\ c \in cs => call'[c].state = "settled" /\ call[c].state = "pending"
        /\ \A c \in HostCalls : call'[c].kind = "hook" /\ call'[c].state = "settled" => call'[c].result \in {"ok", "continue"}
    BY SettlingKeepsCount
  <1>2. HostTypeOK'
    BY <1>1 DEF HostInv, HostTypeOK, CallSet, CapSet, Results
  <1>3. CapsAreCounted'
    <2>1. {k \in Caps : cap'[k].state = "runs"} = {k \in Caps : cap[k].state = "runs"}
      OBVIOUS
    <2> QED BY <2>1 DEF HostInv, CapsAreCounted
  <1>4. Dead' => \A c \in HostCalls : ~Awaits(c)'
    <2>1. CASE Dead
      BY <1>1, <2>1 DEF HostInv, DeadOwesNothing, Awaits
    <2>2. CASE cs = Waiting
      BY <1>1, <2>2 DEF Waiting, Awaits
    <2> QED BY <2>1, <2>2
  <1>5. DeadOwesNothing'
    BY <1>1, <1>4 DEF DeadOwesNothing
  <1>6. WireIsTrue'
    <2>1. \A c \in HostCalls : call'[c].state = "idle" => call[c].state = "idle"
      BY <1>1
    <2> QED BY <1>1, <2>1 DEF HostInv, WireIsTrue
  <1> QED BY <1>1, <1>2, <1>3, <1>5, <1>6 DEF HostInv

LEMMA HearsKeeps == ASSUME HostInv, NEW c \in HostCalls, Hears(c) PROVE HostInv'
  <1> DEFINE cs == AnsweredBy(c)
             results == Heard(wire[c])
  <1>1. wire[c] \in {"ok", "rejected"} /\ wire \in [HostCalls -> {"none", "sent", "ok", "rejected"}]
    BY DEF Hears, HostInv, HostTypeOK
  <1>2. cs \in SUBSET Waiting
    BY DEF AnsweredBy, Waiting
  <1>3. results \in [HostCalls -> Results] /\ \A x \in HostCalls : results[x] = wire[c]
    BY <1>1 DEF Heard, Results
  <1>4. \A x \in cs : call[x].kind = "hook" => wire[c] = "ok"
    <2>1. call[c].kind = "hook" => wire[c] = "ok"
      BY <1>1 DEF HostInv, WireIsTrue
    <2> QED BY <2>1 DEF AnsweredBy
  <1>5. \A x \in cs : call[x].kind = "hook" => results[x] \in {"ok", "continue"}
    BY <1>2, <1>3, <1>4 DEF Waiting
  <1>6. Settle(cs, results) /\ inFlightHookEvents' = Settles(cs)
    BY DEF Hears
  <1>7. state' = state /\ cap' = cap /\ running' = running /\ wire' = [wire EXCEPT ![c] = "none"]
        /\ ready' = (ready \/ (call[c].kind = "load" /\ wire[c] = "ok"))
    BY DEF Hears
  <1> HIDE DEF cs, results
  <1>8. ready' \in BOOLEAN
    BY <1>7 DEF HostInv, HostTypeOK
  <1>9. wire' \in [HostCalls -> {"none", "sent", "ok", "rejected"}] /\ \A x \in HostCalls : wire'[x] \in {wire[x], "none"}
    BY <1>1, <1>7
  <1>10. state' \in {"up", "killed", "exited"} /\ (Dead' => Dead) /\ cap' \in [Caps -> CapSet]
         /\ \A k \in Caps : cap'[k].state = "runs" <=> cap[k].state = "runs"
    BY <1>7 DEF HostInv, HostTypeOK, Dead, CapSet
  <1> QED BY <1>2, <1>3, <1>5, <1>6, <1>7, <1>8, <1>9, <1>10, SettlingKeeps

\* What Without() gives a call that waits.
LEMMA WithoutTyped ==
    ASSUME HostInv, NEW endOf, \A k \in Kinds : endOf[k] \in Results /\ (k = "hook" => endOf[k] = "continue")
    PROVE  /\ Without(endOf) \in [HostCalls -> Results]
           /\ \A c \in HostCalls : call[c].kind = "hook" => Without(endOf)[c] = "continue"
  <1>1. \A c \in HostCalls : call[c].kind \in Kinds \cup {"none"}
    BY SandboxAssumption DEF HostInv, HostTypeOK, Kinds
  <1>2. "none" \in Results /\ "hook" # "none"
    BY DEF Results
  <1>3. \A c \in HostCalls : Without(endOf)[c] = IF call[c].kind = "none" THEN "none" ELSE endOf[call[c].kind]
    BY DEF Without
  <1>4. \A c \in HostCalls : Without(endOf)[c] \in Results /\ (call[c].kind = "hook" => Without(endOf)[c] = "continue")
    BY <1>1, <1>2, <1>3
  <1> QED BY <1>4 DEF Without

LEMMA TimesOutKeeps == ASSUME HostInv, NEW c \in HostCalls, TimesOut(c) PROVE HostInv'
  <1> DEFINE results == Without(TimedOut)
  <1>1. {c} \in SUBSET Waiting
    BY DEF TimesOut, Waiting
  <1>2. results \in [HostCalls -> Results] /\ \A x \in {c} : call[x].kind = "hook" => results[x] \in {"ok", "continue"}
    BY WithoutTyped, Outcomes
  <1>3. Settle({c}, results) /\ inFlightHookEvents' = Settles({c}) /\ UNCHANGED <<state, ready, wire, cap, running>>
    BY DEF TimesOut
  <1> HIDE DEF results
  <1>4. /\ wire' \in [HostCalls -> {"none", "sent", "ok", "rejected"}] /\ \A x \in HostCalls : wire'[x] \in {wire[x], "none"}
        /\ state' \in {"up", "killed", "exited"} /\ (Dead' => Dead) /\ ready' \in BOOLEAN
        /\ cap' \in [Caps -> CapSet] /\ running' = running
        /\ \A k \in Caps : cap'[k].state = "runs" <=> cap[k].state = "runs"
    BY <1>3 DEF HostInv, HostTypeOK, Dead, CapSet
  <1> QED BY <1>1, <1>2, <1>3, <1>4, SettlingKeeps

LEMMA ExitKeeps == ASSUME HostInv, Exit PROVE HostInv'
  <1> DEFINE results == Without(DrainedTo)
  <1>1. results \in [HostCalls -> Results] /\ \A x \in HostCalls : call[x].kind = "hook" => results[x] \in {"ok", "continue"}
    BY WithoutTyped, Outcomes
  <1>2. Settle(Waiting, results) /\ inFlightHookEvents' = Settles(Waiting)
    BY DEF Exit, Waiting
  <1>3. /\ state' = "exited" /\ wire' = [c \in HostCalls |-> "none"] /\ ready' = ready /\ running' = running
        /\ cap' = [k \in Caps |-> IF cap[k].state = "asked" THEN NoCap ELSE cap[k]]
    BY DEF Exit
  <1>4. \A x \in Waiting : call[x].kind = "hook" => results[x] \in {"ok", "continue"}
    BY <1>1 DEF Waiting
  <1> HIDE DEF results
  <1>5. cap' \in [Caps -> CapSet] /\ \A k \in Caps : cap'[k].state = "runs" <=> cap[k].state = "runs"
    BY <1>3 DEF HostInv, HostTypeOK, CapSet, NoCap
  <1>6. wire' \in [HostCalls -> {"none", "sent", "ok", "rejected"}] /\ \A x \in HostCalls : wire'[x] \in {wire[x], "none"}
    BY <1>3
  <1>7. ready' \in BOOLEAN
    BY <1>3 DEF HostInv, HostTypeOK
  <1> QED BY <1>1, <1>2, <1>3, <1>4, <1>5, <1>6, <1>7, SettlingKeeps

\* A capability call starts, ends, or is asked for: nothing else moves.
LEMMA CapKeeps ==
    ASSUME HostInv, NEW k \in Caps, NEW n \in CapSet, cap' = [cap EXCEPT ![k] = n],
           \/ cap[k].state # "runs" /\ n.state # "runs" /\ running' = running
           \/ cap[k].state # "runs" /\ n.state = "runs" /\ running' = running + 1 /\ running < MaxInFlightCaps
           \/ cap[k].state = "runs" /\ n.state # "runs" /\ running' = running - 1,
           UNCHANGED <<state, ready, call, wire, inFlightHookEvents>>
    PROVE  HostInv'
  <1>1. cap \in [Caps -> CapSet] /\ running \in Nat /\ running <= MaxInFlightCaps /\ running = Cardinality(RunningCaps)
    BY SandboxAssumption DEF HostInv, HostTypeOK, CapSet, CapsAreCounted, RunningCaps
  <1>2. cap' \in [Caps -> CapSet] /\ cap'[k] = n /\ \A x \in Caps : x # k => cap'[x] = cap[x]
    BY <1>1
  <1>3. IsFiniteSet(RunningCaps)
    <2>1. RunningCaps \in SUBSET Caps
      BY DEF RunningCaps
    <2> QED BY <2>1, SandboxAssumption, FS_Subset
  <1>4. running' = Cardinality(RunningCaps')
    <2>1. CASE cap[k].state # "runs" /\ n.state # "runs" /\ running' = running
      <3>1. RunningCaps' = RunningCaps
        BY <1>2, <2>1 DEF RunningCaps
      <3> QED BY <1>1, <2>1, <3>1
    <2>2. CASE cap[k].state # "runs" /\ n.state = "runs" /\ running' = running + 1 /\ running < MaxInFlightCaps
      <3>1. RunningCaps' = RunningCaps \cup {k} /\ k \notin RunningCaps
        BY <1>2, <2>2 DEF RunningCaps
      <3> QED BY <1>1, <1>3, <2>2, <3>1, FS_AddElement
    <2>3. CASE cap[k].state = "runs" /\ n.state # "runs" /\ running' = running - 1
      <3>1. RunningCaps' = RunningCaps \ {k} /\ k \in RunningCaps
        BY <1>2, <2>3 DEF RunningCaps
      <3> QED BY <1>1, <1>3, <2>3, <3>1, FS_RemoveElement
    <2> QED BY <2>1, <2>2, <2>3
  <1>5. running' \in 0 .. MaxInFlightCaps
    <2>1. RunningCaps' \in SUBSET Caps
      BY DEF RunningCaps
    <2>2. Cardinality(RunningCaps') \in Nat
      BY <2>1, SandboxAssumption, FS_Subset, FS_CardinalityType
    <2>3. running' <= MaxInFlightCaps
      BY <1>1, SandboxAssumption
    <2> QED BY <1>4, <2>2, <2>3, SandboxAssumption
  <1>6. HostTypeOK'
    BY <1>2, <1>5 DEF HostInv, HostTypeOK, CapSet
  <1>7. CapsAreCounted'
    BY <1>4, <1>5, SandboxAssumption DEF CapsAreCounted, RunningCaps
  <1>8. InFlightIsPending' /\ DeadOwesNothing' /\ WireIsTrue'
    BY DEF HostInv, InFlightIsPending, DeadOwesNothing, WireIsTrue, Awaits, Dead
  <1> QED BY <1>6, <1>7, <1>8 DEF HostInv

LEMMA CapStepKeeps ==
    ASSUME HostInv, NEW k \in Caps, WorkerAsks(k) \/ CapArrives(k) \/ CapEnds(k) PROVE HostInv'
  <1>1. cap \in [Caps -> CapSet] /\ running \in Nat
    BY DEF HostInv, HostTypeOK, CapSet
  <1>2. ASSUME NEW s \in {"idle", "asked", "runs", "refused", "answered"}
        PROVE  [cap[k] EXCEPT !.state = s] \in CapSet /\ [cap[k] EXCEPT !.state = s].state = s
               /\ [cap EXCEPT ![k].state = s] = [cap EXCEPT ![k] = [cap[k] EXCEPT !.state = s]]
    BY <1>1 DEF CapSet
  <1>3. CASE WorkerAsks(k)
    <2>1. cap' = [cap EXCEPT ![k] = [cap[k] EXCEPT !.state = "asked"]] /\ cap[k].state = "idle"
          /\ UNCHANGED <<state, ready, call, wire, inFlightHookEvents, running>>
      BY <1>2, <1>3 DEF WorkerAsks
    <2> QED BY <1>2, <2>1, CapKeeps
  <1>4. CASE CapEnds(k)
    <2>1. cap' = [cap EXCEPT ![k] = [cap[k] EXCEPT !.state = "answered"]] /\ cap[k].state = "runs" /\ running' = running - 1
          /\ UNCHANGED <<state, ready, call, wire, inFlightHookEvents>>
      BY <1>2, <1>4 DEF CapEnds
    <2> QED BY <1>2, <2>1, CapKeeps
  <1>5. CASE CapArrives(k) /\ running >= MaxInFlightCaps
    <2>1. cap' = [cap EXCEPT ![k] = [cap[k] EXCEPT !.state = "refused"]] /\ cap[k].state = "asked"
          /\ UNCHANGED <<state, ready, call, wire, inFlightHookEvents, running>>
      BY <1>2, <1>5 DEF CapArrives
    <2> QED BY <1>2, <2>1, CapKeeps
  <1>6. CASE CapArrives(k) /\ ~(running >= MaxInFlightCaps)
    <2> DEFINE n == [state |-> "runs", under |-> {e \in CallEvents : inFlightHookEvents[e] > 0}]
    <2>1. cap' = [cap EXCEPT ![k] = n] /\ cap[k].state = "asked" /\ running' = running + 1
          /\ UNCHANGED <<state, ready, call, wire, inFlightHookEvents>>
      BY <1>6 DEF CapArrives
    <2>2. n \in CapSet /\ n.state = "runs"
      BY DEF CapSet
    <2>3. running < MaxInFlightCaps
      BY <1>1, <1>6, SandboxAssumption
    <2> HIDE DEF n
    <2> QED BY <2>1, <2>2, <2>3, CapKeeps
  <1> QED BY <1>3, <1>4, <1>5, <1>6

LEMMA AnswerKeeps == ASSUME HostInv, NEW c \in HostCalls, WorkerAnswers(c) PROVE HostInv'
  <1>1. PICK a \in {"ok", "rejected"} : (call[c].kind = "hook" => a = "ok") /\ wire' = [wire EXCEPT ![c] = a]
    BY DEF WorkerAnswers
  <1>2. wire[c] = "sent" /\ UNCHANGED <<state, ready, call, inFlightHookEvents, cap, running>>
    BY DEF WorkerAnswers
  <1>3. wire \in [HostCalls -> {"none", "sent", "ok", "rejected"}]
    BY DEF HostInv, HostTypeOK
  <1>4. wire' \in [HostCalls -> {"none", "sent", "ok", "rejected"}] /\ wire'[c] = a /\ \A x \in HostCalls : x # c => wire'[x] = wire[x]
    BY <1>1, <1>3
  <1>5. HostTypeOK'
    BY <1>2, <1>4 DEF HostInv, HostTypeOK
  <1>6. InFlightIsPending' /\ CapsAreCounted' /\ DeadOwesNothing'
    BY <1>2 DEF HostInv, InFlightIsPending, CapsAreCounted, DeadOwesNothing, Awaits, Dead
  <1>7. call[c].state # "idle"
    BY <1>2 DEF HostInv, WireIsTrue
  <1>8. WireIsTrue'
    BY <1>1, <1>2, <1>4, <1>7 DEF HostInv, WireIsTrue
  <1> QED BY <1>5, <1>6, <1>8 DEF HostInv

LEMMA TerminateKeeps == ASSUME HostInv, Terminate \/ UNCHANGED hostVars PROVE HostInv'
  <1>1. /\ UNCHANGED <<ready, call, wire, inFlightHookEvents, cap, running>> /\ state' \in {"up", "killed", "exited"}
        /\ Dead' => Dead
    BY DEF Terminate, hostVars, HostInv, HostTypeOK, Dead
  <1> QED BY <1>1 DEF HostInv, HostTypeOK, InFlightIsPending, CapsAreCounted, DeadOwesNothing, WireIsTrue, Awaits

LEMMA HostSteps == HostInv /\ [HostNext]_hostVars => HostInv'
  <1> SUFFICES ASSUME HostInv, [HostNext]_hostVars PROVE HostInv'
    OBVIOUS
  <1>1. CASE Terminate \/ UNCHANGED hostVars
    BY <1>1, TerminateKeeps
  <1>2. CASE Exit
    BY <1>2, ExitKeeps
  <1>3. CASE \E c \in HostCalls, kind \in CallKinds, e \in CallEvents \cup {"none"} : Ask(c, kind, e)
    BY <1>3, AskKeeps
  <1>4. CASE \E c \in HostCalls : Hears(c) \/ TimesOut(c) \/ WorkerAnswers(c)
    BY <1>4, HearsKeeps, TimesOutKeeps, AnswerKeeps
  <1>5. CASE \E k \in Caps : WorkerAsks(k) \/ CapArrives(k) \/ CapEnds(k)
    BY <1>5, CapStepKeeps
  <1> QED BY <1>1, <1>2, <1>3, <1>4, <1>5 DEF HostNext

\* The events in flight are those of the pending hooks with their number, the counter of the capability calls is
\* exact, and nobody waits for a worker that is gone, across answers, timeouts, late answers and crashes
\* (PluginWorkerHost).
THEOREM SandboxStaysExact == HostSpec => []SandboxIsExact
  <1>1. HostInv => SandboxIsExact
    BY DEF HostInv, SandboxIsExact
  <1> QED BY <1>1, HostStarts, HostSteps, PTL DEF HostSpec

\* Types of the calls between the program and a worker, the limit of the capability calls included.
THEOREM SandboxTypeCorrect == HostSpec => []HostTypeOK
  <1>1. HostInv => HostTypeOK
    BY DEF HostInv
  <1> QED BY <1>1, HostStarts, HostSteps, PTL DEF HostSpec

\* What a caller was told stands: an answer that comes after the timer, or after the worker ended, changes nothing
\* (handleMessage() and handleExit() of PluginWorkerHost).
THEOREM AnswersStand == HostSpec => SettledOnce
  <1>1. HostInv /\ [HostNext]_hostVars => [\A c \in HostCalls : call[c].state = "settled" => call'[c] = call[c]]_hostVars
    <2> SUFFICES ASSUME HostInv, HostNext, NEW c \in HostCalls, call[c].state = "settled"
                 PROVE  call'[c] = call[c]
      OBVIOUS
    <2>1. call \in [HostCalls -> CallSet]
      BY DEF HostInv, HostTypeOK, CallSet, Results
    <2>2. ASSUME NEW cs, NEW results, \A d \in cs : Awaits(d), Settle(cs, results)
          PROVE  call'[c] = call[c]
      <3>1. c \notin cs
        <4>1. c \in cs => call[c].state = "pending"
          BY <2>2 DEF Awaits
        <4> QED BY <4>1
      <3>2. call'[c] = IF c \in cs THEN [call[c] EXCEPT !.state = "settled", !.result = results[c]] ELSE call[c]
        BY <2>2, Zenon DEF Settle
      <3> QED BY <3>1, <3>2
    <2>3. ASSUME NEW d \in HostCalls, NEW kind \in CallKinds, NEW e \in CallEvents \cup {"none"}, Ask(d, kind, e)
          PROVE  call'[c] = call[c]
      <3>1. d # c /\ \E x : call' = [call EXCEPT ![d] = x]
        BY <2>3 DEF Ask
      <3> QED BY <2>1, <3>1
    <2>4. ASSUME NEW d \in HostCalls, Hears(d) PROVE call'[c] = call[c]
      <3>1. \A x \in AnsweredBy(d) : Awaits(x)
        BY DEF AnsweredBy
      <3> QED BY <2>2, <2>4, <3>1 DEF Hears
    <2>5. ASSUME NEW d \in HostCalls, TimesOut(d) PROVE call'[c] = call[c]
      BY <2>2, <2>5 DEF TimesOut
    <2>6. ASSUME Exit PROVE call'[c] = call[c]
      BY <2>2, <2>6 DEF Exit
    <2>7. ASSUME \/ Terminate \/ \E d \in HostCalls : WorkerAnswers(d)
                 \/ \E k \in Caps : WorkerAsks(k) \/ CapArrives(k) \/ CapEnds(k)
          PROVE  call'[c] = call[c]
      BY <2>7 DEF Terminate, WorkerAnswers, WorkerAsks, CapArrives, CapEnds
    <2> QED BY <2>3, <2>4, <2>5, <2>6, <2>7 DEF HostNext
  <1> QED BY <1>1, HostStarts, HostSteps, PTL DEF HostSpec, SettledOnce

-----------------------------------------------------------------------------
(* The life of a plugin: what holds at each stage of each operation         *)

PluginSet == {NotLoaded} \cup [status : Statuses, version : Versions, settings : Settings]
EntrySet == {NoEntry} \cup [status : Statuses, settings : Settings]
WorkerSet == [of : Plugins \cup {"none"}, state : {"unborn", "up", "killed", "exited"}, subscribed : SUBSET PluginEvents]
OpSet == [kind : {"none", "enable", "disable", "uninstall", "update", "undo", "restore"}, stage : Stages,
          host : {0} \cup Workers, was : BOOLEAN, to : Versions \cup {"none"}]
Shape ==
    /\ dir \in [Plugins -> Files] /\ backup \in [Plugins -> Files] /\ refused \subseteq Plugins
    /\ plugin \in [Plugins -> PluginSet] /\ entry \in [Plugins -> EntrySet]
    /\ host \in [Plugins -> {0} \cup Workers] /\ provider \in [Plugins -> {0} \cup Workers]
    /\ activeProvider \in {"builtin"} \cup Plugins
    /\ worker \in [Workers -> WorkerSet] /\ shims \in [Plugins -> [PluginEvents -> Nat]]
    /\ op \in [Plugins -> OpSet] /\ chosen \in [Plugins -> Settings] /\ restarts \in 0 .. MaxRestarts

\* The workers of a plugin that run, and those that registered for events once each.
Living(p) == {w \in Workers : worker[w].of = p /\ worker[w].state \in {"up", "killed"}}
Hooked(p, w) == \A e \in PluginEvents : shims[p][e] = IF e \in worker[w].subscribed THEN 1 ELSE 0

\* A plugin without a worker has no hooks and no search provider; one that runs has one worker; one whose worker
\* is being killed or has just exited still has what its operation is about to take down.
Asleep(p) == Living(p) = {} /\ host[p] = 0 /\ provider[p] = 0 /\ shims[p] = NoShims
Runs(p, w) ==
    /\ w \in Workers /\ Living(p) = {w} /\ worker[w].state = "up"
    /\ host[p] = w /\ provider[p] \in {0, w} /\ Hooked(p, w)
Dying(p, w) ==
    /\ w \in Workers /\ worker[w].of = p /\ Living(p) \subseteq {w} /\ worker[w].state # "up"
    /\ w \in Living(p) => Hooked(p, w)
    /\ provider[p] # 0 => provider[p] = w /\ w \in Living(p)
    /\ \A e \in PluginEvents : shims[p][e] <= 1
Crashed(p, w) == Asleep(p) /\ w \in Workers /\ worker[w].of = p /\ worker[w].state = "exited"

Enabling == {"load", "onLoad", "onEnable"}
Phase(p) ==
    LET o == op[p] IN
    /\ o.stage = "none" => o = NoOp /\ (Enabled(p) => Runs(p, host[p])) /\ (~Enabled(p) => Asleep(p))
    /\ o.stage \in Enabling \cup {"onDisable"} => Runs(p, o.host) \/ Crashed(p, o.host)
    /\ o.stage = "scrap" => Dying(p, o.host) /\ host[p] = 0 /\ provider[p] = 0
    /\ o.stage = "terminate" => Dying(p, o.host) /\ host[p] \in {0, o.host} /\ (o.host \in Living(p) => host[p] = o.host)
    /\ o.stage \in {"unload", "rollback"} => Asleep(p)
    /\ o.stage \in Enabling \cup {"scrap"} => o.kind \in EnableKinds
    /\ o.stage \in {"onDisable", "terminate"} => o.kind \in {"disable", "uninstall", "update", "undo"}
    /\ o.stage = "unload" => o.kind \in {"uninstall", "update"}
    /\ o.stage = "rollback" => o.kind \in Undoes

\* Memory, registry file and directory: what is loaded is what the directory holds, except while an update is
\* rolled back, and what the directory holds is loaded unless the disk refused.
Disk(p) ==
    LET o == op[p] IN
    /\ Kept(p) = chosen[p]
    /\ Loaded(p) => plugin[p].settings = chosen[p] /\ entry[p] # NoEntry
    /\ Loaded(p) /\ o.stage # "rollback" => plugin[p].version = dir[p] /\ p \notin refused
    /\ o.stage = "none" /\ dir[p] \in Versions /\ p \notin refused => Loaded(p)
    /\ o.stage \notin {"none", "rollback"} => Loaded(p)
    /\ o.kind = "update" => o.to # "none"

Searched == activeProvider \in Plugins => provider[activeProvider] # 0
Owned == \A w \in Workers : worker[w].of = "none" <=> worker[w].state = "unborn"

\* The inductive invariant of the life of plugins.
LifeInv == Shape /\ Searched /\ Owned /\ \A p \in Plugins : Phase(p) /\ Disk(p)

-----------------------------------------------------------------------------
(* What a step of one plugin leaves alone                                   *)

LEMMA OpFields ==
    /\ NoOp \in OpSet /\ NoOp.kind = "none" /\ NoOp.stage = "none" /\ NoOp.host = 0
    /\ \A o \in OpSet, s \in Stages, w \in {0} \cup Workers :
          /\ At(o, s, w) \in OpSet /\ At(o, s, w).kind = o.kind /\ At(o, s, w).stage = s /\ At(o, s, w).host = w
          /\ At(o, s, w).was = o.was /\ At(o, s, w).to = o.to
    /\ \A k \in {"enable", "disable", "uninstall", "update", "undo", "restore"}, b \in BOOLEAN, v \in Versions \cup {"none"} :
          /\ Operation(k, b, v) \in OpSet /\ Operation(k, b, v).kind = k /\ Operation(k, b, v).stage = "none"
          /\ Operation(k, b, v).was = b /\ Operation(k, b, v).to = v
  BY DEF NoOp, Operation, At, OpSet, Stages

LEMMA PluginFields ==
    /\ NotLoaded \in PluginSet /\ NotLoaded.status = "absent" /\ NotLoaded.version = "none"
    /\ NoEntry \in EntrySet /\ NoEntry.status = "absent"
    /\ \A x \in PluginSet : x.status # "absent" => x.status \in Statuses /\ x.version \in Versions /\ x.settings \in Settings
    /\ \A x \in PluginSet : x.status = "absent" => x = NotLoaded
    /\ \A x \in EntrySet : x # NoEntry => x.status \in Statuses /\ x.settings \in Settings /\ x.status # "absent"
  BY DEF NotLoaded, NoEntry, PluginSet, EntrySet, Statuses

\* A step of p: the other plugins and their workers stand, and a worker that is new is p's.
TouchesOnly(p) ==
    /\ \A q \in Plugins : q # p =>
          /\ dir'[q] = dir[q] /\ backup'[q] = backup[q] /\ plugin'[q] = plugin[q] /\ entry'[q] = entry[q]
          /\ host'[q] = host[q] /\ shims'[q] = shims[q] /\ provider'[q] = provider[q] /\ op'[q] = op[q]
          /\ chosen'[q] = chosen[q] /\ (q \in refused' <=> q \in refused)
    /\ \A w \in Workers : \/ worker'[w] = worker[w]
                          \/ worker[w].of \in {p, "none"} /\ worker'[w].of = p /\ worker'[w].state # "unborn"

LEMMA OthersStand ==
    ASSUME NEW p \in Plugins, NEW q \in Plugins, q # p, TouchesOnly(p), Phase(q), Disk(q)
    PROVE  Phase(q)' /\ Disk(q)'
  <1>1. /\ dir'[q] = dir[q] /\ backup'[q] = backup[q] /\ plugin'[q] = plugin[q] /\ entry'[q] = entry[q]
        /\ host'[q] = host[q] /\ shims'[q] = shims[q] /\ provider'[q] = provider[q] /\ op'[q] = op[q]
        /\ chosen'[q] = chosen[q] /\ (q \in refused' <=> q \in refused)
    BY DEF TouchesOnly
  <1>2. q # "none"
    BY PluginAssumption
  <1>3. \A w \in Workers : worker[w].of = q \/ worker'[w].of = q => worker'[w] = worker[w]
    BY <1>2 DEF TouchesOnly
  <1>4. Living(q)' = Living(q)
    BY <1>3 DEF Living
  <1>5. \A w \in Workers : worker[w].of = q => (Hooked(q, w)' <=> Hooked(q, w))
    BY <1>1, <1>3 DEF Hooked
  <1>6. (Asleep(q)' <=> Asleep(q)) /\ (Enabled(q)' <=> Enabled(q)) /\ (Loaded(q)' <=> Loaded(q)) /\ Kept(q)' = Kept(q)
    BY <1>1, <1>4 DEF Asleep, Enabled, Loaded, Kept
  <1>7. ASSUME NEW w, Runs(q, w) PROVE Runs(q, w)'
    <2>1. w \in Workers /\ w \in Living(q) /\ worker[w].of = q
      BY <1>7 DEF Runs, Living
    <2>2. worker'[w] = worker[w] /\ Hooked(q, w)'
      BY <1>3, <1>5, <1>7, <2>1 DEF Runs
    <2> QED BY <1>1, <1>4, <1>7, <2>1, <2>2 DEF Runs
  <1>8. ASSUME NEW w, Dying(q, w) PROVE Dying(q, w)'
    <2>1. w \in Workers /\ worker[w].of = q
      BY <1>8 DEF Dying
    <2>2. worker'[w] = worker[w] /\ (Hooked(q, w)' <=> Hooked(q, w))
      BY <1>3, <1>5, <2>1
    <2> QED BY <1>1, <1>4, <1>8, <2>1, <2>2 DEF Dying
  <1>9. ASSUME NEW w, Crashed(q, w) PROVE Crashed(q, w)'
    BY <1>3, <1>6, <1>9 DEF Crashed
  <1>10. Phase(q)'
    BY <1>1, <1>4, <1>6, <1>7, <1>8, <1>9 DEF Phase
  <1>11. Disk(q)'
    BY <1>1, <1>6 DEF Disk
  <1> QED BY <1>10, <1>11

LEMMA LocalStep ==
    ASSUME LifeInv, NEW p \in Plugins, TouchesOnly(p), Shape', Phase(p)', Disk(p)',
           activeProvider' \in {activeProvider, "builtin", p}, activeProvider' = p => provider'[p] # 0
    PROVE  LifeInv'
  <1>1. ASSUME NEW q \in Plugins PROVE Phase(q)' /\ Disk(q)'
    BY OthersStand DEF LifeInv
  <1>2. Searched'
    BY PluginAssumption DEF LifeInv, Searched, TouchesOnly
  <1>3. Owned'
    BY PluginAssumption DEF LifeInv, Owned, TouchesOnly
  <1> QED BY <1>1, <1>2, <1>3 DEF LifeInv

\* Where nothing about workers changes, a plugin sleeps, runs or dies as before.
LEMMA Alike ==
    ASSUME UNCHANGED <<host, worker, shims, provider>>, NEW p \in Plugins
    PROVE  /\ Living(p)' = Living(p) /\ (Asleep(p)' <=> Asleep(p))
           /\ \A w : (Runs(p, w)' <=> Runs(p, w)) /\ (Dying(p, w)' <=> Dying(p, w)) /\ (Crashed(p, w)' <=> Crashed(p, w))
  <1>1. Living(p)' = Living(p) /\ (Asleep(p)' <=> Asleep(p))
    BY DEF Living, Asleep
  <1>2. \A w : Hooked(p, w)' <=> Hooked(p, w)
    BY DEF Hooked
  <1> QED BY <1>1, <1>2 DEF Runs, Dying, Crashed

\* What holds of a plugin that no operation is about.
LEMMA WhenFree ==
    ASSUME LifeInv, NEW p \in Plugins, Free(p)
    PROVE  /\ op[p].stage = "none" /\ (Enabled(p) => Runs(p, host[p])) /\ (~Enabled(p) => Asleep(p))
           /\ Loaded(p) => plugin[p].version = dir[p] /\ p \notin refused
           /\ dir[p] \in Versions /\ p \notin refused => Loaded(p)
  <1>1. op[p].stage = "none" /\ op[p].kind = "none"
    BY OpFields DEF Free
  <1>2. Phase(p) /\ Disk(p)
    BY DEF LifeInv
  <1> QED BY <1>1, <1>2 DEF Phase, Disk

-----------------------------------------------------------------------------
(* The status and the files of a plugin                                     *)

LEMMA StatusSet ==
    ASSUME LifeInv, NEW p \in Plugins, Loaded(p), NEW s \in Statuses, SetStatus(p, s)
    PROVE  /\ plugin' \in [Plugins -> PluginSet] /\ entry' \in [Plugins -> EntrySet]
           /\ plugin'[p].status = s /\ plugin'[p].version = plugin[p].version /\ plugin'[p].settings = plugin[p].settings
           /\ entry'[p] # NoEntry /\ entry'[p].settings = entry[p].settings /\ entry'[p].status = s
           /\ \A q \in Plugins : q # p => plugin'[q] = plugin[q] /\ entry'[q] = entry[q]
  <1>1. plugin \in [Plugins -> PluginSet] /\ entry \in [Plugins -> EntrySet] /\ entry[p] # NoEntry
    BY DEF LifeInv, Shape, Disk
  <1>2. plugin[p] \in [status : Statuses, version : Versions, settings : Settings]
    BY <1>1 DEF Loaded, PluginSet, NotLoaded
  <1>3. entry[p] \in [status : Statuses, settings : Settings]
    BY <1>1 DEF EntrySet
  <1>4. s # "absent" /\ entry[p].status # "absent"
    BY <1>3 DEF Statuses
  <1> DEFINE x == [plugin[p] EXCEPT !.status = s]
             y == [entry[p] EXCEPT !.status = s]
  <1>5. x \in [status : Statuses, version : Versions, settings : Settings] /\ x.status = s
        /\ x.version = plugin[p].version /\ x.settings = plugin[p].settings
    BY <1>2
  <1>6. y \in [status : Statuses, settings : Settings] /\ y.status = s /\ y.settings = entry[p].settings
    BY <1>3
  <1>7. plugin' = [plugin EXCEPT ![p] = x] /\ entry' = [entry EXCEPT ![p] = y]
    <2>1. plugin' = [plugin EXCEPT ![p].status = s] /\ entry' = [entry EXCEPT ![p].status = IF @ = "absent" THEN @ ELSE s]
      BY DEF SetStatus
    <2> QED BY <1>4, <2>1
  <1>8. x \in PluginSet /\ y \in EntrySet /\ y # NoEntry
    BY <1>4, <1>5, <1>6 DEF PluginSet, EntrySet, NoEntry
  <1> HIDE DEF x, y
  <1>9. plugin'[p] = x /\ entry'[p] = y /\ plugin' \in [Plugins -> PluginSet] /\ entry' \in [Plugins -> EntrySet]
    BY <1>1, <1>7, <1>8
  <1> QED BY <1>1, <1>5, <1>6, <1>7, <1>8, <1>9

\* What is kept when only the status moves.
LEMMA StatusKeepsDisk ==
    ASSUME LifeInv, NEW p \in Plugins, Loaded(p), NEW s \in Statuses, SetStatus(p, s), UNCHANGED <<dir, chosen, refused>>,
           NEW o \in OpSet, op'[p] = o, op[p].stage # "rollback",
           o.kind = "update" => op[p].kind = "update" /\ o.to = op[p].to
    PROVE  Disk(p)'
  <1>1. Disk(p) /\ dir' = dir /\ chosen' = chosen /\ refused' = refused
    BY DEF LifeInv
  <1>2. /\ plugin'[p].status = s /\ plugin'[p].version = plugin[p].version /\ plugin'[p].settings = plugin[p].settings
        /\ entry'[p] # NoEntry /\ entry'[p].settings = entry[p].settings /\ entry'[p].status = s
    BY StatusSet
  <1>3. s # "absent"
    BY DEF Statuses
  <1>4. entry[p] # NoEntry /\ entry[p].status # "absent" /\ entry[p].settings = chosen[p]
    BY <1>1, PluginFields DEF Disk, LifeInv, Shape, Kept
  <1>5. Kept(p)' = chosen'[p] /\ Loaded(p)'
    BY <1>1, <1>2, <1>3, <1>4 DEF Kept, Loaded
  <1> QED BY <1>1, <1>2, <1>5 DEF Disk

LEMMA LoadedNow ==
    ASSUME LifeInv, NEW p \in Plugins, NEW v \in Versions, Loads(p, v), chosen' = chosen
    PROVE  /\ plugin' \in [Plugins -> PluginSet] /\ entry' \in [Plugins -> EntrySet]
           /\ plugin'[p].status = "INSTALLED" /\ plugin'[p].version = v /\ plugin'[p].settings = chosen'[p]
           /\ entry'[p] # NoEntry /\ Kept(p)' = chosen'[p] /\ Loaded(p)' /\ ~Enabled(p)'
           /\ \A q \in Plugins : q # p => plugin'[q] = plugin[q] /\ entry'[q] = entry[q]
  <1> DEFINE x == [status |-> "INSTALLED", version |-> v, settings |-> Kept(p)]
             y == [status |-> "INSTALLED", settings |-> Kept(p)]
  <1>1. plugin \in [Plugins -> PluginSet] /\ entry \in [Plugins -> EntrySet] /\ Kept(p) = chosen[p] /\ chosen[p] \in Settings
    BY DEF LifeInv, Shape, Disk
  <1>2. plugin' = [plugin EXCEPT ![p] = x] /\ entry' = [entry EXCEPT ![p] = y]
    BY DEF Loads
  <1>3. x \in PluginSet /\ x.status = "INSTALLED" /\ x.version = v /\ x.settings = chosen[p]
    BY <1>1 DEF PluginSet, Statuses
  <1>4. y \in EntrySet /\ y.status = "INSTALLED" /\ y.settings = chosen[p] /\ y # NoEntry
    BY <1>1 DEF EntrySet, Statuses, NoEntry
  <1> HIDE DEF x, y
  <1>5. plugin'[p] = x /\ entry'[p] = y /\ plugin' \in [Plugins -> PluginSet] /\ entry' \in [Plugins -> EntrySet]
        /\ \A q \in Plugins : q # p => plugin'[q] = plugin[q] /\ entry'[q] = entry[q]
    BY <1>1, <1>2, <1>3, <1>4
  <1>6. Kept(p)' = chosen'[p] /\ Loaded(p)' /\ ~Enabled(p)'
    BY <1>3, <1>4, <1>5 DEF Kept, Loaded, Enabled
  <1> QED BY <1>3, <1>4, <1>5, <1>6

\* A worker is spawned for a plugin that has none.
LEMMA SpawnWakes ==
    ASSUME LifeInv, NEW p \in Plugins, NEW o \in OpSet, Spawn(p, o), Asleep(p), UNCHANGED <<shims, provider>>
    PROVE  /\ host' \in [Plugins -> {0} \cup Workers] /\ worker' \in [Workers -> WorkerSet] /\ op' \in [Plugins -> OpSet]
           /\ \A q \in Plugins : q # p => host'[q] = host[q] /\ op'[q] = op[q]
           /\ \A w \in Workers : worker'[w] = worker[w] \/ (worker[w].of = "none" /\ worker'[w].of = p /\ worker'[w].state = "up")
           /\ op'[p] \in OpSet /\ op'[p].kind = o.kind /\ op'[p].stage = "load" /\ op'[p].was = o.was /\ op'[p].to = o.to
           /\ \E w \in Workers : op'[p].host = w /\ Runs(p, w)'
  <1>1. PICK w \in Workers : /\ worker[w].state = "unborn" /\ worker' = [worker EXCEPT ![w] = [of |-> p, state |-> "up", subscribed |-> {}]]
                             /\ host' = [host EXCEPT ![p] = w] /\ op' = [op EXCEPT ![p] = At(o, "load", w)]
    BY DEF Spawn, SetOp
  <1>2. worker \in [Workers -> WorkerSet] /\ host \in [Plugins -> {0} \cup Workers] /\ op \in [Plugins -> OpSet]
        /\ worker[w].of = "none"
    BY <1>1 DEF LifeInv, Shape, Owned
  <1>3. worker' \in [Workers -> WorkerSet] /\ worker'[w].of = p /\ worker'[w].state = "up" /\ worker'[w].subscribed = {}
        /\ \A x \in Workers : x # w => worker'[x] = worker[x]
    BY <1>1, <1>2 DEF WorkerSet
  <1>4. At(o, "load", w) \in OpSet /\ At(o, "load", w).host = w /\ At(o, "load", w).stage = "load"
        /\ At(o, "load", w).kind = o.kind /\ At(o, "load", w).was = o.was /\ At(o, "load", w).to = o.to
    BY DEF At, OpSet, Stages
  <1>5. op'[p] = At(o, "load", w) /\ op' \in [Plugins -> OpSet] /\ host'[p] = w /\ host' \in [Plugins -> {0} \cup Workers]
        /\ \A q \in Plugins : q # p => host'[q] = host[q] /\ op'[q] = op[q]
    BY <1>1, <1>2, <1>4
  <1>6. Living(p)' = {w}
    BY <1>3 DEF Living, Asleep
  <1>7. Hooked(p, w)'
    BY <1>3 DEF Hooked, Asleep, NoShims
  <1>8. Runs(p, w)'
    BY <1>3, <1>5, <1>6, <1>7 DEF Runs, Asleep
  <1> QED BY <1>2, <1>3, <1>4, <1>5, <1>8

-----------------------------------------------------------------------------
(* The operations                                                           *)

\* An operation that ends with files the disk refused to write, move or remove: the plugin is not loaded.
LEMMA RefusedKeeps ==
    ASSUME LifeInv, NEW p \in Plugins, Asleep(p), NEW d \in Files, dir' = [dir EXCEPT ![p] = d],
           NEW b \in Files, backup' = [backup EXCEPT ![p] = b], plugin' = [plugin EXCEPT ![p] = NotLoaded],
           SetOp(p, NoOp), Refuses(p), UNCHANGED <<entry, host, worker, shims, provider, activeProvider, chosen, restarts>>
    PROVE  LifeInv'
  <1>1. Disk(p) /\ Shape /\ NoOp \in OpSet /\ NotLoaded \in PluginSet
    BY OpFields, PluginFields DEF LifeInv
  <1>2. /\ dir' \in [Plugins -> Files] /\ backup' \in [Plugins -> Files] /\ refused' \subseteq Plugins
        /\ \A q \in Plugins : q # p => dir'[q] = dir[q] /\ backup'[q] = backup[q] /\ (q \in refused' <=> q \in refused)
    BY <1>1 DEF Shape, Refuses
  <1>3. /\ plugin' \in [Plugins -> PluginSet] /\ plugin'[p] = NotLoaded /\ op' \in [Plugins -> OpSet] /\ op'[p] = NoOp
        /\ \A q \in Plugins : q # p => plugin'[q] = plugin[q] /\ op'[q] = op[q]
    BY <1>1 DEF Shape, SetOp
  <1>4. Shape'
    BY <1>1, <1>2, <1>3 DEF Shape
  <1>5. TouchesOnly(p)
    BY <1>2, <1>3 DEF TouchesOnly
  <1>6. Asleep(p)' /\ ~Enabled(p)' /\ ~Loaded(p)'
    BY <1>3, PluginFields, Alike DEF Enabled, Loaded
  <1>7. Phase(p)'
    BY <1>3, <1>6, OpFields DEF Phase, Enabling
  <1>8. p \in refused' /\ Kept(p)' = chosen'[p]
    BY <1>1 DEF Refuses, Kept, Disk
  <1>9. Disk(p)'
    BY <1>3, <1>6, <1>8, OpFields DEF Disk
  <1> QED BY <1>4, <1>5, <1>7, <1>9, LocalStep, PluginAssumption DEF LifeInv, Searched

LEMMA InstallKeeps == ASSUME LifeInv, NEW p \in Plugins, NEW v \in Versions, Install(p, v) PROVE LifeInv'
  <1>1. /\ Free(p) /\ ~Loaded(p) /\ UNCHANGED <<backup, host, worker, shims, provider, activeProvider, op, chosen, restarts>>
    BY DEF Install
  <1>2. Phase(p) /\ Disk(p) /\ Shape /\ op[p] = NoOp /\ op[p].stage = "none" /\ Asleep(p)
    BY <1>1, WhenFree DEF LifeInv, Free, Enabled, Loaded
  <1>3. CASE dir' = [dir EXCEPT ![p] = v] /\ Loads(p, v) /\ Keeps(p)
    <2>1. /\ plugin' \in [Plugins -> PluginSet] /\ entry' \in [Plugins -> EntrySet]
          /\ plugin'[p].status = "INSTALLED" /\ plugin'[p].version = v /\ plugin'[p].settings = chosen'[p]
          /\ entry'[p] # NoEntry /\ Kept(p)' = chosen'[p] /\ Loaded(p)' /\ ~Enabled(p)'
          /\ \A q \in Plugins : q # p => plugin'[q] = plugin[q] /\ entry'[q] = entry[q]
      BY <1>1, <1>3, LoadedNow
    <2>2. /\ dir' \in [Plugins -> Files] /\ dir'[p] = v /\ refused' \subseteq Plugins /\ p \notin refused'
          /\ \A q \in Plugins : q # p => dir'[q] = dir[q] /\ (q \in refused' <=> q \in refused)
      BY <1>2, <1>3 DEF Shape, Keeps, Files
    <2>3. Shape'
      BY <1>1, <1>2, <2>1, <2>2 DEF Shape
    <2>4. TouchesOnly(p)
      BY <1>1, <2>1, <2>2 DEF TouchesOnly
    <2>5. Asleep(p)'
      BY <1>1, <1>2, Alike
    <2>6. Phase(p)'
      BY <1>1, <1>2, <2>1, <2>5 DEF Phase, Enabling
    <2>7. Disk(p)'
      BY <1>1, <1>2, <2>1, <2>2, OpFields DEF Disk
    <2> QED BY <1>1, <2>3, <2>4, <2>6, <2>7, LocalStep, PluginAssumption DEF LifeInv, Searched
  <1>4. CASE /\ \E left \in Remains(v) : dir' = [dir EXCEPT ![p] = left]
             /\ Refuses(p) /\ UNCHANGED <<plugin, entry>>
    <2>1. PICK d \in Files : dir' = [dir EXCEPT ![p] = d]
      BY <1>4 DEF Remains, Files
    <2>2. backup[p] \in Files /\ backup' = [backup EXCEPT ![p] = backup[p]]
      BY <1>1, <1>2 DEF Shape
    <2>3. plugin[p] = NotLoaded
      BY <1>1, <1>2, PluginFields DEF Shape, Loaded
    <2>4. plugin' = [plugin EXCEPT ![p] = NotLoaded] /\ SetOp(p, NoOp)
      BY <1>1, <1>2, <1>4, <2>3 DEF Shape, SetOp
    <2> QED BY <1>1, <1>2, <1>4, <2>1, <2>2, <2>4, RefusedKeeps
  <1> QED BY <1>3, <1>4 DEF Install

LEMMA ConfigureKeeps == ASSUME LifeInv, NEW p \in Plugins, NEW s \in Settings, Configure(p, s) PROVE LifeInv'
  <1> DEFINE x == [plugin[p] EXCEPT !.settings = s]
             y == [entry[p] EXCEPT !.settings = s]
  <1>1. /\ Loaded(p) /\ chosen' = [chosen EXCEPT ![p] = s] /\ plugin' = [plugin EXCEPT ![p].settings = s]
        /\ entry' = [entry EXCEPT ![p].settings = IF entry[p].status = "absent" THEN @ ELSE s]
        /\ UNCHANGED <<dir, backup, host, worker, shims, provider, activeProvider, op, refused, restarts>>
    BY DEF Configure
  <1>2. Phase(p) /\ Disk(p) /\ entry[p] # NoEntry /\ Shape
    BY <1>1 DEF LifeInv, Disk
  <1>3. plugin[p] \in [status : Statuses, version : Versions, settings : Settings]
    BY <1>1, <1>2 DEF Shape, Loaded, PluginSet, NotLoaded
  <1>4. entry[p] \in [status : Statuses, settings : Settings] /\ entry[p].status # "absent"
    BY <1>2 DEF Shape, EntrySet, Statuses
  <1>5. x \in PluginSet /\ x.settings = s /\ x.status = plugin[p].status /\ x.version = plugin[p].version
    BY <1>3 DEF PluginSet
  <1>6. y \in EntrySet /\ y.settings = s /\ y.status = entry[p].status /\ y # NoEntry
    BY <1>4 DEF EntrySet, NoEntry
  <1>7. plugin' = [plugin EXCEPT ![p] = x] /\ entry' = [entry EXCEPT ![p] = y]
    BY <1>1, <1>4
  <1> HIDE DEF x, y
  <1>8. plugin'[p] = x /\ entry'[p] = y /\ chosen'[p] = s /\ plugin' \in [Plugins -> PluginSet] /\ entry' \in [Plugins -> EntrySet]
        /\ \A q \in Plugins : q # p => plugin'[q] = plugin[q] /\ entry'[q] = entry[q] /\ chosen'[q] = chosen[q]
    <2>1. plugin'[p] = x /\ plugin' \in [Plugins -> PluginSet] /\ \A q \in Plugins : q # p => plugin'[q] = plugin[q]
      BY <1>2, <1>5, <1>7 DEF Shape
    <2>2. entry'[p] = y /\ entry' \in [Plugins -> EntrySet] /\ \A q \in Plugins : q # p => entry'[q] = entry[q]
      BY <1>2, <1>6, <1>7 DEF Shape
    <2>3. chosen'[p] = s /\ \A q \in Plugins : q # p => chosen'[q] = chosen[q]
      BY <1>1, <1>2 DEF Shape
    <2> QED BY <2>1, <2>2, <2>3
  <1>9. Shape'
    BY <1>1, <1>2, <1>8 DEF Shape
  <1>10. TouchesOnly(p)
    BY <1>1, <1>8 DEF TouchesOnly
  <1>11. (Enabled(p)' <=> Enabled(p)) /\ (Loaded(p)' <=> Loaded(p)) /\ Kept(p)' = chosen'[p]
    BY <1>4, <1>5, <1>6, <1>8 DEF Enabled, Loaded, Kept
  <1>12. Phase(p)'
    BY <1>1, <1>2, <1>11, Alike DEF Phase
  <1>13. Disk(p)'
    BY <1>1, <1>2, <1>5, <1>6, <1>8, <1>11 DEF Disk
  <1> QED BY <1>1, <1>9, <1>10, <1>12, <1>13, LocalStep, PluginAssumption DEF LifeInv, Searched

LEMMA EnableKeeps == ASSUME LifeInv, NEW p \in Plugins, Enable(p) PROVE LifeInv'
  <1> DEFINE o == Operation("enable", FALSE, "none")
  <1>1. /\ Free(p) /\ Loaded(p) /\ ~Enabled(p) /\ Spawn(p, o)
        /\ UNCHANGED <<dir, backup, plugin, entry, shims, provider, activeProvider, chosen, refused, restarts>>
    BY DEF Enable
  <1>2. Asleep(p) /\ plugin[p].version = dir[p] /\ p \notin refused /\ Disk(p)
    BY <1>1, WhenFree DEF LifeInv
  <1>3. o \in OpSet /\ o.kind = "enable"
    BY DEF Operation, OpSet, Stages
  <1> HIDE DEF o
  <1>4. /\ host' \in [Plugins -> {0} \cup Workers] /\ worker' \in [Workers -> WorkerSet] /\ op' \in [Plugins -> OpSet]
        /\ \A q \in Plugins : q # p => host'[q] = host[q] /\ op'[q] = op[q]
        /\ \A w \in Workers : worker'[w] = worker[w] \/ (worker[w].of = "none" /\ worker'[w].of = p /\ worker'[w].state = "up")
        /\ op'[p] \in OpSet /\ op'[p].kind = "enable" /\ op'[p].stage = "load"
        /\ \E w \in Workers : op'[p].host = w /\ Runs(p, w)'
    BY <1>1, <1>2, <1>3, SpawnWakes
  <1>5. Shape'
    BY <1>1, <1>4 DEF LifeInv, Shape
  <1>6. TouchesOnly(p)
    BY <1>1, <1>4 DEF TouchesOnly
  <1>7. Phase(p)'
    BY <1>4 DEF Phase, Enabling, EnableKinds
  <1>8. Loaded(p)' /\ Kept(p)' = Kept(p)
    BY <1>1 DEF Loaded, Kept
  <1>9. Disk(p)'
    BY <1>1, <1>2, <1>4, <1>8 DEF Disk
  <1> QED BY <1>1, <1>5, <1>6, <1>7, <1>9, LocalStep, PluginAssumption DEF LifeInv, Searched

\* A step of an enable that is not the last.
LEMMA EnableGoesOn ==
    ASSUME LifeInv, NEW p \in Plugins, NEW s \in {"onLoad", "onEnable"}, op[p].stage \in Enabling, op[p].kind \in EnableKinds,
           worker[op[p].host].state = "up", SetOp(p, At(op[p], s, op[p].host)),
           UNCHANGED <<dir, backup, plugin, entry, host, worker, shims, provider, activeProvider, chosen, refused, restarts>>
    PROVE  LifeInv'
  <1> DEFINE o == At(op[p], s, op[p].host)
  <1>1. Phase(p) /\ Disk(p) /\ op \in [Plugins -> OpSet] /\ op[p] \in OpSet /\ op[p].host \in {0} \cup Workers
    BY DEF LifeInv, Shape, OpSet
  <1>2. o \in OpSet /\ o.stage = s /\ o.host = op[p].host /\ o.kind = op[p].kind /\ o.to = op[p].to
    BY <1>1 DEF At, OpSet, Stages
  <1>3. op' = [op EXCEPT ![p] = o]
    BY DEF SetOp
  <1> HIDE DEF o
  <1>4. op' \in [Plugins -> OpSet] /\ op'[p] = o /\ \A q \in Plugins : q # p => op'[q] = op[q]
    BY <1>1, <1>2, <1>3
  <1>5. Shape'
    BY <1>4 DEF LifeInv, Shape
  <1>6. TouchesOnly(p)
    BY <1>4 DEF TouchesOnly
  <1>7. Runs(p, o.host) /\ s \in Enabling
    BY <1>1, <1>2 DEF Phase, Crashed, Enabling
  <1>8. PICK w \in Workers : w = o.host /\ Runs(p, w)
    BY <1>7 DEF Runs
  <1>9. Runs(p, w)' /\ op'[p].host = w /\ op'[p].stage = s /\ op'[p].kind = op[p].kind
    BY <1>2, <1>4, <1>8, Alike
  <1>10. Phase(p)'
    BY <1>7, <1>9 DEF Phase, Enabling
  <1>11. Disk(p)'
    BY <1>1, <1>2, <1>4, <1>7 DEF Disk, Loaded, Kept, Enabling
  <1> QED BY <1>5, <1>6, <1>10, <1>11, LocalStep, PluginAssumption DEF LifeInv, Searched

\* The last step: the plugin is enabled.
LEMMA EnableIsDone ==
    ASSUME LifeInv, NEW p \in Plugins, op[p].stage \in Enabling, worker[op[p].host].state = "up",
           SetOp(p, NoOp), SetStatus(p, "ENABLED"), NEW b \in Files, backup' = [backup EXCEPT ![p] = b],
           UNCHANGED <<dir, host, worker, shims, provider, activeProvider, chosen, refused, restarts>>
    PROVE  LifeInv'
  <1>1. Phase(p) /\ Disk(p) /\ Loaded(p) /\ Shape /\ op[p].stage # "rollback"
    BY DEF LifeInv, Disk, Enabling
  <1>2. op' \in [Plugins -> OpSet] /\ op'[p] = NoOp /\ \A q \in Plugins : q # p => op'[q] = op[q]
    BY <1>1, OpFields DEF Shape, SetOp
  <1>3. backup' \in [Plugins -> Files] /\ \A q \in Plugins : q # p => backup'[q] = backup[q]
    BY <1>1 DEF Shape
  <1>4. "ENABLED" \in Statuses
    BY DEF Statuses
  <1>5. /\ plugin' \in [Plugins -> PluginSet] /\ entry' \in [Plugins -> EntrySet] /\ plugin'[p].status = "ENABLED"
        /\ \A q \in Plugins : q # p => plugin'[q] = plugin[q] /\ entry'[q] = entry[q]
    BY <1>1, <1>4, StatusSet
  <1>6. Shape'
    BY <1>1, <1>2, <1>3, <1>5 DEF Shape
  <1>7. TouchesOnly(p)
    BY <1>2, <1>3, <1>5 DEF TouchesOnly
  <1>8. PICK w \in Workers : w = host[p] /\ Runs(p, w)
    BY <1>1 DEF Phase, Runs, Crashed, Enabling
  <1>9. Runs(p, w)' /\ host'[p] = w /\ Enabled(p)' /\ op'[p] = NoOp
    BY <1>2, <1>5, <1>8, Alike DEF Enabled
  <1>10. Phase(p)'
    BY <1>9, OpFields DEF Phase, Enabling
  <1>11. Disk(p)'
    BY <1>1, <1>2, <1>4, OpFields, StatusKeepsDisk
  <1> QED BY <1>6, <1>7, <1>10, <1>11, LocalStep, PluginAssumption DEF LifeInv, Searched

\* The last step of an update that cannot drop its backup: the plugin is enabled, and taken down again.
LEMMA EnableIsUndone ==
    ASSUME LifeInv, NEW p \in Plugins, op[p].stage \in Enabling, worker[op[p].host].state = "up",
           AsksToDisable(p, [op[p] EXCEPT !.kind = "undo"]), SetStatus(p, "ENABLED"),
           NEW b \in Files, backup' = [backup EXCEPT ![p] = b],
           UNCHANGED <<dir, host, worker, shims, provider, activeProvider, chosen, refused, restarts>>
    PROVE  LifeInv'
  <1> DEFINE o == At([op[p] EXCEPT !.kind = "undo"], "onDisable", host[p])
  <1>1. Phase(p) /\ Disk(p) /\ Loaded(p) /\ Shape /\ op[p].stage # "rollback" /\ op[p] \in OpSet /\ host[p] \in {0} \cup Workers
    BY DEF LifeInv, Disk, Enabling, Shape
  <1>2. o \in OpSet /\ o.stage = "onDisable" /\ o.host = host[p] /\ o.kind = "undo"
    BY <1>1 DEF At, OpSet, Stages
  <1>3. op' = [op EXCEPT ![p] = o]
    BY DEF AsksToDisable, SetOp
  <1> HIDE DEF o
  <1>4. op' \in [Plugins -> OpSet] /\ op'[p] = o /\ \A q \in Plugins : q # p => op'[q] = op[q]
    BY <1>1, <1>2, <1>3 DEF Shape
  <1>5. backup' \in [Plugins -> Files] /\ \A q \in Plugins : q # p => backup'[q] = backup[q]
    BY <1>1 DEF Shape
  <1>6. "ENABLED" \in Statuses
    BY DEF Statuses
  <1>7. /\ plugin' \in [Plugins -> PluginSet] /\ entry' \in [Plugins -> EntrySet]
        /\ \A q \in Plugins : q # p => plugin'[q] = plugin[q] /\ entry'[q] = entry[q]
    BY <1>1, <1>6, StatusSet
  <1>8. Shape'
    BY <1>1, <1>4, <1>5, <1>7 DEF Shape
  <1>9. TouchesOnly(p)
    BY <1>4, <1>5, <1>7 DEF TouchesOnly
  <1>10. PICK w \in Workers : w = host[p] /\ Runs(p, w)
    BY <1>1 DEF Phase, Runs, Crashed, Enabling
  <1>11. Runs(p, w)' /\ op'[p].host = w /\ op'[p].stage = "onDisable" /\ op'[p].kind = "undo"
    BY <1>2, <1>4, <1>10, Alike
  <1>12. Phase(p)'
    BY <1>11 DEF Phase, Enabling
  <1>13. Disk(p)'
    BY <1>1, <1>2, <1>4, <1>6, StatusKeepsDisk
  <1> QED BY <1>8, <1>9, <1>12, <1>13, LocalStep, PluginAssumption DEF LifeInv, Searched

LEMMA EnableStepKeeps == ASSUME LifeInv, NEW p \in Plugins, EnableStep(p) PROVE LifeInv'
  <1>1. op[p].kind \in EnableKinds /\ op[p].stage \in Enabling /\ worker[op[p].host].state = "up"
        /\ UNCHANGED <<dir, host, worker, shims, provider, activeProvider, chosen, refused, restarts>>
    BY DEF EnableStep, Enabling
  <1>2. DOMAIN After = {"load", "onLoad"} /\ After["load"] = "onLoad" /\ After["onLoad"] = "onEnable"
    BY DEF After
  <1>3. CASE op[p].stage \in DOMAIN After /\ SetOp(p, At(op[p], After[op[p].stage], op[p].host)) /\ UNCHANGED <<plugin, entry, backup>>
    <2>1. PICK s \in {"onLoad", "onEnable"} : s = After[op[p].stage]
      BY <1>2, <1>3
    <2>2. SetOp(p, At(op[p], s, op[p].host)) /\ UNCHANGED <<plugin, entry, backup>>
      BY <1>3, <2>1
    <2> QED BY <1>1, <2>2, EnableGoesOn
  <1>4. CASE /\ SetStatus(p, "ENABLED") /\ SetOp(p, NoOp)
             /\ backup' = [backup EXCEPT ![p] = IF op[p].kind = "update" THEN "none" ELSE @]
    <2>1. PICK b \in Files : b = IF op[p].kind = "update" THEN "none" ELSE backup[p]
      BY DEF LifeInv, Shape, Files
    <2>2. backup' = [backup EXCEPT ![p] = b]
      BY <1>4, <2>1
    <2> QED BY <1>1, <1>4, <2>2, EnableIsDone
  <1>5. CASE /\ SetStatus(p, "ENABLED") /\ AsksToDisable(p, [op[p] EXCEPT !.kind = "undo"])
             /\ \E left \in Remains(backup[p]) : backup' = [backup EXCEPT ![p] = left]
    <2>1. PICK b \in Files : backup' = [backup EXCEPT ![p] = b]
      <3>1. backup[p] \in Files
        BY DEF LifeInv, Shape
      <3> QED BY <1>5, <3>1 DEF Remains, Files
    <2> QED BY <1>1, <1>5, <2>1, EnableIsUndone
  <1> QED BY <1>1, <1>3, <1>4, <1>5 DEF EnableStep

-----------------------------------------------------------------------------
(* A worker that is killed                                                  *)

\* Killing a worker that runs leaves it dying; one that has crashed is left as it is.
LEMMA KillLeavesDying ==
    ASSUME LifeInv, NEW p \in Plugins, NEW w \in Workers, Runs(p, w) \/ Crashed(p, w), shims' = shims,
           worker' = [worker EXCEPT ![w].state = IF @ = "up" THEN "killed" ELSE @], provider'[p] \in {0, provider[p]}
    PROVE  /\ worker' \in [Workers -> WorkerSet] /\ Dying(p, w)' /\ (w \in Living(p)' => Runs(p, w))
           /\ \A x \in Workers : worker'[x] = worker[x] \/ (worker[x].of = p /\ worker'[x].of = p /\ worker'[x].state # "unborn")
  <1>1. worker \in [Workers -> WorkerSet] /\ worker[w] \in WorkerSet /\ shims \in [Plugins -> [PluginEvents -> Nat]] /\ worker[w].of = p
    BY DEF LifeInv, Shape, Runs, Crashed, Living
  <1> DEFINE s == IF worker[w].state = "up" THEN "killed" ELSE worker[w].state
             n == [worker[w] EXCEPT !.state = s]
  <1>2. n \in WorkerSet /\ n.of = p /\ n.state = s /\ n.subscribed = worker[w].subscribed
    BY <1>1 DEF WorkerSet
  <1>3. worker' = [worker EXCEPT ![w] = n]
    BY <1>1
  <1>4. s # "up" /\ (s = "killed" <=> worker[w].state \in {"up", "killed"}) /\ (worker[w].state = "exited" => s = "exited")
        /\ (worker[w].state = "up" => s = "killed")
    OBVIOUS
  <1> HIDE DEF n, s
  <1>5. worker' \in [Workers -> WorkerSet] /\ worker'[w] = n /\ \A x \in Workers : x # w => worker'[x] = worker[x]
    BY <1>1, <1>2, <1>3
  <1>6. Living(p)' = Living(p)
    BY <1>1, <1>2, <1>4, <1>5 DEF Living, WorkerSet, Runs, Crashed, Asleep
  <1>7. Hooked(p, w)' <=> Hooked(p, w)
    BY <1>2, <1>5 DEF Hooked
  <1>8. CASE Runs(p, w)
    <2>1. w \in Living(p) /\ Living(p) = {w} /\ Hooked(p, w)' /\ worker'[w].state = "killed" /\ provider'[p] \in {0, w}
      BY <1>2, <1>4, <1>5, <1>7, <1>8 DEF Runs
    <2>2. \A e \in PluginEvents : shims'[p][e] <= 1
      BY <2>1 DEF Hooked
    <2>3. Dying(p, w)'
      BY <1>2, <1>5, <1>6, <2>1, <2>2 DEF Dying
    <2> QED BY <1>2, <1>5, <1>8, <2>1, <2>3, <1>1
  <1>9. CASE Crashed(p, w)
    <2>1. Living(p)' = {} /\ worker'[w].state = "exited" /\ provider'[p] = 0
      BY <1>2, <1>4, <1>5, <1>6, <1>9 DEF Crashed, Asleep
    <2>2. \A e \in PluginEvents : shims'[p][e] <= 1
      BY <1>9 DEF Crashed, Asleep, NoShims
    <2>3. Dying(p, w)'
      BY <1>2, <1>5, <2>1, <2>2 DEF Dying
    <2> QED BY <1>2, <1>5, <2>1, <2>3, <1>1
  <1> QED BY <1>8, <1>9

\* What DropProvider() does.
LEMMA ProviderDropped ==
    ASSUME LifeInv, NEW p \in Plugins, DropProvider(p)
    PROVE  /\ provider' \in [Plugins -> {0} \cup Workers] /\ provider'[p] = 0
           /\ \A q \in Plugins : q # p => provider'[q] = provider[q]
           /\ activeProvider' \in {"builtin"} \cup Plugins /\ activeProvider' \in {activeProvider, "builtin"} /\ activeProvider' # p
  BY PluginAssumption DEF DropProvider, LifeInv, Shape

LEMMA EnableFailsKeeps == ASSUME LifeInv, NEW p \in Plugins, EnableFails(p) PROVE LifeInv'
  <1> DEFINE o == At(op[p], "scrap", op[p].host)
  <1>1. /\ op[p].kind \in EnableKinds /\ op[p].stage \in Enabling /\ host' = [host EXCEPT ![p] = 0] /\ DropProvider(p)
        /\ worker' = [worker EXCEPT ![op[p].host].state = IF @ = "up" THEN "killed" ELSE @] /\ op' = [op EXCEPT ![p] = o]
        /\ UNCHANGED <<dir, backup, plugin, entry, shims, chosen, refused, restarts>>
    BY DEF EnableFails, Enabling, SetOp
  <1>2. Phase(p) /\ Disk(p) /\ Shape /\ op[p] \in OpSet
    BY DEF LifeInv, Shape
  <1>3. o \in OpSet /\ o.stage = "scrap" /\ o.host = op[p].host /\ o.kind = op[p].kind /\ o.to = op[p].to
    BY <1>2 DEF At, OpSet, Stages
  <1> HIDE DEF o
  <1>4. PICK w \in Workers : w = op[p].host /\ (Runs(p, w) \/ Crashed(p, w))
    BY <1>1, <1>2 DEF Phase, Runs, Crashed, Enabling
  <1>5. /\ provider' \in [Plugins -> {0} \cup Workers] /\ provider'[p] = 0
        /\ \A q \in Plugins : q # p => provider'[q] = provider[q]
        /\ activeProvider' \in {"builtin"} \cup Plugins /\ activeProvider' \in {activeProvider, "builtin"} /\ activeProvider' # p
    BY <1>1, ProviderDropped
  <1>6. worker' = [worker EXCEPT ![w].state = IF @ = "up" THEN "killed" ELSE @]
    BY <1>1, <1>4
  <1>7. /\ worker' \in [Workers -> WorkerSet] /\ Dying(p, w)'
        /\ \A x \in Workers : worker'[x] = worker[x] \/ (worker[x].of = p /\ worker'[x].of = p /\ worker'[x].state # "unborn")
    BY <1>1, <1>4, <1>5, <1>6, KillLeavesDying
  <1>8. op' \in [Plugins -> OpSet] /\ op'[p] = o /\ host' \in [Plugins -> {0} \cup Workers] /\ host'[p] = 0
        /\ \A q \in Plugins : q # p => op'[q] = op[q] /\ host'[q] = host[q]
    BY <1>1, <1>2, <1>3 DEF Shape
  <1>9. Shape'
    BY <1>1, <1>2, <1>5, <1>7, <1>8 DEF Shape
  <1>10. TouchesOnly(p)
    BY <1>1, <1>5, <1>7, <1>8 DEF TouchesOnly
  <1>11. Phase(p)'
    <2>1. op'[p].stage = "scrap" /\ op'[p].host = w /\ op'[p].kind \in EnableKinds
      BY <1>1, <1>3, <1>4, <1>8
    <2> QED BY <1>5, <1>7, <1>8, <2>1 DEF Phase, Enabling
  <1>12. Disk(p)'
    BY <1>1, <1>2, <1>3, <1>8 DEF Disk, Loaded, Kept, Enabling
  <1> QED BY <1>5, <1>9, <1>10, <1>11, <1>12, LocalStep

\* Nobody runs any more once the worker that was dying is gone.
LEMMA DeadSleeps ==
    ASSUME LifeInv, NEW p \in Plugins, NEW w \in Workers, Dying(p, w), ~Alive(w), worker' = worker,
           host'[p] = 0, provider'[p] = 0, shims'[p] = NoShims
    PROVE  Asleep(p)'
  <1>1. w # 0 /\ w \notin Living(p)
    BY PluginAssumption DEF Alive, Living, Workers
  <1>2. Living(p)' = {}
    BY <1>1 DEF Dying, Living
  <1> QED BY <1>2 DEF Asleep

\* Both ends of a worker that is gone: what its operation does to the plugin.
LEMMA TakenDown ==
    ASSUME LifeInv, NEW p \in Plugins, NEW w \in Workers, Dying(p, w), ~Alive(w), op[p].stage \in {"scrap", "terminate"},
           NEW s \in {"ERROR", "DISABLED"}, SetStatus(p, s), UnregisterHooks(p), NEW o \in OpSet, SetOp(p, o),
           o # NoOp => /\ o.kind = op[p].kind /\ o.to = op[p].to /\ o.stage \in {"unload", "rollback"}
                       /\ o.stage = "unload" => o.kind \in {"uninstall", "update"}
                       /\ o.stage = "rollback" => o.kind \in Undoes,
           host' \in [Plugins -> {0} \cup Workers], host'[p] = 0, \A q \in Plugins : q # p => host'[q] = host[q],
           provider' \in [Plugins -> {0} \cup Workers], provider'[p] = 0, \A q \in Plugins : q # p => provider'[q] = provider[q],
           activeProvider' \in {"builtin"} \cup Plugins, activeProvider' \in {activeProvider, "builtin"}, activeProvider' # p,
           UNCHANGED <<dir, backup, worker, chosen, refused, restarts>>
    PROVE  LifeInv'
  <1>1. Phase(p) /\ Disk(p) /\ Shape /\ Loaded(p) /\ s \in Statuses
    BY DEF LifeInv, Disk, Statuses
  <1>2. op' \in [Plugins -> OpSet] /\ op'[p] = o /\ \A q \in Plugins : q # p => op'[q] = op[q]
    BY <1>1 DEF Shape, SetOp
  <1>3. NoShims \in [PluginEvents -> Nat]
    BY DEF NoShims
  <1>4. shims' \in [Plugins -> [PluginEvents -> Nat]] /\ shims'[p] = NoShims /\ \A q \in Plugins : q # p => shims'[q] = shims[q]
    BY <1>1, <1>3 DEF Shape, UnregisterHooks
  <1>5. /\ plugin' \in [Plugins -> PluginSet] /\ entry' \in [Plugins -> EntrySet] /\ plugin'[p].status = s
        /\ \A q \in Plugins : q # p => plugin'[q] = plugin[q] /\ entry'[q] = entry[q]
    BY <1>1, StatusSet
  <1>6. Shape'
    BY <1>1, <1>2, <1>4, <1>5 DEF Shape
  <1>7. TouchesOnly(p)
    BY <1>2, <1>4, <1>5 DEF TouchesOnly
  <1>8. Asleep(p)' /\ ~Enabled(p)'
    BY <1>4, <1>5, DeadSleeps DEF Enabled
  <1>9. Phase(p)'
    BY <1>2, <1>8, OpFields DEF Phase, Enabling
  <1>10. Disk(p)'
    <2>1. o.kind = "update" => op[p].kind = "update" /\ o.to = op[p].to
      BY OpFields
    <2> QED BY <1>1, <1>2, <2>1, StatusKeepsDisk
  <1> QED BY <1>6, <1>7, <1>9, <1>10, LocalStep

LEMMA GivesUpKeeps == ASSUME LifeInv, NEW p \in Plugins, EnableGivesUp(p) PROVE LifeInv'
  <1> DEFINE o == IF op[p].kind = "update" THEN At(op[p], "rollback", op[p].host) ELSE NoOp
  <1>1. /\ op[p].stage = "scrap" /\ ~Alive(op[p].host) /\ SetStatus(p, "ERROR") /\ UnregisterHooks(p) /\ SetOp(p, o)
        /\ UNCHANGED <<dir, backup, host, worker, provider, activeProvider, chosen, refused, restarts>>
    BY DEF EnableGivesUp, AtStage
  <1>2. Phase(p) /\ Shape /\ op[p] \in OpSet
    BY DEF LifeInv, Shape
  <1>3. o \in OpSet /\ (o = NoOp \/ (o.kind = op[p].kind /\ o.to = op[p].to /\ o.stage = "rollback" /\ o.kind \in Undoes))
    BY <1>2, OpFields DEF At, OpSet, Stages, Undoes
  <1> HIDE DEF o
  <1>4. PICK w \in Workers : w = op[p].host /\ Dying(p, w)
    BY <1>1, <1>2 DEF Phase, Dying
  <1>5. host[p] = 0 /\ provider[p] = 0
    BY <1>1, <1>2 DEF Phase
  <1>6. activeProvider \in {"builtin"} \cup Plugins /\ activeProvider # p
    BY <1>2, <1>5 DEF LifeInv, Shape, Searched
  <1>7. ~Alive(w) /\ "ERROR" \in {"ERROR", "DISABLED"}
    BY <1>1, <1>4
  <1> QED BY <1>1, <1>2, <1>3, <1>4, <1>5, <1>6, <1>7, TakenDown DEF Shape

LEMMA DisabledKeeps == ASSUME LifeInv, NEW p \in Plugins, Disabled(p) PROVE LifeInv'
  <1> DEFINE o == AfterDisable(op[p])
  <1>1. /\ op[p].stage = "terminate" /\ ~Alive(op[p].host) /\ SetStatus(p, "DISABLED") /\ UnregisterHooks(p) /\ SetOp(p, o)
        /\ host' = [host EXCEPT ![p] = 0] /\ DropProvider(p) /\ UNCHANGED <<dir, backup, worker, chosen, refused, restarts>>
    BY DEF Disabled
  <1>2. Phase(p) /\ Shape /\ op[p] \in OpSet
    BY DEF LifeInv, Shape
  <1>3. op[p].kind \in {"disable", "uninstall", "update", "undo"}
    BY <1>1, <1>2 DEF Phase
  <1>4. /\ o \in OpSet
        /\ o # NoOp => /\ o.kind = op[p].kind /\ o.to = op[p].to
                       /\ \/ o.stage = "unload" /\ o.kind \in {"uninstall", "update"}
                          \/ o.stage = "rollback" /\ o.kind \in Undoes
    BY <1>2, <1>3, OpFields DEF AfterDisable, At, OpSet, Stages, Undoes
  <1> HIDE DEF o
  <1>5. PICK w \in Workers : w = op[p].host /\ Dying(p, w)
    BY <1>1, <1>2 DEF Phase, Dying
  <1>6. host' \in [Plugins -> {0} \cup Workers] /\ host'[p] = 0 /\ \A q \in Plugins : q # p => host'[q] = host[q]
    BY <1>1, <1>2 DEF Shape
  <1>7. /\ provider' \in [Plugins -> {0} \cup Workers] /\ provider'[p] = 0
        /\ \A q \in Plugins : q # p => provider'[q] = provider[q]
        /\ activeProvider' \in {"builtin"} \cup Plugins /\ activeProvider' \in {activeProvider, "builtin"} /\ activeProvider' # p
    BY <1>1, ProviderDropped
  <1>8. ~Alive(w) /\ "DISABLED" \in {"ERROR", "DISABLED"}
    BY <1>1, <1>5
  <1>9. o \in OpSet /\ op[p].stage \in {"scrap", "terminate"}
    BY <1>1, <1>4
  <1>10. o # NoOp => /\ o.kind = op[p].kind /\ o.to = op[p].to /\ o.stage \in {"unload", "rollback"}
                     /\ o.stage = "unload" => o.kind \in {"uninstall", "update"}
                     /\ o.stage = "rollback" => o.kind \in Undoes
    BY <1>4
  <1> QED BY <1>1, <1>5, <1>6, <1>7, <1>8, <1>9, <1>10, TakenDown

LEMMA KillKeeps == ASSUME LifeInv, NEW p \in Plugins, Kill(p) PROVE LifeInv'
  <1> DEFINE o == At(op[p], "terminate", op[p].host)
  <1>1. /\ op[p].stage = "onDisable" /\ worker' = [worker EXCEPT ![op[p].host].state = IF @ = "up" THEN "killed" ELSE @]
        /\ op' = [op EXCEPT ![p] = o]
        /\ UNCHANGED <<dir, backup, plugin, entry, host, shims, provider, activeProvider, chosen, refused, restarts>>
    BY DEF Kill, SetOp
  <1>2. Phase(p) /\ Disk(p) /\ Shape /\ op[p] \in OpSet /\ provider[p] \in {0} \cup Workers
    BY DEF LifeInv, Shape
  <1>3. o \in OpSet /\ o.stage = "terminate" /\ o.host = op[p].host /\ o.kind = op[p].kind /\ o.to = op[p].to
    BY <1>2 DEF At, OpSet, Stages
  <1> HIDE DEF o
  <1>4. PICK w \in Workers : w = op[p].host /\ (Runs(p, w) \/ Crashed(p, w))
    BY <1>1, <1>2 DEF Phase, Runs, Crashed, Enabling
  <1>5. worker' = [worker EXCEPT ![w].state = IF @ = "up" THEN "killed" ELSE @]
    BY <1>1, <1>4
  <1>6. /\ worker' \in [Workers -> WorkerSet] /\ Dying(p, w)' /\ (w \in Living(p)' => Runs(p, w))
        /\ \A x \in Workers : worker'[x] = worker[x] \/ (worker[x].of = p /\ worker'[x].of = p /\ worker'[x].state # "unborn")
    BY <1>1, <1>4, <1>5, KillLeavesDying
  <1>7. op' \in [Plugins -> OpSet] /\ op'[p] = o /\ \A q \in Plugins : q # p => op'[q] = op[q]
    BY <1>1, <1>2, <1>3 DEF Shape
  <1>8. Shape'
    BY <1>1, <1>2, <1>6, <1>7 DEF Shape
  <1>9. TouchesOnly(p)
    BY <1>1, <1>6, <1>7 DEF TouchesOnly
  <1>10. host'[p] \in {0, w} /\ (w \in Living(p)' => host'[p] = w)
    BY <1>1, <1>4, <1>6 DEF Runs, Crashed, Asleep
  <1>11. Phase(p)'
    <2>1. op'[p].stage = "terminate" /\ op'[p].host = w /\ op'[p].kind \in {"disable", "uninstall", "update", "undo"}
      BY <1>1, <1>2, <1>3, <1>4, <1>7 DEF Phase
    <2> QED BY <1>6, <1>10, <2>1 DEF Phase, Enabling
  <1>12. Disk(p)'
    BY <1>1, <1>2, <1>3, <1>7 DEF Disk, Loaded, Kept, Enabling
  <1> QED BY <1>1, <1>8, <1>9, <1>11, <1>12, LocalStep, PluginAssumption DEF LifeInv, Searched

-----------------------------------------------------------------------------
(* Operations that begin, and what they do to the disk                      *)

\* An operation begins with asking the worker, or goes on with a plugin that has none.
LEMMA BeginningKeeps ==
    ASSUME LifeInv, NEW p \in Plugins, Free(p), Loaded(p), NEW o \in OpSet, op' = [op EXCEPT ![p] = o],
           \/ Enabled(p) /\ o.stage = "onDisable" /\ o.host = host[p] /\ o.kind \in {"disable", "uninstall", "update"}
           \/ ~Enabled(p) /\ o.stage = "unload" /\ o.kind \in {"uninstall", "update"},
           o.kind = "update" => o.to # "none",
           UNCHANGED <<dir, backup, plugin, entry, host, worker, shims, provider, activeProvider, chosen, refused, restarts>>
    PROVE  LifeInv'
  <1>1. /\ Phase(p) /\ Disk(p) /\ Shape /\ (Enabled(p) => Runs(p, host[p])) /\ (~Enabled(p) => Asleep(p))
        /\ plugin[p].version = dir[p] /\ p \notin refused
    BY WhenFree DEF LifeInv
  <1>2. op' \in [Plugins -> OpSet] /\ op'[p] = o /\ \A q \in Plugins : q # p => op'[q] = op[q]
    BY <1>1 DEF Shape
  <1>3. Shape' /\ TouchesOnly(p)
    BY <1>1, <1>2 DEF Shape, TouchesOnly
  <1>4. Phase(p)'
    <2>1. CASE Enabled(p)
      <3>1. PICK w \in Workers : w = host[p] /\ Runs(p, w)
        BY <1>1, <2>1 DEF Runs
      <3>2. Runs(p, w)' /\ op'[p].host = w /\ op'[p].stage = "onDisable" /\ op'[p].kind \in {"disable", "uninstall", "update"}
        BY <1>2, <2>1, <3>1, Alike
      <3> QED BY <3>2 DEF Phase, Enabling
    <2>2. CASE ~Enabled(p)
      <3>1. Asleep(p)' /\ op'[p].stage = "unload" /\ op'[p].kind \in {"uninstall", "update"}
        BY <1>1, <1>2, <2>2, Alike
      <3> QED BY <3>1 DEF Phase, Enabling
    <2> QED BY <2>1, <2>2
  <1>5. Disk(p)'
    BY <1>1, <1>2 DEF Disk, Loaded, Kept, Enabling
  <1> QED BY <1>3, <1>4, <1>5, LocalStep, PluginAssumption DEF LifeInv, Searched

LEMMA DisableKeeps == ASSUME LifeInv, NEW p \in Plugins, Disable(p) PROVE LifeInv'
  <1> DEFINE o == At(Operation("disable", FALSE, "none"), "onDisable", host[p])
  <1>1. /\ Free(p) /\ Enabled(p) /\ op' = [op EXCEPT ![p] = o]
        /\ UNCHANGED <<dir, backup, plugin, entry, host, worker, shims, provider, activeProvider, chosen, refused, restarts>>
    BY DEF Disable, AsksToDisable, SetOp
  <1>2. host[p] \in {0} \cup Workers
    BY DEF LifeInv, Shape
  <1>3. o \in OpSet /\ o.stage = "onDisable" /\ o.host = host[p] /\ o.kind = "disable"
    BY <1>2 DEF At, Operation, OpSet, Stages
  <1> HIDE DEF o
  <1>4. Loaded(p)
    BY <1>1 DEF Enabled, Loaded
  <1> QED BY <1>1, <1>3, <1>4, BeginningKeeps

LEMMA BeginsKeeps ==
    ASSUME LifeInv, NEW p \in Plugins, NEW k \in {"uninstall", "update"}, NEW b \in BOOLEAN, NEW v \in Versions \cup {"none"},
           k = "update" => v # "none", Begins(p, Operation(k, b, v))
    PROVE  LifeInv'
  <1> DEFINE o == IF Enabled(p) THEN At(Operation(k, b, v), "onDisable", host[p]) ELSE At(Operation(k, b, v), "unload", 0)
  <1>1. /\ Free(p) /\ Loaded(p) /\ op' = [op EXCEPT ![p] = o]
        /\ UNCHANGED <<dir, backup, plugin, entry, host, worker, shims, provider, activeProvider, chosen, refused, restarts>>
    BY DEF Begins, AsksToDisable, SetOp
  <1>2. host[p] \in {0} \cup Workers
    BY DEF LifeInv, Shape
  <1>3. o \in OpSet /\ o.kind = k /\ o.to = v
        /\ (Enabled(p) => o.stage = "onDisable" /\ o.host = host[p]) /\ (~Enabled(p) => o.stage = "unload")
    BY <1>2 DEF At, Operation, OpSet, Stages
  <1> HIDE DEF o
  <1> QED BY <1>1, <1>3, BeginningKeeps

LEMMA UninstalledKeeps == ASSUME LifeInv, NEW p \in Plugins, Uninstalled(p) PROVE LifeInv'
  <1>1. /\ op[p].stage = "unload" /\ plugin' = [plugin EXCEPT ![p] = NotLoaded] /\ entry' = [entry EXCEPT ![p] = NoEntry]
        /\ chosen' = [chosen EXCEPT ![p] = DefaultSettings] /\ op' = [op EXCEPT ![p] = NoOp]
        /\ UNCHANGED <<backup, host, worker, shims, provider, activeProvider, restarts>>
    BY DEF Uninstalled, AtStage, SetOp
  <1>2. Phase(p) /\ Shape /\ NoOp \in OpSet /\ NotLoaded \in PluginSet /\ NoEntry \in EntrySet /\ DefaultSettings \in Settings
    BY OpFields, PluginFields, SettingsAssumption DEF LifeInv
  <1>3. /\ plugin' \in [Plugins -> PluginSet] /\ entry' \in [Plugins -> EntrySet] /\ plugin'[p] = NotLoaded /\ entry'[p] = NoEntry
        /\ \A q \in Plugins : q # p => plugin'[q] = plugin[q] /\ entry'[q] = entry[q]
    BY <1>1, <1>2 DEF Shape
  <1>4. /\ chosen' \in [Plugins -> Settings] /\ op' \in [Plugins -> OpSet] /\ chosen'[p] = DefaultSettings /\ op'[p] = NoOp
        /\ \A q \in Plugins : q # p => chosen'[q] = chosen[q] /\ op'[q] = op[q]
    BY <1>1, <1>2 DEF Shape
  <1>5. PICK d \in Files : dir' = [dir EXCEPT ![p] = d] /\ ((d = "none" /\ Keeps(p)) \/ Refuses(p))
    <2>1. dir[p] \in Files /\ "none" \in Files /\ "broken" \in Files
      BY <1>2 DEF Shape, Files
    <2> QED BY <2>1 DEF Uninstalled, Remains
  <1>6. /\ dir' \in [Plugins -> Files] /\ refused' \subseteq Plugins
        /\ dir'[p] \in Versions => p \in refused'
        /\ \A q \in Plugins : q # p => dir'[q] = dir[q] /\ (q \in refused' <=> q \in refused)
    BY <1>2, <1>5, PluginAssumption DEF Shape, Keeps, Refuses
  <1>7. Shape'
    BY <1>1, <1>2, <1>3, <1>4, <1>6 DEF Shape
  <1>8. TouchesOnly(p)
    BY <1>1, <1>3, <1>4, <1>6 DEF TouchesOnly
  <1>9. Phase(p)'
    <2>1. Asleep(p)' /\ ~Enabled(p)'
      BY <1>1, <1>2, <1>3, PluginFields, Alike DEF Phase, Enabled
    <2> QED BY <1>4, <2>1, OpFields DEF Phase, Enabling
  <1>10. Disk(p)'
    <2>1. ~Loaded(p)' /\ Kept(p)' = DefaultSettings
      BY <1>3, PluginFields DEF Loaded, Kept
    <2> QED BY <1>4, <1>6, <2>1, OpFields DEF Disk
  <1> QED BY <1>1, <1>7, <1>8, <1>9, <1>10, LocalStep, PluginAssumption DEF LifeInv, Searched

\* A version is written and loaded where no worker runs, and the plugin is left disabled or its worker is spawned.
LEMMA ReplacedKeeps ==
    ASSUME LifeInv, NEW p \in Plugins, Asleep(p), NEW v \in Versions, dir' = [dir EXCEPT ![p] = v], Loads(p, v), Keeps(p),
           NEW b \in Files, backup' = [backup EXCEPT ![p] = b],
           NEW o \in OpSet, o.kind \in {"update", "restore"}, o.kind = "update" => o.to # "none",
           Spawn(p, o) \/ (SetOp(p, NoOp) /\ UNCHANGED <<host, worker>>),
           UNCHANGED <<shims, provider, activeProvider, chosen, restarts>>
    PROVE  LifeInv'
  <1>1. Shape
    BY DEF LifeInv
  <1>2. /\ plugin' \in [Plugins -> PluginSet] /\ entry' \in [Plugins -> EntrySet]
        /\ plugin'[p].status = "INSTALLED" /\ plugin'[p].version = v /\ plugin'[p].settings = chosen'[p]
        /\ entry'[p] # NoEntry /\ Kept(p)' = chosen'[p] /\ Loaded(p)' /\ ~Enabled(p)'
        /\ \A q \in Plugins : q # p => plugin'[q] = plugin[q] /\ entry'[q] = entry[q]
    BY LoadedNow
  <1>3. /\ dir' \in [Plugins -> Files] /\ backup' \in [Plugins -> Files] /\ refused' \subseteq Plugins
        /\ dir'[p] = v /\ p \notin refused'
        /\ \A q \in Plugins : q # p => dir'[q] = dir[q] /\ backup'[q] = backup[q] /\ (q \in refused' <=> q \in refused)
    BY <1>1 DEF Shape, Files, Keeps
  <1>4. CASE Spawn(p, o)
    <2>1. /\ host' \in [Plugins -> {0} \cup Workers] /\ worker' \in [Workers -> WorkerSet] /\ op' \in [Plugins -> OpSet]
          /\ \A q \in Plugins : q # p => host'[q] = host[q] /\ op'[q] = op[q]
          /\ \A w \in Workers : worker'[w] = worker[w] \/ (worker[w].of = "none" /\ worker'[w].of = p /\ worker'[w].state = "up")
          /\ op'[p] \in OpSet /\ op'[p].kind = o.kind /\ op'[p].stage = "load" /\ op'[p].to = o.to
          /\ \E w \in Workers : op'[p].host = w /\ Runs(p, w)'
      BY <1>4, SpawnWakes
    <2>2. Shape'
      BY <1>1, <1>2, <1>3, <2>1 DEF Shape
    <2>3. TouchesOnly(p)
      BY <1>2, <1>3, <2>1 DEF TouchesOnly
    <2>4. Phase(p)'
      BY <2>1 DEF Phase, Enabling, EnableKinds
    <2>5. Disk(p)'
      BY <1>2, <1>3, <2>1 DEF Disk
    <2> QED BY <2>2, <2>3, <2>4, <2>5, LocalStep, PluginAssumption DEF LifeInv, Searched
  <1>5. CASE SetOp(p, NoOp) /\ UNCHANGED <<host, worker>>
    <2>1. op' \in [Plugins -> OpSet] /\ op'[p] = NoOp /\ \A q \in Plugins : q # p => op'[q] = op[q]
      BY <1>1, <1>5, OpFields DEF Shape, SetOp
    <2>2. Shape'
      BY <1>1, <1>2, <1>3, <1>5, <2>1 DEF Shape
    <2>3. TouchesOnly(p)
      BY <1>2, <1>3, <1>5, <2>1 DEF TouchesOnly
    <2>4. Asleep(p)'
      BY <1>5, Alike
    <2>5. Phase(p)'
      BY <1>2, <2>1, <2>4, OpFields DEF Phase, Enabling
    <2>6. Disk(p)'
      BY <1>2, <1>3, <2>1, OpFields DEF Disk
    <2> QED BY <2>2, <2>3, <2>5, <2>6, LocalStep, PluginAssumption DEF LifeInv, Searched
  <1> QED BY <1>4, <1>5

\* An update is about to be rolled back: nothing of the plugin runs, and the new version may be loaded.
LEMMA FallsBackKeeps ==
    ASSUME LifeInv, NEW p \in Plugins, op[p].kind = "update", op[p].stage = "unload", Asleep(p), op[p].to \in Versions,
           NEW d \in Files, dir' = [dir EXCEPT ![p] = d], NEW b \in Files, backup' = [backup EXCEPT ![p] = b],
           (plugin' = [plugin EXCEPT ![p] = NotLoaded] /\ UNCHANGED entry) \/ Loads(p, op[p].to),
           SetOp(p, At(op[p], "rollback", op[p].host)),
           UNCHANGED <<host, worker, shims, provider, activeProvider, chosen, refused, restarts>>
    PROVE  LifeInv'
  <1> DEFINE o == At(op[p], "rollback", op[p].host)
  <1>1. Phase(p) /\ Disk(p) /\ Shape /\ op[p] \in OpSet
    BY DEF LifeInv, Shape
  <1>2. o \in OpSet /\ o.stage = "rollback" /\ o.kind = "update" /\ o.to = op[p].to
    BY <1>1 DEF At, OpSet, Stages
  <1>3. op' = [op EXCEPT ![p] = o]
    BY DEF SetOp
  <1> HIDE DEF o
  <1>4. op' \in [Plugins -> OpSet] /\ op'[p] = o /\ \A q \in Plugins : q # p => op'[q] = op[q]
    BY <1>1, <1>2, <1>3 DEF Shape
  <1>5. /\ backup' \in [Plugins -> Files] /\ dir' \in [Plugins -> Files]
        /\ \A q \in Plugins : q # p => backup'[q] = backup[q] /\ dir'[q] = dir[q]
    BY <1>1 DEF Shape
  <1>6. /\ plugin' \in [Plugins -> PluginSet] /\ entry' \in [Plugins -> EntrySet] /\ Kept(p)' = chosen'[p]
        /\ Loaded(p)' => plugin'[p].settings = chosen'[p] /\ entry'[p] # NoEntry
        /\ \A q \in Plugins : q # p => plugin'[q] = plugin[q] /\ entry'[q] = entry[q]
    <2>1. CASE plugin' = [plugin EXCEPT ![p] = NotLoaded] /\ UNCHANGED entry
      BY <1>1, <2>1, PluginFields DEF Shape, Loaded, Kept, Disk
    <2>2. CASE Loads(p, op[p].to)
      BY <2>2, LoadedNow
    <2> QED BY <2>1, <2>2
  <1>7. Shape'
    BY <1>1, <1>4, <1>5, <1>6 DEF Shape
  <1>8. TouchesOnly(p)
    BY <1>4, <1>5, <1>6 DEF TouchesOnly
  <1>9. Asleep(p)'
    BY Alike
  <1>10. Phase(p)'
    BY <1>2, <1>4, <1>9 DEF Phase, Enabling, Undoes
  <1>11. Disk(p)'
    BY <1>2, <1>4, <1>6, PluginAssumption DEF Disk
  <1> QED BY <1>7, <1>8, <1>10, <1>11, LocalStep, PluginAssumption DEF LifeInv, Searched

LEMMA SwapKeeps == ASSUME LifeInv, NEW p \in Plugins, Swap(p) PROVE LifeInv'
  <1>1. op[p].kind = "update" /\ op[p].stage = "unload" /\ UNCHANGED <<shims, provider, activeProvider, chosen, restarts>>
    BY DEF Swap, AtStage
  <1>2. Phase(p) /\ Disk(p) /\ Shape /\ op[p] \in OpSet /\ dir[p] \in Files /\ backup[p] \in Files /\ "none" \in Files /\ "broken" \in Files
    BY DEF LifeInv, Shape, Files
  <1>3. Asleep(p) /\ op[p].to \in Versions /\ op[p].to \in Files
    BY <1>1, <1>2 DEF Phase, Disk, OpSet, Files
  <1>4. CASE Swaps(p)
    <2>1. dir' = [dir EXCEPT ![p] = op[p].to] /\ Loads(p, op[p].to) /\ Keeps(p)
      BY <1>4 DEF Swaps
    <2>2. CASE backup' = [backup EXCEPT ![p] = dir[p]] /\ Spawn(p, op[p])
      BY <1>1, <1>2, <1>3, <2>1, <2>2, PluginAssumption, ReplacedKeeps
    <2>3. CASE backup' = [backup EXCEPT ![p] = "none"] /\ SetOp(p, NoOp) /\ UNCHANGED <<host, worker>>
      <3>1. Operation("restore", FALSE, "none") \in OpSet /\ Operation("restore", FALSE, "none").kind = "restore"
        BY DEF Operation, OpSet, Stages
      <3> QED BY <1>1, <1>2, <1>3, <2>1, <2>3, <3>1, ReplacedKeeps
    <2> QED BY <1>4, <2>2, <2>3 DEF Swaps
  <1>5. CASE SwapRefused(p)
    <2>1. PICK b \in Files : backup' = [backup EXCEPT ![p] = b]
      BY <1>2, <1>5 DEF SwapRefused, Remains
    <2>2. dir' = [dir EXCEPT ![p] = dir[p]]
      BY <1>2, <1>5 DEF SwapRefused, Shape
    <2> QED BY <1>1, <1>2, <1>3, <1>5, <2>1, <2>2, RefusedKeeps DEF SwapRefused
  <1>6. CASE SwapFails(p)
    <2>1. PICK d \in Files : dir' = [dir EXCEPT ![p] = d]
      BY <1>2, <1>3, <1>6 DEF SwapFails
    <2>2. PICK b \in Files : backup' = [backup EXCEPT ![p] = b]
      BY <1>2, <1>6 DEF SwapFails, Remains
    <2>3. /\ (plugin' = [plugin EXCEPT ![p] = NotLoaded] /\ UNCHANGED entry) \/ Loads(p, op[p].to)
          /\ SetOp(p, At(op[p], "rollback", op[p].host)) /\ UNCHANGED <<host, worker, refused>>
      BY <1>6 DEF SwapFails
    <2> QED BY <1>1, <1>3, <2>1, <2>2, <2>3, FallsBackKeeps
  <1> QED BY <1>4, <1>5, <1>6 DEF Swap

LEMMA RollbackKeeps == ASSUME LifeInv, NEW p \in Plugins, Rollback(p) PROVE LifeInv'
  <1>1. op[p].stage = "rollback" /\ UNCHANGED <<shims, provider, activeProvider, chosen, restarts>>
    BY DEF Rollback, AtStage
  <1>2. Phase(p) /\ Shape /\ op[p] \in OpSet /\ dir[p] \in Files /\ backup[p] \in Files /\ "none" \in Files /\ "broken" \in Files
    BY DEF LifeInv, Shape, Files
  <1>3. Asleep(p)
    BY <1>1, <1>2 DEF Phase
  <1>4. CASE Restores(p)
    <2> DEFINE o == Operation("restore", op[p].was, op[p].to)
    <2>1. /\ backup[p] \in Versions /\ dir' = [dir EXCEPT ![p] = backup[p]] /\ backup' = [backup EXCEPT ![p] = "none"]
          /\ Loads(p, backup[p]) /\ Keeps(p)
          /\ Spawn(p, o) \/ (SetOp(p, NoOp) /\ UNCHANGED <<host, worker>>)
      BY <1>4 DEF Restores
    <2>2. o \in OpSet /\ o.kind = "restore"
      BY <1>2 DEF Operation, OpSet, Stages
    <2> HIDE DEF o
    <2> QED BY <1>1, <1>2, <1>3, <2>1, <2>2, ReplacedKeeps
  <1>5. CASE RollbackRefused(p)
    <2>1. PICK d \in Files : dir' = [dir EXCEPT ![p] = d]
      BY <1>2, <1>5 DEF RollbackRefused, Remains
    <2>2. PICK b \in Files : backup' = [backup EXCEPT ![p] = b]
      <3>1. backup = [backup EXCEPT ![p] = backup[p]]
        BY <1>2 DEF Shape
      <3> QED BY <1>2, <1>5, <3>1 DEF RollbackRefused
    <2> QED BY <1>1, <1>3, <1>5, <2>1, <2>2, RefusedKeeps DEF RollbackRefused
  <1> QED BY <1>4, <1>5 DEF Rollback

-----------------------------------------------------------------------------
(* What workers do, and the end of the process                              *)

\* Whoever runs is the worker of its plugin's phase, and what it registered is what the hook manager has.
LEMMA TheLivingOne ==
    ASSUME LifeInv, NEW p \in Plugins, NEW w \in Living(p)
    PROVE  /\ w \in Workers /\ Hooked(p, w) /\ Living(p) = {w} /\ ~Asleep(p)
           /\ \A x : Runs(p, x) \/ Dying(p, x) => x = w
           /\ op[p].stage = "none" => Runs(p, w) /\ Enabled(p) /\ op[p] = NoOp
           /\ op[p].stage \in Enabling \cup {"onDisable"} => Runs(p, w) /\ op[p].host = w
           /\ op[p].stage \in {"scrap", "terminate"} => Dying(p, w) /\ op[p].host = w
           /\ op[p].stage \notin {"unload", "rollback"}
  <1>1. w \in Workers /\ ~Asleep(p)
    BY DEF Living, Asleep
  <1>2. \A x : Runs(p, x) \/ Dying(p, x) => x = w
    BY DEF Runs, Dying
  <1>3. Phase(p) /\ op[p].stage \in Stages /\ op[p] \in OpSet
    BY DEF LifeInv, Shape, OpSet
  <1>4. op[p].stage = "none" => Runs(p, w) /\ Enabled(p) /\ op[p] = NoOp
    BY <1>1, <1>2, <1>3 DEF Phase
  <1>5. op[p].stage \in Enabling \cup {"onDisable"} => Runs(p, w) /\ op[p].host = w
    BY <1>1, <1>2, <1>3 DEF Phase, Crashed
  <1>6. op[p].stage \in {"scrap", "terminate"} => Dying(p, w) /\ op[p].host = w
    BY <1>1, <1>2, <1>3 DEF Phase
  <1>7. op[p].stage \notin {"unload", "rollback"}
    BY <1>1, <1>3 DEF Phase
  <1>8. Runs(p, w) \/ Dying(p, w)
    BY <1>3, <1>4, <1>5, <1>6, <1>7 DEF Stages, Enabling
  <1>9. Living(p) = {w} /\ Hooked(p, w)
    BY <1>8 DEF Runs, Dying
  <1> QED BY <1>1, <1>2, <1>4, <1>5, <1>6, <1>7, <1>9

LEMMA SubscribeKeeps ==
    ASSUME LifeInv, NEW p \in Plugins, NEW w \in Workers, NEW e \in PluginEvents, Subscribe(p, w, e) PROVE LifeInv'
  <1>1. /\ Alive(w) /\ worker[w].of = p /\ e \notin worker[w].subscribed
        /\ worker' = [worker EXCEPT ![w].subscribed = @ \cup {e}] /\ shims' = [shims EXCEPT ![p][e] = @ + 1]
        /\ UNCHANGED <<dir, backup, plugin, entry, host, provider, activeProvider, op, chosen, refused, restarts>>
    BY DEF Subscribe
  <1>2. Phase(p) /\ Disk(p) /\ Shape /\ worker[w] \in WorkerSet /\ shims[p] \in [PluginEvents -> Nat]
    BY DEF LifeInv, Shape
  <1>3. w \in Living(p)
    BY <1>1 DEF Alive, Living
  <1>4. Hooked(p, w) /\ ~Asleep(p) /\ (\A x : Runs(p, x) \/ Dying(p, x) => x = w) /\ Living(p) = {w}
        /\ op[p].stage \notin {"unload", "rollback"}
    BY <1>3, TheLivingOne
  <1> DEFINE subs == worker[w].subscribed \cup {e}
             n == [worker[w] EXCEPT !.subscribed = subs]
             m == [shims[p] EXCEPT ![e] = shims[p][e] + 1]
  <1>5. n \in WorkerSet /\ n.of = p /\ n.state = worker[w].state /\ n.subscribed = subs
    BY <1>1, <1>2 DEF WorkerSet
  <1>6. worker' = [worker EXCEPT ![w] = n] /\ shims' = [shims EXCEPT ![p] = m]
    BY <1>1
  <1>7. m \in [PluginEvents -> Nat] /\ m[e] = 1 /\ \A x \in PluginEvents : x # e => m[x] = shims[p][x]
    BY <1>1, <1>2, <1>4 DEF Hooked
  <1> HIDE DEF n, m
  <1>8. worker' \in [Workers -> WorkerSet] /\ worker'[w] = n /\ \A x \in Workers : x # w => worker'[x] = worker[x]
    BY <1>2, <1>5, <1>6 DEF Shape
  <1>9. shims' \in [Plugins -> [PluginEvents -> Nat]] /\ shims'[p] = m /\ \A q \in Plugins : q # p => shims'[q] = shims[q]
    BY <1>2, <1>6, <1>7 DEF Shape
  <1>10. Living(p)' = Living(p)
    BY <1>1, <1>5, <1>8 DEF Living
  <1>11. \A x \in PluginEvents : shims'[p][x] = IF x \in worker'[w].subscribed THEN 1 ELSE 0
    BY <1>4, <1>5, <1>7, <1>8, <1>9 DEF Hooked
  <1>12. Hooked(p, w)' /\ \A x \in PluginEvents : shims'[p][x] <= 1
    BY <1>11 DEF Hooked
  <1>13. \A x : Runs(p, x) => Runs(p, x)'
    BY <1>1, <1>4, <1>5, <1>8, <1>10, <1>12 DEF Runs
  <1>14. \A x : Dying(p, x) => Dying(p, x)'
    BY <1>1, <1>4, <1>5, <1>8, <1>10, <1>12 DEF Dying
  <1>15. Shape'
    BY <1>1, <1>2, <1>8, <1>9 DEF Shape
  <1>16. TouchesOnly(p)
    BY <1>1, <1>2, <1>3, <1>5, <1>8, <1>9 DEF TouchesOnly, Living
  <1>17. Phase(p)'
    <2>1. \A x : ~Crashed(p, x)
      BY <1>4 DEF Crashed
    <2>2. Enabled(p)' <=> Enabled(p)
      BY <1>1 DEF Enabled
    <2>3. op[p].stage = "none" => Runs(p, w) /\ Enabled(p) /\ op[p] = NoOp /\ host[p] = w
      BY <1>3, TheLivingOne DEF Runs
    <2> QED BY <1>1, <1>2, <1>4, <1>10, <1>13, <1>14, <2>1, <2>2, <2>3 DEF Phase
  <1>18. Disk(p)'
    BY <1>1, <1>2 DEF Disk, Loaded, Kept
  <1> QED BY <1>1, <1>15, <1>16, <1>17, <1>18, LocalStep, PluginAssumption DEF LifeInv, Searched

LEMMA OffersSearchKeeps == ASSUME LifeInv, NEW p \in Plugins, NEW w \in Workers, OffersSearch(p, w) PROVE LifeInv'
  <1>1. /\ Alive(w) /\ worker[w].of = p /\ host[p] # 0 /\ provider' = [provider EXCEPT ![p] = host[p]] /\ activeProvider' = p
        /\ UNCHANGED <<dir, backup, plugin, entry, host, worker, shims, op, chosen, refused, restarts>>
    BY DEF OffersSearch
  <1>2. Phase(p) /\ Disk(p) /\ Shape
    BY DEF LifeInv
  <1>3. w \in Living(p)
    BY <1>1 DEF Alive, Living
  <1>4. ~Asleep(p) /\ (\A x : Runs(p, x) \/ Dying(p, x) => x = w) /\ Living(p) = {w}
        /\ op[p].stage \notin {"unload", "rollback"} /\ (op[p].stage = "none" => Runs(p, w) /\ Enabled(p))
        /\ (op[p].stage \in Enabling \cup {"onDisable"} => Runs(p, w) /\ op[p].host = w)
        /\ (op[p].stage \in {"scrap", "terminate"} => Dying(p, w) /\ op[p].host = w)
    BY <1>3, TheLivingOne
  <1>5. host[p] = w /\ op[p].stage # "scrap"
    BY <1>1, <1>2, <1>4 DEF Phase, Runs, Stages, Enabling, Shape, OpSet
  <1>6. provider' \in [Plugins -> {0} \cup Workers] /\ provider'[p] = w /\ \A q \in Plugins : q # p => provider'[q] = provider[q]
    BY <1>1, <1>2, <1>5 DEF Shape
  <1>7. Living(p)' = Living(p) /\ (Hooked(p, w)' <=> Hooked(p, w)) /\ (Enabled(p)' <=> Enabled(p))
    BY <1>1 DEF Living, Hooked, Enabled
  <1>8. Runs(p, w) => Runs(p, w)'
    BY <1>1, <1>6, <1>7 DEF Runs
  <1>9. Dying(p, w) => Dying(p, w)'
    BY <1>1, <1>3, <1>6, <1>7 DEF Dying
  <1>10. Shape'
    BY <1>1, <1>2, <1>6 DEF Shape
  <1>11. TouchesOnly(p)
    BY <1>1, <1>6 DEF TouchesOnly
  <1>12. Phase(p)'
    BY <1>1, <1>2, <1>4, <1>5, <1>7, <1>8, <1>9 DEF Phase, Enabling
  <1>13. Disk(p)'
    BY <1>1, <1>2 DEF Disk, Loaded, Kept
  <1>14. provider'[p] # 0
    BY <1>6 DEF Workers
  <1> QED BY <1>1, <1>10, <1>11, <1>12, <1>13, <1>14, LocalStep

\* A worker that is gone: registrations and provider.
LEMMA ExitLeaves ==
    ASSUME LifeInv, NEW p \in Plugins, NEW w \in Living(p), DropProvider(p),
           worker' = [worker EXCEPT ![w] = [of |-> p, state |-> "exited", subscribed |-> {}]]
    PROVE  /\ worker' \in [Workers -> WorkerSet] /\ worker'[w].of = p /\ worker'[w].state = "exited" /\ Living(p)' = {}
           /\ \A x \in Workers : worker'[x] = worker[x] \/ (worker[x].of = p /\ worker'[x].of = p /\ worker'[x].state # "unborn")
  <1>1. w \in Workers /\ worker[w].of = p /\ worker \in [Workers -> WorkerSet] /\ Living(p) = {w}
    BY TheLivingOne DEF LifeInv, Shape, Living
  <1>2. worker' \in [Workers -> WorkerSet] /\ worker'[w].of = p /\ worker'[w].state = "exited"
        /\ \A x \in Workers : x # w => worker'[x] = worker[x]
    BY <1>1 DEF WorkerSet
  <1>3. Living(p)' = {}
    BY <1>1, <1>2 DEF Living
  <1> QED BY <1>1, <1>2, <1>3

\* A crash also takes the plugin down.
LEMMA CrashKeeps ==
    ASSUME LifeInv, NEW p \in Plugins, NEW w \in Living(p), worker[w].state = "up", DropProvider(p),
           worker' = [worker EXCEPT ![w] = [of |-> p, state |-> "exited", subscribed |-> {}]],
           IF Loaded(p) THEN SetStatus(p, "ERROR") ELSE UNCHANGED <<plugin, entry>>,
           UnregisterHooks(p), host' = [host EXCEPT ![p] = 0], UNCHANGED <<dir, backup, op, chosen, refused, restarts>>
    PROVE  LifeInv'
  <1>1. Phase(p) /\ Disk(p) /\ Shape /\ op[p] \in OpSet /\ op[p].stage \in Stages
    BY DEF LifeInv, Shape, OpSet
  <1>2. /\ op[p].stage = "none" => Runs(p, w) /\ Enabled(p) /\ op[p] = NoOp
        /\ op[p].stage \in Enabling \cup {"onDisable"} => Runs(p, w) /\ op[p].host = w
        /\ op[p].stage \in {"scrap", "terminate"} => Dying(p, w)
        /\ op[p].stage \notin {"unload", "rollback"} /\ w \in Workers
    BY TheLivingOne
  <1>3. op[p].stage \in {"none", "load", "onLoad", "onEnable", "onDisable"}
    BY <1>1, <1>2 DEF Stages, Dying
  <1>4. Loaded(p)
    BY <1>1, <1>2, <1>3 DEF Disk, Loaded, Enabled
  <1>5. "ERROR" \in Statuses /\ NoShims \in [PluginEvents -> Nat] /\ SetStatus(p, "ERROR")
    BY <1>4 DEF Statuses, NoShims
  <1>6. /\ plugin' \in [Plugins -> PluginSet] /\ entry' \in [Plugins -> EntrySet] /\ plugin'[p].status = "ERROR"
        /\ \A q \in Plugins : q # p => plugin'[q] = plugin[q] /\ entry'[q] = entry[q]
    BY <1>4, <1>5, StatusSet
  <1>7. /\ provider' \in [Plugins -> {0} \cup Workers] /\ provider'[p] = 0
        /\ \A q \in Plugins : q # p => provider'[q] = provider[q]
        /\ activeProvider' \in {"builtin"} \cup Plugins /\ activeProvider' \in {activeProvider, "builtin"} /\ activeProvider' # p
    BY ProviderDropped
  <1>8. /\ worker' \in [Workers -> WorkerSet] /\ worker'[w].of = p /\ worker'[w].state = "exited" /\ Living(p)' = {}
        /\ \A x \in Workers : worker'[x] = worker[x] \/ (worker[x].of = p /\ worker'[x].of = p /\ worker'[x].state # "unborn")
    BY ExitLeaves
  <1>9. host' \in [Plugins -> {0} \cup Workers] /\ host'[p] = 0 /\ shims' \in [Plugins -> [PluginEvents -> Nat]] /\ shims'[p] = NoShims
        /\ \A q \in Plugins : q # p => host'[q] = host[q] /\ shims'[q] = shims[q]
    BY <1>1, <1>5 DEF Shape, UnregisterHooks
  <1>10. Shape'
    BY <1>1, <1>6, <1>7, <1>8, <1>9 DEF Shape
  <1>11. TouchesOnly(p)
    BY <1>6, <1>7, <1>8, <1>9 DEF TouchesOnly
  <1>12. Asleep(p)' /\ ~Enabled(p)' /\ Crashed(p, w)'
    BY <1>2, <1>6, <1>7, <1>8, <1>9 DEF Asleep, Enabled, Crashed
  <1>13. Phase(p)'
    BY <1>1, <1>2, <1>3, <1>12 DEF Phase, Enabling
  <1>14. Disk(p)'
    <2>1. op'[p] = op[p] /\ UNCHANGED <<dir, chosen, refused>> /\ op[p].stage # "rollback"
      BY <1>3
    <2> QED BY <1>1, <1>4, <1>5, <2>1, StatusKeepsDisk
  <1> QED BY <1>7, <1>10, <1>11, <1>13, <1>14, LocalStep

\* A worker that was killed is gone: the rest is left to its caller.
LEMMA KilledExitKeeps ==
    ASSUME LifeInv, NEW p \in Plugins, NEW w \in Living(p), worker[w].state = "killed", DropProvider(p),
           worker' = [worker EXCEPT ![w] = [of |-> p, state |-> "exited", subscribed |-> {}]],
           UNCHANGED <<plugin, entry, shims, host, dir, backup, op, chosen, refused, restarts>>
    PROVE  LifeInv'
  <1>1. Phase(p) /\ Disk(p) /\ Shape /\ op[p] \in OpSet /\ op[p].stage \in Stages
    BY DEF LifeInv, Shape, OpSet
  <1>2. /\ op[p].stage = "none" => Runs(p, w)
        /\ op[p].stage \in Enabling \cup {"onDisable"} => Runs(p, w)
        /\ op[p].stage \in {"scrap", "terminate"} => Dying(p, w) /\ op[p].host = w
        /\ op[p].stage \notin {"unload", "rollback"} /\ w \in Workers /\ Hooked(p, w)
    BY TheLivingOne
  <1>3. op[p].stage \in {"scrap", "terminate"} /\ op[p].host = w
    BY <1>1, <1>2 DEF Stages, Runs, Enabling
  <1>4. /\ provider' \in [Plugins -> {0} \cup Workers] /\ provider'[p] = 0
        /\ \A q \in Plugins : q # p => provider'[q] = provider[q]
        /\ activeProvider' \in {"builtin"} \cup Plugins /\ activeProvider' \in {activeProvider, "builtin"} /\ activeProvider' # p
    BY ProviderDropped
  <1>5. /\ worker' \in [Workers -> WorkerSet] /\ worker'[w].of = p /\ worker'[w].state = "exited" /\ Living(p)' = {}
        /\ \A x \in Workers : worker'[x] = worker[x] \/ (worker[x].of = p /\ worker'[x].of = p /\ worker'[x].state # "unborn")
    BY ExitLeaves
  <1>6. Shape'
    BY <1>1, <1>4, <1>5 DEF Shape
  <1>7. TouchesOnly(p)
    BY <1>4, <1>5 DEF TouchesOnly
  <1>8. \A e \in PluginEvents : shims'[p][e] <= 1
    BY <1>2 DEF Hooked
  <1>9. Dying(p, w)'
    BY <1>2, <1>4, <1>5, <1>8 DEF Dying
  <1>10. Phase(p)'
    BY <1>1, <1>3, <1>4, <1>5, <1>9 DEF Phase, Enabling
  <1>11. Disk(p)'
    BY <1>1 DEF Disk, Loaded, Kept
  <1> QED BY <1>4, <1>6, <1>7, <1>10, <1>11, LocalStep

LEMMA ExitsKeeps == ASSUME LifeInv, NEW w \in Workers, Exits(w) PROVE LifeInv'
  <1>1. worker[w].state \in {"up", "killed"} /\ worker[w] \in WorkerSet
    BY DEF Exits, Alive, LifeInv, Shape
  <1>2. worker[w].of \in Plugins
    BY <1>1 DEF WorkerSet, LifeInv, Owned
  <1>3. PICK p \in Plugins : p = worker[w].of
    BY <1>2
  <1>4. w \in Living(p)
    BY <1>1, <1>3 DEF Living
  <1>5. /\ DropProvider(p) /\ worker' = [worker EXCEPT ![w] = [of |-> p, state |-> "exited", subscribed |-> {}]]
        /\ UNCHANGED <<dir, backup, op, chosen, refused, restarts>>
        /\ worker[w].state = "killed" => UNCHANGED <<plugin, entry, shims, host>>
        /\ worker[w].state # "killed" => /\ IF Loaded(p) THEN SetStatus(p, "ERROR") ELSE UNCHANGED <<plugin, entry>>
                                         /\ UnregisterHooks(p) /\ host' = [host EXCEPT ![p] = 0]
    BY <1>3 DEF Exits
  <1>6. CASE worker[w].state = "killed"
    BY <1>4, <1>5, <1>6, KilledExitKeeps
  <1>7. CASE worker[w].state = "up"
    BY <1>4, <1>5, <1>7, CrashKeeps
  <1> QED BY <1>1, <1>6, <1>7

LEMMA KilledKeeps == ASSUME LifeInv, Killed PROVE LifeInv'
  <1>1. PICK unread \in SUBSET {p \in Plugins : dir[p] \in Versions} :
          /\ plugin' = [p \in Plugins |-> IF p \in Reads(unread)
                          THEN [status |-> "INSTALLED", version |-> dir[p], settings |-> Kept(p)] ELSE NotLoaded]
          /\ entry' = [p \in Plugins |-> IF p \in Reads(unread)
                          THEN [status |-> "INSTALLED", settings |-> Kept(p)] ELSE entry[p]]
          /\ refused' = unread
    BY DEF Killed
  <1>2. /\ restarts < MaxRestarts /\ restarts' = restarts + 1 /\ UNCHANGED <<dir, backup, chosen>>
        /\ host' = [p \in Plugins |-> 0] /\ provider' = [p \in Plugins |-> 0] /\ activeProvider' = "builtin"
        /\ worker' = [w \in Workers |-> IF worker[w].state = "unborn" THEN worker[w]
                                        ELSE [of |-> worker[w].of, state |-> "exited", subscribed |-> {}]]
        /\ shims' = [p \in Plugins |-> NoShims] /\ op' = [p \in Plugins |-> NoOp]
    BY DEF Killed
  <1>3. Shape /\ Owned /\ \A p \in Plugins : Kept(p) = chosen[p] /\ chosen[p] \in Settings
    BY DEF LifeInv, Disk, Shape
  <1>4. dir' \in [Plugins -> Files] /\ backup' \in [Plugins -> Files] /\ refused' \subseteq Plugins
    BY <1>1, <1>2, <1>3 DEF Shape
  <1>5. ASSUME NEW p \in Plugins
        PROVE  /\ p \notin Reads(unread) => plugin'[p] = NotLoaded /\ entry'[p] = entry[p]
               /\ p \in Reads(unread) => /\ plugin'[p] = [status |-> "INSTALLED", version |-> dir[p], settings |-> chosen[p]]
                                         /\ entry'[p] = [status |-> "INSTALLED", settings |-> chosen[p]]
    BY <1>1, <1>3
  <1>6. ASSUME NEW p \in Plugins
        PROVE  plugin'[p] \in PluginSet /\ entry'[p] \in EntrySet /\ ~Enabled(p)' /\ Kept(p)' = chosen[p]
               /\ (Loaded(p)' => /\ plugin'[p].version = dir'[p] /\ p \notin refused'
                                 /\ plugin'[p].settings = chosen[p] /\ entry'[p] # NoEntry)
               /\ (dir'[p] \in Versions /\ p \notin refused' => Loaded(p)')
    <2>1. CASE p \notin Reads(unread)
      <3>1. plugin'[p] = NotLoaded /\ entry'[p] = entry[p] /\ entry[p] \in EntrySet
        BY <1>3, <1>5, <2>1 DEF Shape
      <3>2. Kept(p)' = Kept(p)
        BY <3>1 DEF Kept
      <3>3. dir'[p] \notin Versions \/ p \in refused'
        BY <1>1, <1>2, <2>1 DEF Reads
      <3> QED BY <1>3, <3>1, <3>2, <3>3, PluginFields DEF Enabled, Loaded
    <2>2. CASE p \in Reads(unread)
      <3>1. dir'[p] \in Versions /\ chosen[p] \in Settings /\ p \notin refused' /\ dir' = dir
        BY <1>1, <1>2, <1>3, <2>2 DEF Reads
      <3> DEFINE v == dir'[p]
                 c == chosen[p]
      <3>4. v \in Versions /\ c \in Settings
        BY <3>1
      <3>5. plugin'[p] = [status |-> "INSTALLED", version |-> v, settings |-> c] /\ entry'[p] = [status |-> "INSTALLED", settings |-> c]
        BY <1>5, <2>2, <3>1
      <3> HIDE DEF v, c
      <3>6. plugin'[p] \in PluginSet /\ plugin'[p].status = "INSTALLED" /\ plugin'[p].version = v /\ plugin'[p].settings = c
        BY <3>4, <3>5 DEF PluginSet, Statuses
      <3>7. entry'[p] \in EntrySet /\ entry'[p].status = "INSTALLED" /\ entry'[p].settings = c /\ entry'[p] # NoEntry
        BY <3>4, <3>5 DEF EntrySet, Statuses, NoEntry
      <3>2. plugin'[p] \in PluginSet /\ plugin'[p].status = "INSTALLED" /\ plugin'[p].version = dir'[p] /\ plugin'[p].settings = chosen[p]
        BY <3>6 DEF v, c
      <3>3. entry'[p] \in EntrySet /\ entry'[p].status = "INSTALLED" /\ entry'[p].settings = chosen[p] /\ entry'[p] # NoEntry
        BY <3>7 DEF c
      <3> QED BY <3>1, <3>2, <3>3 DEF Enabled, Kept, Loaded
    <2> QED BY <2>1, <2>2
  <1>7. plugin' \in [Plugins -> PluginSet] /\ entry' \in [Plugins -> EntrySet]
    <2>1. plugin' = [p \in Plugins |-> plugin'[p]] /\ entry' = [p \in Plugins |-> entry'[p]]
      BY <1>1
    <2> QED BY <1>6, <2>1
  <1>8. worker' \in [Workers -> WorkerSet] /\ \A w \in Workers : worker'[w].state \in {"unborn", "exited"}
        /\ worker'[w].of = worker[w].of /\ (worker'[w].state = "unborn" <=> worker[w].state = "unborn")
    BY <1>2, <1>3 DEF Shape, WorkerSet
  <1>9. NoShims \in [PluginEvents -> Nat] /\ NoOp \in OpSet /\ restarts' \in 0 .. MaxRestarts
    BY <1>2, <1>3, OpFields, PluginAssumption DEF NoShims, Shape
  <1>10. Shape'
    BY <1>2, <1>3, <1>4, <1>7, <1>8, <1>9 DEF Shape
  <1>11. Owned' /\ Searched'
    BY <1>2, <1>3, <1>8, PluginAssumption DEF Owned, Searched
  <1>12. ASSUME NEW p \in Plugins PROVE Phase(p)' /\ Disk(p)'
    <2>1. op'[p] = NoOp /\ chosen'[p] = chosen[p]
      BY <1>2
    <2>2. Asleep(p)'
      BY <1>2, <1>8 DEF Asleep, Living
    <2>3. Phase(p)'
      BY <1>6, <2>1, <2>2, OpFields DEF Phase, Enabling
    <2>4. Disk(p)'
      BY <1>6, <2>1, OpFields DEF Disk
    <2> QED BY <2>3, <2>4
  <1> QED BY <1>10, <1>11, <1>12 DEF LifeInv

-----------------------------------------------------------------------------
(* The theorems about the life of plugins                                   *)

LEMMA LifeStarts == PluginsInit => LifeInv
  <1> SUFFICES ASSUME PluginsInit PROVE LifeInv
    OBVIOUS
  <1> USE DEF PluginsInit
  <1>1. worker \in [Workers -> WorkerSet] /\ \A w \in Workers : worker[w].of = "none" /\ worker[w].state = "unborn"
    BY DEF Unborn, WorkerSet
  <1>2. plugin \in [Plugins -> PluginSet] /\ entry \in [Plugins -> EntrySet] /\ op \in [Plugins -> OpSet]
    BY PluginFields, OpFields
  <1>3. shims \in [Plugins -> [PluginEvents -> Nat]] /\ chosen \in [Plugins -> Settings] /\ restarts \in 0 .. MaxRestarts
    BY SettingsAssumption, PluginAssumption
  <1>4. Shape /\ Searched /\ Owned
    BY <1>1, <1>2, <1>3, PluginAssumption DEF Shape, Searched, Owned, Files
  <1>5. ASSUME NEW p \in Plugins PROVE Phase(p) /\ Disk(p)
    <2>1. plugin[p] = NotLoaded /\ entry[p] = NoEntry /\ op[p] = NoOp /\ dir[p] = "none" /\ chosen[p] = DefaultSettings
      OBVIOUS
    <2>2. Asleep(p)
      BY <1>1 DEF Asleep, Living, NoShims
    <2>3. ~Loaded(p) /\ ~Enabled(p) /\ Kept(p) = DefaultSettings
      BY <2>1, PluginFields DEF Loaded, Enabled, Kept
    <2>4. Phase(p)
      BY <2>1, <2>2, <2>3, OpFields DEF Phase, Enabling
    <2>5. Disk(p)
      BY <2>1, <2>3, OpFields, PluginFields, PluginAssumption DEF Disk
    <2> QED BY <2>4, <2>5
  <1> QED BY <1>4, <1>5 DEF LifeInv

LEMMA LifeStands == ASSUME LifeInv, UNCHANGED pluginVars PROVE LifeInv'
  <1>1. UNCHANGED <<dir, backup, plugin, entry, host, worker, shims, provider, activeProvider, op, chosen, refused, restarts>>
    BY DEF pluginVars
  <1>2. Shape' /\ Searched' /\ Owned'
    BY <1>1 DEF LifeInv, Shape, Searched, Owned
  <1>3. ASSUME NEW p \in Plugins PROVE Phase(p)' /\ Disk(p)'
    <2>1. (Enabled(p)' <=> Enabled(p)) /\ (Loaded(p)' <=> Loaded(p)) /\ Kept(p)' = Kept(p)
      BY <1>1 DEF Enabled, Loaded, Kept
    <2>2. Phase(p)'
      BY <1>1, <2>1, Alike DEF LifeInv, Phase
    <2>3. Disk(p)'
      BY <1>1, <2>1 DEF LifeInv, Disk
    <2> QED BY <2>2, <2>3
  <1> QED BY <1>2, <1>3 DEF LifeInv

LEMMA LifeSteps == LifeInv /\ [PluginsNext]_pluginVars => LifeInv'
  <1> SUFFICES ASSUME LifeInv, [PluginsNext]_pluginVars PROVE LifeInv'
    OBVIOUS
  <1>1. CASE Killed \/ \E w \in Workers : Exits(w)
    BY <1>1, KilledKeeps, ExitsKeeps
  <1>2. CASE \E p \in Plugins : Enable(p) \/ Disable(p) \/ EnableStep(p)
    BY <1>2, EnableKeeps, DisableKeeps, EnableStepKeeps
  <1>3. CASE \E p \in Plugins : Progress(p)
    BY <1>3, EnableFailsKeeps, GivesUpKeeps, UninstalledKeeps, SwapKeeps, RollbackKeeps, KillKeeps, DisabledKeeps DEF Progress
  <1>4. ASSUME NEW p \in Plugins, Uninstall(p) PROVE LifeInv'
    BY <1>4, BeginsKeeps DEF Uninstall
  <1>5. ASSUME NEW p \in Plugins, NEW v \in Versions, Install(p, v) \/ Update(p, v) PROVE LifeInv'
    <2>1. v # "none" /\ Enabled(p) \in BOOLEAN
      BY PluginAssumption DEF Enabled
    <2> QED BY <1>5, <2>1, InstallKeeps, BeginsKeeps DEF Update
  <1>6. ASSUME NEW p \in Plugins, NEW s \in Settings, Configure(p, s) PROVE LifeInv'
    BY <1>6, ConfigureKeeps
  <1>7. CASE \E p \in Plugins, w \in Workers : OffersSearch(p, w) \/ \E e \in PluginEvents : Subscribe(p, w, e)
    BY <1>7, OffersSearchKeeps, SubscribeKeeps
  <1>8. CASE UNCHANGED pluginVars
    BY <1>8, LifeStands
  <1> QED BY <1>1, <1>2, <1>3, <1>4, <1>5, <1>6, <1>7, <1>8 DEF PluginsNext

LEMMA LifeGives == LifeInv => PluginsTypeOK /\ RuntimeFollowsStatus
  <1> SUFFICES ASSUME LifeInv PROVE PluginsTypeOK /\ RuntimeFollowsStatus
    OBVIOUS
  <1>1. PluginsTypeOK
    BY DEF LifeInv, Shape, PluginsTypeOK, PluginSet, EntrySet, WorkerSet, OpSet
  <1>2. EnabledIsLive
    BY WhenFree DEF EnabledIsLive, Runs, Workers
  <1>3. HooksHaveOwner
    BY WhenFree DEF HooksHaveOwner, Asleep
  <1>4. ASSUME NEW p \in Plugins, NEW w \in Workers, worker[w].of = p, Alive(w)
        PROVE  host[p] = w \/ (op[p].host = w /\ worker[w].state = "killed")
    <2>1. w \in Living(p) /\ op[p].stage \in Stages /\ Phase(p)
      BY <1>4 DEF Alive, Living, LifeInv, Shape, OpSet
    <2> QED BY <2>1, TheLivingOne DEF Runs, Dying, Living, Stages, Enabling
  <1>5. NoOrphanWorker
    <2>1. \A w \in Workers : Alive(w) => worker[w].of \in Plugins
      BY DEF Alive, LifeInv, Shape, Owned, WorkerSet
    <2> QED BY <1>4, <2>1 DEF NoOrphanWorker
  <1>6. ASSUME NEW p \in Plugins
        PROVE  /\ provider[p] # 0 => provider[p] \in Living(p)
               /\ \A e \in PluginEvents : shims[p][e] <= 1
    <2>1. op[p].stage \in Stages /\ Phase(p)
      BY DEF LifeInv, Shape, OpSet
    <2>2. Asleep(p) \/ (\E w : Runs(p, w)) \/ (\E w : Dying(p, w))
      BY <2>1 DEF Phase, Stages, Enabling, Crashed
    <2>3. CASE Asleep(p)
      BY <2>3 DEF Asleep, NoShims
    <2>4. CASE \E w : Runs(p, w)
      BY <2>4 DEF Runs, Hooked
    <2>5. CASE \E w : Dying(p, w)
      BY <2>5 DEF Dying
    <2> QED BY <2>2, <2>3, <2>4, <2>5
  <1>7. OneShimPerEvent
    BY <1>6 DEF OneShimPerEvent
  <1>8. SearchGoesToTheLiving
    <2>1. \A p \in Plugins : provider[p] # 0 => Alive(provider[p])
      BY <1>6 DEF Living, Alive
    <2> QED BY <2>1 DEF SearchGoesToTheLiving, LifeInv, Searched
  <1>9. MemoryMatchesDisk
    <2>1. RuntimeMatchesDisk
      BY WhenFree DEF RuntimeMatchesDisk
    <2>2. ASSUME NEW p \in Plugins, Loaded(p) PROVE plugin[p].settings = chosen[p] /\ entry[p].settings = chosen[p]
      <3>1. plugin[p].settings = chosen[p] /\ entry[p] # NoEntry /\ Kept(p) = chosen[p] /\ entry[p] \in EntrySet
        BY <2>2 DEF LifeInv, Disk, Shape
      <3> QED BY <3>1, PluginFields DEF Kept
    <2> QED BY <2>1, <2>2 DEF MemoryMatchesDisk, SettingsSurvive
  <1> QED BY <1>1, <1>2, <1>3, <1>5, <1>7, <1>8, <1>9 DEF RuntimeFollowsStatus

\* The status, worker, hooks, search provider and settings of a plugin agree between operations, whatever step of
\* an enable, a disable, an update or its rollback failed and whenever a worker crashed or the process was killed;
\* what is loaded is the version in its directory, and what the directory holds is loaded unless the last operation
\* or boot that touched its files was refused by the disk (PluginsService, PluginLoaderService).
THEOREM RuntimeAgrees == PluginsSpec => []RuntimeFollowsStatus
  BY LifeStarts, LifeSteps, LifeGives, PTL DEF PluginsSpec

\* Types of everything the service and the loader keep of a plugin, on disk, in the registry and in memory.
THEOREM PluginsTypeCorrect == PluginsSpec => []PluginsTypeOK
  BY LifeStarts, LifeSteps, LifeGives, PTL DEF PluginsSpec

\* An update that ends leaves the plugin loaded, and enabled or with an error if it was enabled (updatePackage(): "a
\* bad update never leaves the plugin broken"), whichever step of it or of its rollback failed, except a step of the
\* disk that nothing takes back: then the plugin is not loaded.
THEOREM UpdatesKeepThePlugin == PluginsSpec => UpdateKeepsPlugin
  <1>1. ASSUME LifeInv, [PluginsNext]_pluginVars
        PROVE  [\A p \in Plugins :
                  LET o == op[p] IN
                  o.kind \in {"update", "undo", "restore"} /\ op'[p] = NoOp /\ restarts' = restarts =>
                     \/ p \in refused' /\ plugin'[p] = NotLoaded
                     \/ plugin'[p].status # "absent" /\ (o.was => plugin'[p].status \in {"ENABLED", "ERROR"})]_pluginVars
    <2> SUFFICES ASSUME NEW p \in Plugins, op[p].kind \in {"update", "undo", "restore"}, op'[p] = NoOp, restarts' = restarts, PluginsNext
                 PROVE  \/ p \in refused' /\ plugin'[p] = NotLoaded
                        \/ plugin'[p].status # "absent" /\ (op[p].was => plugin'[p].status \in {"ENABLED", "ERROR"})
      BY <1>1
    <2>1. op[p] \in OpSet /\ op'[p] # op[p] /\ Phase(p) /\ Disk(p) /\ Shape
      <3>1. NoOp.kind = "none"
        BY OpFields
      <3> QED BY <1>1, <3>1 DEF LifeInv, Shape
    <2>2. restarts \in Nat
      BY <2>1, PluginAssumption DEF Shape
    <2>3. ~Killed /\ \A w \in Workers : ~Exits(w)
      BY <2>1, <2>2 DEF Killed, Exits
    <2>4. ASSUME NEW q \in Plugins,
                 \/ Enable(q) \/ Disable(q) \/ Uninstall(q) \/ EnableStep(q) \/ Progress(q)
                 \/ \E v \in Versions : Install(q, v) \/ Update(q, v)
                 \/ \E s \in Settings : Configure(q, s)
                 \/ \E w \in Workers : OffersSearch(q, w) \/ \E e \in PluginEvents : Subscribe(q, w, e)
          PROVE  q = p
      <3>1. \E o : op' = [op EXCEPT ![q] = o]
        <4>1. \A o : SetOp(q, o) \/ Spawn(q, o) \/ AsksToDisable(q, o) => \E x : op' = [op EXCEPT ![q] = x]
          BY DEF SetOp, Spawn, AsksToDisable
        <4>2. op' = op => op' = [op EXCEPT ![q] = op[q]]
          BY <2>1 DEF Shape
        <4>3. Swap(q) \/ Rollback(q) => \E x : SetOp(q, x) \/ Spawn(q, x)
          BY DEF Swap, Swaps, SwapRefused, SwapFails, Rollback, Restores, RollbackRefused
        <4> QED BY <2>4, <4>1, <4>2, <4>3 DEF Enable, Disable, Uninstall, EnableStep, Progress, Install, Update, Configure,
                   OffersSearch, Subscribe, Begins, EnableFails, EnableGivesUp, Uninstalled, Kill, Disabled
      <3> QED BY <2>1, <3>1 DEF Shape
    <2>5. \/ EnableStep(p) \/ EnableFails(p) \/ EnableGivesUp(p) \/ Uninstalled(p) \/ Swap(p) \/ Rollback(p) \/ Kill(p) \/ Disabled(p)
      <3>1. ~Free(p)
        BY OpFields DEF Free
      <3>2. op' = op => op'[p] = op[p]
        OBVIOUS
      <3> QED BY <2>1, <2>3, <2>4, <3>1, <3>2 DEF PluginsNext, Progress, Enable, Disable, Uninstall, Update, Begins,
                 Install, Configure, OffersSearch, Subscribe
    <2>6. \A o : SetOp(p, o) => op'[p] = o
      BY <2>1 DEF Shape, SetOp
    <2>7. \A s \in Stages : \A w : At(op[p], s, w) # NoOp
      <3>1. NoOp.kind = "none" /\ \A s \in Stages : \A w : At(op[p], s, w).kind = op[p].kind
        BY OpFields DEF At
      <3> QED BY <3>1
    <2>8. \A s \in Statuses : Loaded(p) /\ SetStatus(p, s) => plugin'[p].status = s
      BY <1>1, StatusSet
    <2>9. /\ \A v : Loads(p, v) => plugin'[p].status = "INSTALLED"
          /\ plugin' = [plugin EXCEPT ![p] = NotLoaded] /\ Refuses(p) => p \in refused' /\ plugin'[p] = NotLoaded
      BY <2>1 DEF Shape, Loads, Refuses
    <2>10. \A o : Spawn(p, o) => op'[p].stage = "load"
      BY <2>1 DEF Shape, Spawn, SetOp, At
    <2>11. "ENABLED" \in Statuses /\ "ERROR" \in Statuses /\ op'[p].stage = "none" /\ {"scrap", "terminate", "unload", "rollback"} \subseteq Stages
      BY OpFields DEF Statuses, Stages
    <2>12. CASE EnableStep(p)
      <3>1. Loaded(p)
        BY <2>1, <2>12 DEF EnableStep, Disk
      <3>2. op[p].stage \in DOMAIN After => After[op[p].stage] \in Stages
        BY DEF After, Stages
      <3>3. SetStatus(p, "ENABLED")
        BY <2>6, <2>7, <2>12, <3>2 DEF EnableStep
      <3> QED BY <2>8, <2>11, <3>1, <3>3
    <2>13. CASE EnableGivesUp(p)
      <3>1. Loaded(p)
        BY <2>1, <2>13 DEF EnableGivesUp, AtStage, Disk
      <3> QED BY <2>8, <2>11, <2>13, <3>1 DEF EnableGivesUp
    <2>14. CASE Swap(p)
      <3>1. CASE Swaps(p)
        BY <2>9, <2>10, <2>11, <3>1 DEF Swaps
      <3>2. CASE SwapRefused(p)
        BY <2>9, <3>2 DEF SwapRefused
      <3>3. CASE SwapFails(p)
        BY <2>6, <2>7, <2>11, <3>3 DEF SwapFails
      <3> QED BY <2>14, <3>1, <3>2, <3>3 DEF Swap
    <2>15. CASE Rollback(p)
      <3>1. CASE Restores(p)
        BY <2>9, <2>10, <2>11, <3>1 DEF Restores
      <3>2. CASE RollbackRefused(p)
        BY <2>9, <3>2 DEF RollbackRefused
      <3> QED BY <2>15, <3>1, <3>2 DEF Rollback
    <2>16. CASE EnableFails(p) \/ Kill(p)
      BY <2>6, <2>7, <2>11, <2>16 DEF EnableFails, Kill
    <2>17. CASE Disabled(p)
      <3>1. op[p].kind # "disable"
        OBVIOUS
      <3> QED BY <2>6, <2>7, <2>11, <2>17, <3>1 DEF Disabled, AfterDisable
    <2>18. CASE Uninstalled(p)
      BY <2>18 DEF Uninstalled, AtStage
    <2> QED BY <2>5, <2>12, <2>13, <2>14, <2>15, <2>16, <2>17, <2>18
  <1> QED BY <1>1, LifeStarts, LifeSteps, PTL DEF PluginsSpec, UpdateKeepsPlugin

-----------------------------------------------------------------------------
(* The concurrency limiter                                                  *)

\* The inductive invariant: a hand-over moves a slot to the head of the queue, so the count is
\* right only because the head is a parked call (QueueIsParked) and the counter is full
\* whenever somebody is parked (NoIdleSlot).
IInv == TypeOK /\ SlotsConserved /\ QueueIsParked /\ NoIdleSlot

\* The clamped limits are what the code needs them to be, whatever the configuration says.
LEMMA Limits == max \in Nat \ {0} /\ maxQueued \in Nat
  BY MaxAssumption DEF max, maxQueued

\* The owners of slots are finitely many, so they can be counted.
LEMMA HoldersFinite == IsFiniteSet(Holders)
  <1>1. Holders \subseteq Calls
    BY DEF Holders
  <1> QED BY <1>1, CallsAssumption, FS_Subset

\* The initial state satisfies the invariant.
LEMMA InitIInv == Init => IInv
  <1> SUFFICES ASSUME Init PROVE IInv
    OBVIOUS
  <1> USE DEF Init
  <1>1. TypeOK
    BY Limits DEF TypeOK, States
  <1>2. SlotsConserved
    <2>1. Holders = {}
      BY DEF Holders
    <2> QED BY <2>1, FS_EmptySet, Limits DEF SlotsConserved
  <1>3. QueueIsParked /\ NoIdleSlot
    BY Limits DEF QueueIsParked, NoIdleSlot
  <1> QED BY <1>1, <1>2, <1>3 DEF IInv

\* A caller that takes a free slot is counted once.
LEMMA EnterIInv == ASSUME IInv, NEW c \in Calls, Enter(c) PROVE IInv'
  <1> USE DEF IInv, Enter
  <1>1. TypeOK'
    BY Limits DEF TypeOK, States
  <1>2. SlotsConserved'
    <2>1. Holders' = Holders \cup {c} /\ c \notin Holders
      BY DEF Holders, TypeOK
    <2>2. Cardinality(Holders') = Cardinality(Holders) + 1
      BY <2>1, HoldersFinite, FS_AddElement
    <2> QED BY <2>2, Limits DEF SlotsConserved, TypeOK
  <1>3. QueueIsParked'
    BY DEF QueueIsParked, TypeOK
  <1>4. NoIdleSlot'
    BY Limits DEF NoIdleSlot, TypeOK
  <1> QED BY <1>1, <1>2, <1>3, <1>4

\* A caller that parks owns no slot and stands at the end of the queue.
LEMMA ParkIInv == ASSUME IInv, NEW c \in Calls, Park(c) PROVE IInv'
  <1> USE DEF IInv, Park
  <1>1. TypeOK'
    BY DEF TypeOK, States
  <1>2. SlotsConserved'
    <2>1. Holders' = Holders
      BY DEF Holders, TypeOK
    <2> QED BY <2>1 DEF SlotsConserved
  <1>3. QueueIsParked'
    <2>1. /\ Len(waiters') = Len(waiters) + 1
          /\ \A i \in 1..Len(waiters) : waiters'[i] = waiters[i]
          /\ waiters'[Len(waiters) + 1] = c
      BY DEF TypeOK
    <2>2. \A i \in 1..Len(waiters) : waiters[i] # c
      BY DEF QueueIsParked, TypeOK
    <2> QED BY <2>1, <2>2 DEF QueueIsParked, TypeOK
  <1>4. NoIdleSlot'
    BY Limits DEF NoIdleSlot, TypeOK, SlotsConserved
  <1> QED BY <1>1, <1>2, <1>3, <1>4

\* The continuation of a woken call changes nobody's ownership.
LEMMA ResumeIInv == ASSUME IInv, NEW c \in Calls, Resume(c) PROVE IInv'
  <1> USE DEF IInv, Resume
  <1>1. TypeOK'
    BY DEF TypeOK, States
  <1>2. Holders' = Holders
    BY DEF Holders, TypeOK
  <1>3. QueueIsParked' /\ NoIdleSlot'
    BY DEF QueueIsParked, NoIdleSlot, TypeOK
  <1> QED BY <1>1, <1>2, <1>3 DEF SlotsConserved

\* A hand-over gives the slot of one call to the head of the queue: the count does not move.
LEMMA HandOverIInv == ASSUME IInv, NEW c \in Calls, HandOver(c) PROVE IInv'
  <1> USE DEF IInv, HandOver
  <1> DEFINE h == Head(waiters)
  <1>1. /\ Len(waiters) \in Nat \ {0}
        /\ h = waiters[1]
        /\ Len(waiters') = Len(waiters) - 1
        /\ \A i \in 1..Len(waiters') : waiters'[i] = waiters[i + 1]
    BY DEF TypeOK
  <1>2. h \in Calls /\ pc[h] = "parked" /\ h # c
    BY <1>1 DEF TypeOK, QueueIsParked
  <1>3. TypeOK'
    BY <1>2 DEF TypeOK, States
  <1>4. SlotsConserved'
    <2>1. c \in Holders /\ h \notin Holders
      BY <1>2 DEF Holders
    <2>2. Holders' = (Holders \ {c}) \cup {h}
      BY <1>2 DEF Holders, TypeOK
    <2>3. Cardinality(Holders \ {c}) = Cardinality(Holders) - 1 /\ IsFiniteSet(Holders \ {c})
      BY <2>1, HoldersFinite, FS_RemoveElement
    <2>4. Cardinality(Holders') = Cardinality(Holders \ {c}) + 1
      BY <2>1, <2>2, <2>3, FS_AddElement
    <2> QED BY <2>3, <2>4 DEF SlotsConserved, TypeOK
  <1>5. QueueIsParked'
    <2>1. ASSUME NEW i \in 1..Len(waiters'), NEW j \in 1..Len(waiters'), waiters'[i] = waiters'[j]
          PROVE i = j
      BY <1>1, <2>1 DEF QueueIsParked
    <2>2. \A i \in 1..Len(waiters') : waiters'[i] # h
      BY <1>1 DEF QueueIsParked
    <2>3. ASSUME NEW d \in Calls
          PROVE pc'[d] = "parked" <=> \E i \in 1..Len(waiters') : waiters'[i] = d
      <3>1. CASE d = h
        BY <1>2, <2>2, <3>1 DEF TypeOK
      <3>2. CASE d # h
        <4>1. (\E i \in 1..Len(waiters) : waiters[i] = d)
                <=> (\E i \in 1..Len(waiters') : waiters'[i] = d)
          <5>1. ASSUME NEW i \in 1..Len(waiters), waiters[i] = d
                PROVE i - 1 \in 1..Len(waiters') /\ waiters'[i - 1] = d
            BY <1>1, <3>2, <5>1
          <5>2. ASSUME NEW i \in 1..Len(waiters'), waiters'[i] = d
                PROVE i + 1 \in 1..Len(waiters) /\ waiters[i + 1] = d
            BY <1>1, <5>2
          <5> QED BY <5>1, <5>2
        <4> QED BY <1>2, <3>2, <4>1 DEF QueueIsParked, TypeOK
      <3> QED BY <3>1, <3>2
    <2> QED BY <2>1, <2>3 DEF QueueIsParked
  <1>6. NoIdleSlot'
    BY <1>1, Limits DEF NoIdleSlot, TypeOK
  <1> QED BY <1>3, <1>4, <1>5, <1>6

\* With nobody waiting the slot is freed, and the counter follows.
LEMMA ReleaseIInv == ASSUME IInv, NEW c \in Calls, Release(c) PROVE IInv'
  <1> USE DEF IInv, Release
  <1>1. c \in Holders /\ Holders' = Holders \ {c}
    BY DEF Holders, TypeOK
  <1>2. Cardinality(Holders') = Cardinality(Holders) - 1
    BY <1>1, HoldersFinite, FS_RemoveElement
  <1>3. Cardinality(Holders') \in Nat
    BY <1>1, HoldersFinite, FS_Subset, FS_CardinalityType
  <1>4. TypeOK' /\ SlotsConserved'
    BY <1>2, <1>3, Limits DEF TypeOK, SlotsConserved, States
  <1>5. QueueIsParked' /\ NoIdleSlot'
    BY DEF QueueIsParked, NoIdleSlot, TypeOK
  <1> QED BY <1>4, <1>5

\* Every step keeps the invariant.
LEMMA NextIInv == IInv /\ [Next]_vars => IInv'
  <1> SUFFICES ASSUME IInv, [Next]_vars PROVE IInv'
    OBVIOUS
  <1>1. CASE UNCHANGED vars
    BY <1>1 DEF vars, IInv, TypeOK, SlotsConserved, QueueIsParked, NoIdleSlot, Holders
  <1>2. CASE Next
    <2> PICK c \in Calls : Enter(c) \/ Park(c) \/ Refuse(c) \/ Resume(c) \/ HandOver(c) \/ Release(c)
      BY <1>2 DEF Next
    <2>1. CASE Refuse(c)
      BY <1>1, <2>1 DEF Refuse, vars, IInv, TypeOK, SlotsConserved, QueueIsParked, NoIdleSlot, Holders
    <2> QED BY <2>1, EnterIInv, ParkIInv, ResumeIInv, HandOverIInv, ReleaseIInv
  <1> QED BY <1>1, <1>2

\* The counter, the queue and the program counters stay in their types; the counter is bounded.
THEOREM LimiterTypeCorrect == Spec => []TypeOK
  <1>1. IInv => TypeOK
    BY DEF IInv
  <1> QED BY <1>1, InitIInv, NextIInv, PTL DEF Spec

\* The counter is the number of slots owned, in particular in the gap between a hand-over and the
\* continuation it wakes, and at most `max`; the queue holds the parked callers, each once and within its cap;
\* and nobody waits while a slot is free.
THEOREM LimiterStaysExact == Spec => []LimiterIsExact
  <1>1. IInv => LimiterIsExact
    BY DEF IInv, LimiterIsExact
  <1> QED BY <1>1, InitIInv, NextIInv, PTL DEF Spec

\* A fresh call never starts ahead of a parked one: with somebody parked every slot is taken.
THEOREM LimiterIsFair == Spec => NoOvertaking
  <1>1. IInv /\ [Next]_vars => [\A c \in Calls : pc[c] = "idle" /\ pc'[c] = "running" => waiters = <<>>]_vars
    <2> SUFFICES ASSUME IInv, Next, NEW c \in Calls, pc[c] = "idle", pc'[c] = "running"
                 PROVE waiters = <<>>
      BY DEF vars
    <2> PICK d \in Calls : Enter(d) \/ Park(d) \/ Refuse(d) \/ Resume(d) \/ HandOver(d) \/ Release(d)
      BY DEF Next
    <2>1. CASE Enter(d)
      BY <2>1, Limits DEF IInv, NoIdleSlot, Enter, TypeOK
    <2>2. CASE Park(d) \/ Refuse(d) \/ Resume(d) \/ Release(d)
      BY <2>2 DEF IInv, TypeOK, Park, Refuse, Resume, Release, vars
    <2>3. CASE HandOver(d)
      BY <2>3 DEF IInv, TypeOK, HandOver
    <2> QED BY <2>1, <2>2, <2>3
  <1> QED BY <1>1, InitIInv, NextIInv, PTL DEF Spec, NoOvertaking

-----------------------------------------------------------------------------
(* Bulk batches                                                             *)

Working == {"mark", "sending", "cadence", "save", "reread", "final"}
Total(r) == r.sent + r.failed + r.pending + r.cancelled
Handled(r) == r.sent + r.failed
Unsent(b) == \A i \in 1 .. Items : sends[b][i] = 0

\* A batch that was not inserted yet has nothing.
Uninserted(b) ==
    creator[b] # "done" =>
       /\ batch[b] = NoBatch /\ exec[b].pc = "idle" /\ canceller[b].pc = "idle"
       /\ b \notin heeded \cup early /\ late[b] = 0 /\ Unsent(b)

\* Before the executor has read the row, the row is new, or cancelled while new.
Loading(b) ==
    exec[b].pc = "load" =>
       /\ creator[b] = "done" /\ b \notin heeded /\ late[b] = 0 /\ Unsent(b)
       /\ batch[b] = NewBatch \/ (b \in early /\ batch[b] = Cancelled(NewBatch))
       /\ canceller[b].pc = "save" => b \in early /\ canceller[b].copy = Cancelled(NewBatch)

\* The copy of the executor accounts for every item, and for every send.
Counting(b) ==
    exec[b].pc \in Working =>
       LET c == exec[b].copy IN
       /\ creator[b] = "done" /\ going[b] # "none"
       /\ c.sent = SentOf(b) /\ \A i \in 1 .. Items : sends[b][i] > 0 => i <= c.next
       /\ \/ Handled(c) = c.next
          \/ exec[b].pc \in {"reread", "final"} /\ Handled(c) = c.next + 1 /\ c.next < Items
       /\ exec[b].pc = "mark" => c.next = 0
       /\ exec[b].pc = "sending" => c.next < Items
       /\ exec[b].pc # "final" => Handled(c) + c.pending \in {0, Items}
       /\ b \notin early => Total(c) = Items /\ (c.status # "cancelled" => c.cancelled = 0)

\* Its status is the final one only at the end, and completed only when every item was handled.
Deciding(b) ==
    exec[b].pc \in Working =>
       LET c == exec[b].copy IN
       /\ exec[b].pc # "final" => c.status = "processing" \/ (exec[b].pc = "reread" /\ c.status = "failed")
       /\ exec[b].pc = "reread" => \/ c.status = "failed"
                                   \/ Handled(c) = c.next /\ (going[b] = "on" => c.next = Items)
       /\ exec[b].pc = "final" => c.status \in Terminal /\ (c.status = "completed" => Handled(c) = Items)

\* The row claims no send that did not happen, and accounts for every item unless it was cancelled too early.
Claiming(b) ==
    batch[b].status # "none" =>
       /\ batch[b].sent <= SentOf(b)
       /\ b \notin early => Total(batch[b]) = Items /\ (batch[b].status # "cancelled" => batch[b].cancelled = 0)
       /\ batch[b].status = "completed" =>
             exec[b].pc \in {"idle", "done"} /\ batch[b].sent = SentOf(b) /\ Handled(batch[b]) = Items
       /\ batch[b].status = "processing" /\ b \notin mishap => exec[b].pc \in Working

\* So does the copy of a cancellation.
Cancelling(b) ==
    canceller[b].pc = "save" =>
       /\ batch[b].status # "none" /\ canceller[b].copy.status = "cancelled" /\ canceller[b].copy.sent <= SentOf(b)
       /\ b \notin early => Total(canceller[b].copy) = Items

\* A cancellation of a running batch lowers the flag for good.
Heeding(b) ==
    /\ going[b] = "on" => exec[b].pc \in Working
    /\ b \in heeded => /\ going[b] # "on" /\ exec[b].pc \notin {"load", "mark"}
                       /\ exec[b].pc = "final" => exec[b].copy.status = "cancelled"
                       /\ exec[b].pc = "done" /\ b \notin mishap => batch[b].status = "cancelled"
    /\ late[b] <= 1
    /\ late[b] > 0 => going[b] # "on" /\ exec[b].pc \notin {"load", "mark", "sending"}

Once(b) == \A i \in 1 .. Items : sends[b][i] <= 1

\* The inductive invariant: what the row, the copies and the history of sends have to do with each other at each
\* await of the executor.
Accounted(b) ==
    Once(b) /\ Uninserted(b) /\ Loading(b) /\ Counting(b) /\ Deciding(b) /\ Claiming(b) /\ Cancelling(b) /\ Heeding(b)
BulkInv == BulkTypeOK /\ InFlightIsExact /\ \A b \in Batches : Accounted(b)

-----------------------------------------------------------------------------
(* Rows, sends and slots                                                    *)

PcSet == {"idle", "load", "mark", "sending", "cadence", "save", "reread", "final", "done"}
ExecSet == [pc : PcSet, copy : BatchRows]
CancelSet == [pc : {"idle", "save"}, copy : BatchRows]

\* What a row consists of.
LEMMA RowTyped ==
    ASSUME NEW status \in {"none", "pending", "processing"} \cup Terminal, NEW sent \in 0 .. Items, NEW failed \in 0 .. Items,
           NEW pending \in -Items .. Items, NEW cancelled \in -Items .. Items, NEW next \in 0 .. Items
    PROVE  Row(status, sent, failed, pending, cancelled, next) \in BatchRows
  BY DEF Row, BatchRows
LEMMA RowFields ==
    ASSUME NEW r \in BatchRows
    PROVE  /\ r.status \in {"none", "pending", "processing", "completed", "cancelled", "failed"}
           /\ r.sent \in 0 .. Items /\ r.failed \in 0 .. Items /\ r.pending \in -Items .. Items
           /\ r.cancelled \in -Items .. Items /\ r.next \in 0 .. Items
           /\ r.sent \in Nat /\ r.failed \in Nat /\ r.next \in Nat /\ r.pending \in Int /\ r.cancelled \in Int
  BY BulkAssumption DEF BatchRows, Terminal
LEMMA CopiesTyped ==
    ASSUME NEW r \in BatchRows
    PROVE  /\ As(r, "processing") \in BatchRows /\ As(r, "failed") \in BatchRows /\ As(r, "completed") \in BatchRows
           /\ Cancelled(r) \in BatchRows /\ NoBatch \in BatchRows /\ NewBatch \in BatchRows
  <1>1. {"none", "pending", "processing", "completed", "cancelled", "failed"} = {"none", "pending", "processing"} \cup Terminal
    BY DEF Terminal
  <1>2. 0 \in 0 .. Items /\ 0 \in -Items .. Items /\ Items \in -Items .. Items
    BY BulkAssumption
  <1> QED BY <1>1, <1>2, RowFields, RowTyped DEF As, Cancelled, NoBatch, NewBatch

\* The recipients reached are finitely many; they stay the same while nothing is sent, and one is added by a first send.
LEMMA SentType == ASSUME NEW b \in Batches PROVE SentOf(b) \in Nat /\ SentOf(b)' \in Nat
  <1>1. IsFiniteSet(1 .. Items)
    BY FS_Interval, BulkAssumption
  <1>2. /\ IsFiniteSet({i \in 1 .. Items : sends[b][i] > 0})
        /\ IsFiniteSet({i \in 1 .. Items : sends'[b][i] > 0})
    BY <1>1, FS_Subset
  <1> QED BY <1>2, FS_CardinalityType DEF SentOf
LEMMA SentSame == ASSUME NEW b \in Batches, sends'[b] = sends[b] PROVE SentOf(b)' = SentOf(b)
  BY DEF SentOf
LEMMA SentUp ==
    ASSUME NEW b \in Batches, sends[b] \in [1 .. Items -> Nat], NEW n \in 1 .. Items, sends[b][n] = 0,
           sends'[b] = [sends[b] EXCEPT ![n] = @ + 1]
    PROVE  SentOf(b)' = SentOf(b) + 1
  <1> DEFINE S == {i \in 1 .. Items : sends[b][i] > 0}
             T == {i \in 1 .. Items : sends'[b][i] > 0}
  <1>1. IsFiniteSet(S)
    <2>1. IsFiniteSet(1 .. Items)
      BY FS_Interval, BulkAssumption
    <2>2. S \in SUBSET (1 .. Items)
      OBVIOUS
    <2>3. \A U \in SUBSET (1 .. Items) : IsFiniteSet(U)
      BY <2>1, FS_Subset
    <2> QED BY <2>2, <2>3
  <1>2. \A i \in 1 .. Items : sends[b][i] \in Nat /\ (i # n => sends'[b][i] = sends[b][i]) /\ sends'[b][n] = 1
    <2>1. sends'[b][n] = sends[b][n] + 1
      OBVIOUS
    <2>2. \A i \in 1 .. Items : sends[b][i] \in Nat
      OBVIOUS
    <2>3. \A i \in 1 .. Items : i # n => sends'[b][i] = sends[b][i]
      OBVIOUS
    <2>4. sends'[b][n] = 1
      BY <2>1
    <2> QED BY <2>2, <2>3, <2>4
  <1>3. T = S \cup {n} /\ n \notin S
    BY <1>2
  <1> HIDE DEF S, T
  <1>4. Cardinality(T) = Cardinality(S) + 1
    BY <1>1, <1>3, FS_AddElement
  <1> QED BY <1>4 DEF SentOf, S, T

\* The slots in use.
Busy == {b \in Batches : exec[b].pc \notin {"idle", "load", "done"}}
LEMMA BusyFinite == IsFiniteSet(Busy)
  BY FS_Subset, BulkAssumption DEF Busy
LEMMA SlotsSame ==
    ASSUME BulkInv, inFlight' = inFlight,
           \A b \in Batches : exec[b].pc \in {"idle", "load", "done"} <=> exec'[b].pc \in {"idle", "load", "done"}
    PROVE  InFlightIsExact'
  <1>1. {b \in Batches : exec[b].pc \notin {"idle", "load", "done"}} = {b \in Batches : exec'[b].pc \notin {"idle", "load", "done"}}
    OBVIOUS
  <1> QED BY <1>1 DEF BulkInv, InFlightIsExact
LEMMA SlotTaken ==
    ASSUME BulkInv, NEW b \in Batches, inFlight' = inFlight + 1, exec[b].pc = "load", exec'[b].pc = "mark",
           \A o \in Batches \ {b} : exec'[o] = exec[o]
    PROVE  InFlightIsExact'
  <1> DEFINE Later == {o \in Batches : exec'[o].pc \notin {"idle", "load", "done"}}
  <1>1. Later = Busy \cup {b} /\ b \notin Busy
    BY DEF Busy
  <1>2. Cardinality(Later) = Cardinality(Busy) + 1
    BY <1>1, BusyFinite, FS_AddElement
  <1> QED BY <1>2 DEF BulkInv, InFlightIsExact, Busy
LEMMA SlotReturned ==
    ASSUME BulkInv, NEW b \in Batches, inFlight' = inFlight - 1, exec[b].pc \in Working, exec'[b].pc = "done",
           \A o \in Batches \ {b} : exec'[o] = exec[o]
    PROVE  InFlightIsExact' /\ inFlight' \in Nat
  <1> DEFINE Later == {o \in Batches : exec'[o].pc \notin {"idle", "load", "done"}}
  <1>1. Later = Busy \ {b} /\ b \in Busy
    BY DEF Busy, Working
  <1>2. Cardinality(Later) = Cardinality(Busy) - 1 /\ Cardinality(Later) \in Nat
    BY <1>1, BusyFinite, FS_RemoveElement, FS_CardinalityType
  <1> QED BY <1>2 DEF BulkInv, InFlightIsExact, Busy

-----------------------------------------------------------------------------
(* The steps                                                                *)

\* A step of batch b leaves the others alone.
Elsewhere(b) ==
    \A o \in Batches \ {b} :
       /\ batch'[o] = batch[o] /\ exec'[o] = exec[o] /\ going'[o] = going[o] /\ creator'[o] = creator[o]
       /\ canceller'[o] = canceller[o] /\ sends'[o] = sends[o] /\ late'[o] = late[o]
       /\ (o \in heeded' <=> o \in heeded) /\ (o \in early' <=> o \in early) /\ (o \in mishap' <=> o \in mishap)

\* A batch nothing happens to stays accounted for.
LEMMA OthersStayAccounted ==
    ASSUME NEW b \in Batches, Accounted(b),
           batch'[b] = batch[b], exec'[b] = exec[b], going'[b] = going[b], creator'[b] = creator[b],
           canceller'[b] = canceller[b], sends'[b] = sends[b], late'[b] = late[b],
           b \in heeded' <=> b \in heeded, b \in early' <=> b \in early, b \in mishap' <=> b \in mishap
    PROVE  Accounted(b)'
  <1>1. SentOf(b)' = SentOf(b)
    BY SentSame
  <1>2. Once(b)' /\ Uninserted(b)' /\ Loading(b)' /\ Deciding(b)' /\ Heeding(b)'
    BY DEF Accounted, Once, Uninserted, Loading, Deciding, Heeding, Unsent
  <1>3. Counting(b)' /\ Claiming(b)' /\ Cancelling(b)'
    BY <1>1 DEF Accounted, Counting, Claiming, Cancelling
  <1> QED BY <1>2, <1>3 DEF Accounted

LEMMA StepOf ==
    ASSUME BulkInv, NEW b \in Batches, BulkTypeOK', InFlightIsExact', Elsewhere(b), Accounted(b)'
    PROVE  BulkInv'
  <1>1. ASSUME NEW o \in Batches, o # b PROVE Accounted(o)'
    BY <1>1, OthersStayAccounted DEF BulkInv, Elsewhere
  <1> QED BY <1>1 DEF BulkInv

LEMMA InitBulk == BulkInit => BulkInv
  <1> SUFFICES ASSUME BulkInit PROVE BulkInv
    OBVIOUS
  <1>1. NoBatch \in BatchRows
    <2>1. 0 \in 0 .. Items /\ 0 \in -Items .. Items
      BY BulkAssumption
    <2> QED BY <2>1, RowTyped DEF NoBatch
  <1>2. BulkTypeOK
    BY <1>1 DEF BulkInit, BulkTypeOK, NoExec, NoCancel
  <1>3. InFlightIsExact
    <2>1. {b \in Batches : exec[b].pc \notin {"idle", "load", "done"}} = {}
      BY DEF BulkInit, NoExec
    <2> QED BY <2>1, FS_EmptySet DEF BulkInit, InFlightIsExact
  <1>4. ASSUME NEW b \in Batches PROVE Accounted(b)
    <2>1. /\ batch[b] = NoBatch /\ exec[b].pc = "idle" /\ canceller[b].pc = "idle" /\ creator[b] = "idle"
          /\ going[b] = "none" /\ late[b] = 0 /\ Unsent(b) /\ b \notin heeded /\ batch[b].status = "none"
      BY DEF BulkInit, NoExec, NoCancel, Unsent, NoBatch, Row
    <2>2. Once(b)
      BY DEF BulkInit, Once
    <2>3. b \notin heeded \cup early
      BY DEF BulkInit
    <2> QED BY <2>1, <2>2, <2>3
            DEF Accounted, Uninserted, Loading, Counting, Deciding, Claiming, Cancelling, Heeding, Working
  <1> QED BY <1>2, <1>3, <1>4 DEF BulkInv

\* createBatch(): the checks, then the insert.
LEMMA CreateStep == ASSUME BulkInv, NEW b \in Batches, CreateBatch(b) \/ BatchInserted(b) PROVE BulkInv'
  <1> USE DEF BulkInv
  <1>1. CASE CreateBatch(b)
    <2>1. BulkTypeOK'
      BY <1>1 DEF BulkTypeOK, CreateBatch, cancels, bulkHistory
    <2>2. InFlightIsExact'
      BY <1>1, SlotsSame DEF CreateBatch
    <2>3. Elsewhere(b)
      BY <1>1 DEF CreateBatch, Elsewhere, cancels, bulkHistory, BulkTypeOK
    <2>4. /\ creator[b] = "idle" /\ creator'[b] = "insert"
          /\ UNCHANGED <<batch, exec, going, canceller, sends, late, heeded, early, mishap>>
      BY <1>1 DEF CreateBatch, cancels, bulkHistory, BulkTypeOK
    <2>5. SentOf(b)' = SentOf(b)
      BY <2>4, SentSame
    <2>6. Accounted(b)'
      BY <2>4, <2>5 DEF Accounted, Once, Uninserted, Loading, Counting, Deciding, Claiming, Cancelling, Heeding, Unsent
    <2> QED BY <2>1, <2>2, <2>3, <2>6, StepOf
  <1>2. CASE BatchInserted(b)
    <2>1. NewBatch \in BatchRows /\ NoBatch \in BatchRows
      <3>1. batch[b] \in BatchRows
        BY DEF BulkTypeOK
      <3> QED BY <3>1, CopiesTyped
    <2>2. /\ creator[b] = "insert" /\ creator'[b] = "done" /\ batch'[b] = NewBatch
          /\ exec'[b].pc = "load" /\ UNCHANGED <<going, inFlight, canceller, sends, late, heeded, early, mishap>>
          /\ exec[b].pc = "idle" /\ canceller[b].pc = "idle" /\ b \notin heeded /\ b \notin early /\ late[b] = 0 /\ Unsent(b)
      BY <1>2 DEF BatchInserted, cancels, bulkHistory, BulkTypeOK, Accounted, Uninserted
    <2>3. BulkTypeOK'
      BY <1>2, <2>1 DEF BulkTypeOK, BatchInserted, cancels, bulkHistory
    <2>4. Elsewhere(b)
      BY <1>2 DEF BatchInserted, Elsewhere, cancels, bulkHistory, BulkTypeOK
    <2>5. InFlightIsExact'
      BY <2>2, <2>4, SlotsSame DEF Elsewhere
    <2>6. batch'[b].status = "pending" /\ batch'[b].sent = 0 /\ batch'[b].cancelled = 0 /\ Total(batch'[b]) = Items
      BY <2>2, BulkAssumption DEF NewBatch, Row, Total
    <2>7. Once(b)' /\ Uninserted(b)' /\ Loading(b)' /\ Deciding(b)' /\ Counting(b)' /\ Heeding(b)' /\ Cancelling(b)'
      BY <2>2 DEF Accounted, Once, Uninserted, Loading, Counting, Deciding, Cancelling, Heeding, Unsent, Working
    <2>8. Claiming(b)'
      BY <2>6, SentType DEF Claiming
    <2> QED BY <2>3, <2>4, <2>5, <2>7, <2>8, StepOf DEF Accounted
  <1> QED BY <1>1, <1>2

\* cancelBatch(): the flag falls, and the copy taken then is saved later.
LEMMA CancelStep == ASSUME BulkInv, NEW b \in Batches, CancelBatch(b) PROVE BulkInv'
  <1> USE DEF BulkInv
  <1>1. batch[b] \in BatchRows /\ Cancelled(batch[b]) \in BatchRows
    BY CopiesTyped DEF BulkTypeOK
  <1>2. /\ UNCHANGED <<batch, exec, inFlight, creator, stopOnErr, sends, late, mishap>>
        /\ batch[b].status \notin {"none", "completed", "cancelled"}
        /\ going'[b] = "off" /\ canceller'[b].pc = "save" /\ canceller'[b].copy = Cancelled(batch[b])
        /\ b \in heeded' <=> b \in heeded \/ (going[b] = "on" /\ exec[b].pc \notin {"mark", "final"})
        /\ b \in early' <=> b \in early \/ exec[b].pc \in {"idle", "load", "mark"}
    BY DEF CancelBatch, BulkTypeOK, bulkHistory
  <1>3. BulkTypeOK'
    BY <1>1 DEF CancelBatch, BulkTypeOK, bulkHistory
  <1>4. InFlightIsExact'
    BY <1>2, SlotsSame
  <1>5. Elsewhere(b)
    BY DEF CancelBatch, BulkTypeOK, bulkHistory, Elsewhere
  <1>6. /\ creator[b] = "done" /\ SentOf(b)' = SentOf(b)
        /\ canceller'[b].copy.status = "cancelled" /\ canceller'[b].copy.sent = batch[b].sent
        /\ Total(canceller'[b].copy) = Total(batch[b]) - batch[b].cancelled
    <2>1. creator[b] = "done"
      BY <1>2 DEF Accounted, Uninserted, NoBatch, Row
    <2>2. SentOf(b)' = SentOf(b)
      BY <1>2, SentSame
    <2>3. Total(canceller'[b].copy) = Total(batch[b]) - batch[b].cancelled
      BY <1>1, <1>2, RowFields DEF Cancelled, Row, Total
    <2> QED BY <1>2, <2>1, <2>2, <2>3 DEF Cancelled, Row
  <1>7. Once(b)' /\ Uninserted(b)'
    BY <1>2, <1>6 DEF Accounted, Once, Uninserted
  <1>8. Loading(b)'
    <2>1. exec[b].pc = "load" => batch[b] = NewBatch
      BY <1>2 DEF Accounted, Loading, Cancelled, Row
    <2>2. exec[b].pc = "load" => going[b] # "on"
      BY DEF Accounted, Heeding, Working
    <2> QED BY <1>2, <1>6, <2>1, <2>2 DEF Accounted, Loading, Unsent
  <1>9. Counting(b)'
    BY <1>2, <1>6 DEF Accounted, Counting
  <1>10. Deciding(b)'
    BY <1>2, <1>6 DEF Accounted, Deciding
  <1>11. Claiming(b)'
    BY <1>2, <1>6 DEF Accounted, Claiming
  <1>12. Cancelling(b)'
    <2>1. b \notin early' => Total(batch[b]) = Items /\ batch[b].cancelled = 0
      BY <1>2 DEF Accounted, Claiming
    <2>2. batch[b].sent <= SentOf(b)
      BY <1>2 DEF Accounted, Claiming
    <2> QED BY <1>2, <1>6, <2>1, <2>2, BulkAssumption DEF Cancelling
  <1>13. Heeding(b)'
    <2>1. going[b] = "on" /\ exec[b].pc \notin {"mark", "final"} => exec[b].pc \notin {"load", "mark", "final", "done"}
      BY DEF Accounted, Heeding, Working
    <2> QED BY <1>2, <2>1 DEF Accounted, Heeding
  <1> QED BY <1>3, <1>4, <1>5, <1>7, <1>8, <1>9, <1>10, <1>11, <1>12, <1>13, StepOf DEF Accounted

LEMMA CancelSavedStep == ASSUME BulkInv, NEW b \in Batches, CancelSaved(b) PROVE BulkInv'
  <1> USE DEF BulkInv
  <1>1. canceller[b].copy \in BatchRows /\ NoBatch \in BatchRows
    BY CopiesTyped DEF BulkTypeOK
  <1>2. /\ UNCHANGED <<exec, inFlight, creator, going, stopOnErr, sends, late, mishap, heeded, early>>
        /\ batch'[b] = canceller[b].copy /\ canceller[b].pc = "save" /\ canceller'[b].pc = "idle"
    BY DEF CancelSaved, BulkTypeOK, bulkHistory, cancels, NoCancel
  <1>3. BulkTypeOK'
    BY <1>1 DEF CancelSaved, BulkTypeOK, bulkHistory, cancels, NoCancel
  <1>4. InFlightIsExact'
    BY <1>2, SlotsSame
  <1>5. Elsewhere(b)
    BY DEF CancelSaved, BulkTypeOK, bulkHistory, cancels, Elsewhere
  <1>6. SentOf(b)' = SentOf(b)
    BY <1>2, SentSame
  <1>7. /\ batch'[b].status = "cancelled" /\ batch'[b].sent <= SentOf(b)
        /\ b \notin early => Total(batch'[b]) = Items
    BY <1>2 DEF Accounted, Cancelling
  <1>8. Once(b)' /\ Uninserted(b)' /\ Loading(b)' /\ Deciding(b)' /\ Cancelling(b)' /\ Heeding(b)'
    BY <1>2, <1>7 DEF Accounted, Once, Uninserted, Loading, Deciding, Cancelling, Heeding, Unsent
  <1>9. Counting(b)'
    BY <1>2, <1>6 DEF Accounted, Counting
  <1>10. Claiming(b)'
    BY <1>2, <1>6, <1>7 DEF Claiming
  <1> QED BY <1>3, <1>4, <1>5, <1>8, <1>9, <1>10, StepOf DEF Accounted

\* The executor takes its copy of the row.
LEMMA LoadStep == ASSUME BulkInv, NEW b \in Batches, Load(b) PROVE BulkInv'
  <1> USE DEF BulkInv
  <1>1. batch[b] \in BatchRows /\ As(batch[b], "processing") \in BatchRows
    BY CopiesTyped DEF BulkTypeOK
  <1>2. /\ UNCHANGED <<batch, creator, stopOnErr, canceller, sends, late, mishap, heeded, early>>
        /\ exec[b].pc = "load" /\ exec'[b].pc = "mark" /\ exec'[b].copy = As(batch[b], "processing")
        /\ going'[b] = "on" /\ inFlight' = inFlight + 1
    BY DEF Load, BulkTypeOK, bulkHistory, cancels, apart
  <1>3. BulkTypeOK'
    BY <1>1 DEF Load, BulkTypeOK, bulkHistory, cancels, apart
  <1>4. Elsewhere(b)
    BY DEF Load, BulkTypeOK, bulkHistory, cancels, apart, Elsewhere
  <1>5. InFlightIsExact'
    BY <1>2, <1>4, SlotTaken DEF Elsewhere
  <1>6. /\ creator[b] = "done" /\ b \notin heeded /\ late[b] = 0 /\ Unsent(b)
        /\ batch[b] = NewBatch \/ (b \in early /\ batch[b] = Cancelled(NewBatch))
    BY <1>2 DEF Accounted, Loading
  <1>7. SentOf(b)' = SentOf(b) /\ SentOf(b) = 0
    <2>1. {i \in 1 .. Items : sends[b][i] > 0} = {}
      BY <1>6 DEF Unsent
    <2> QED BY <1>2, <2>1, SentSame, FS_EmptySet DEF SentOf
  <1>8. LET c == exec'[b].copy IN
        /\ c.status = "processing" /\ c.sent = 0 /\ c.failed = 0 /\ c.next = 0 /\ c.pending \in {0, Items}
        /\ b \notin early => c.pending = Items /\ c.cancelled = 0
    BY <1>2, <1>6 DEF As, NewBatch, Cancelled, Row
  <1>9. Once(b)' /\ Uninserted(b)' /\ Loading(b)' /\ Heeding(b)'
    BY <1>2, <1>6 DEF Accounted, Once, Uninserted, Loading, Heeding, Working
  <1>10. Counting(b)'
    BY <1>2, <1>6, <1>7, <1>8, BulkAssumption DEF Counting, Handled, Total, Unsent
  <1>11. Deciding(b)'
    BY <1>2, <1>8 DEF Deciding
  <1>12. Claiming(b)' /\ Cancelling(b)'
    <2>1. batch[b].status # "completed" /\ batch[b].status # "processing"
      BY <1>6 DEF NewBatch, Cancelled, Row
    <2> QED BY <1>2, <1>7, <2>1 DEF Accounted, Claiming, Cancelling
  <1> QED BY <1>3, <1>4, <1>5, <1>9, <1>10, <1>11, <1>12, StepOf DEF Accounted

\* The executor saves its copy, at the start and between the items, and goes on.
LEMMA SaveStep == ASSUME BulkInv, NEW b \in Batches, Mark(b) \/ CadenceSaved(b) PROVE BulkInv'
  <1> USE DEF BulkInv
  <1> DEFINE c == exec[b].copy
  <1>1. c \in BatchRows /\ As(c, "failed") \in BatchRows
    BY CopiesTyped DEF BulkTypeOK
  <1>2. /\ UNCHANGED <<creator, going, inFlight, stopOnErr, canceller, sends, late, mishap, heeded, early>>
        /\ exec[b].pc \in {"mark", "save"} /\ batch'[b] = c
        /\ batch' = [batch EXCEPT ![b] = c]
        /\ \/ exec' = [exec EXCEPT ![b] = [pc |-> NextPc(b, c), copy |-> c]]
           \/ exec' = [exec EXCEPT ![b] = [pc |-> "final", copy |-> As(c, "failed")]] /\ exec[b].pc = "mark"
    BY DEF Mark, CadenceSaved, BulkTypeOK, bulkHistory, cancels, apart
  <1>3. NextPc(b, c) \in {"sending", "reread"} /\ (NextPc(b, c) = "sending" <=> c.next < Items /\ going[b] = "on")
    BY DEF NextPc
  <1>4. /\ exec' \in [Batches -> ExecSet]
        /\ \A o \in Batches \ {b} : exec'[o] = exec[o]
        /\ \/ exec'[b].pc = NextPc(b, c) /\ exec'[b].copy = c
           \/ exec'[b].pc = "final" /\ exec'[b].copy = As(c, "failed") /\ exec[b].pc = "mark"
    <2>1. [pc |-> NextPc(b, c), copy |-> c] \in ExecSet /\ [pc |-> "final", copy |-> As(c, "failed")] \in ExecSet
      BY <1>1, <1>3 DEF ExecSet, PcSet
    <2>2. exec \in [Batches -> ExecSet]
      BY DEF BulkTypeOK, ExecSet, PcSet
    <2> QED BY <1>2, <2>1, <2>2
  <1>5. BulkTypeOK'
    BY <1>1, <1>2, <1>4 DEF BulkTypeOK, ExecSet, PcSet
  <1>6. Elsewhere(b)
    BY <1>2, <1>4 DEF Elsewhere, BulkTypeOK
  <1>7. InFlightIsExact'
    BY <1>2, <1>3, <1>4, SlotsSame
  <1>8. SentOf(b)' = SentOf(b) /\ SentOf(b) \in Nat
    BY <1>2, SentSame, SentType
  <1>9. /\ creator[b] = "done" /\ going[b] # "none" /\ c.sent = SentOf(b)
        /\ \A i \in 1 .. Items : sends[b][i] > 0 => i <= c.next
        /\ Handled(c) = c.next /\ Handled(c) + c.pending \in {0, Items} /\ c.status = "processing"
        /\ b \notin early => Total(c) = Items /\ c.cancelled = 0
    BY <1>2 DEF Accounted, Counting, Deciding, Working
  <1>10. c.next \in 0 .. Items /\ c.sent \in Nat /\ c.failed \in Nat
    BY <1>1, RowFields
  <1>11. /\ As(c, "failed").status = "failed" /\ As(c, "failed").sent = c.sent /\ As(c, "failed").next = c.next
         /\ As(c, "failed").cancelled = c.cancelled
         /\ Handled(As(c, "failed")) = Handled(c) /\ Total(As(c, "failed")) = Total(c)
    BY DEF As, Row, Handled, Total
  <1>12. Once(b)' /\ Uninserted(b)' /\ Loading(b)' /\ Cancelling(b)'
    BY <1>2, <1>3, <1>4, <1>8, <1>9 DEF Accounted, Once, Uninserted, Loading, Cancelling, Unsent
  <1>13. Counting(b)'
    BY <1>2, <1>3, <1>4, <1>8, <1>9, <1>11 DEF Counting, Working
  <1>14. Deciding(b)'
    BY <1>2, <1>3, <1>4, <1>9, <1>10, <1>11, BulkAssumption DEF Deciding, Working, Terminal
  <1>15. Claiming(b)'
    BY <1>2, <1>3, <1>4, <1>8, <1>9 DEF Claiming, Working
  <1>16. Heeding(b)'
    BY <1>2, <1>3, <1>4 DEF Accounted, Heeding, Working
  <1> QED BY <1>5, <1>6, <1>7, <1>12, <1>13, <1>14, <1>15, <1>16, StepOf DEF Accounted

\* An item is sent, or fails.
LEMMA ItemStep == ASSUME BulkInv, NEW b \in Batches, ItemSent(b) \/ ItemFailed(b) PROVE BulkInv'
  <1> USE DEF BulkInv
  <1> DEFINE c == exec[b].copy
             S == Row(c.status, c.sent + 1, c.failed, c.pending - 1, c.cancelled, c.next + 1)
             F == Row(c.status, c.sent, c.failed + 1, c.pending - 1, c.cancelled, c.next + 1)
             E == Row("failed", c.sent, c.failed + 1, c.pending - 1, c.cancelled, c.next)
             n == c.next + 1
  <1>1. exec[b].pc = "sending" /\ c \in BatchRows
    BY DEF ItemSent, ItemFailed, BulkTypeOK
  <1>2. /\ creator[b] = "done" /\ going[b] # "none" /\ c.sent = SentOf(b)
        /\ \A i \in 1 .. Items : sends[b][i] > 0 => i <= c.next
        /\ Handled(c) = c.next /\ c.next < Items /\ Handled(c) + c.pending \in {0, Items} /\ c.status = "processing"
        /\ b \notin early => Total(c) = Items /\ c.cancelled = 0
    BY <1>1 DEF Accounted, Counting, Deciding, Working
  <1>3. c.sent \in Nat /\ c.failed \in Nat /\ c.next \in Nat /\ c.pending \in Int /\ c.cancelled \in -Items .. Items
        /\ c.cancelled \in Int
    BY <1>1, RowFields
  <1>4. /\ c.sent + 1 \in 0 .. Items /\ c.failed + 1 \in 0 .. Items /\ c.next + 1 \in 0 .. Items
        /\ c.sent \in 0 .. Items /\ c.failed \in 0 .. Items /\ c.next \in 0 .. Items
        /\ c.pending - 1 \in -Items .. Items /\ n \in 1 .. Items
    BY <1>2, <1>3, BulkAssumption DEF Handled
  <1>5. S \in BatchRows /\ F \in BatchRows /\ E \in BatchRows
    BY <1>2, <1>3, <1>4, RowTyped DEF Terminal
  <1>6. /\ S.sent = c.sent + 1 /\ S.failed = c.failed /\ S.pending = c.pending - 1 /\ S.cancelled = c.cancelled
        /\ S.next = n /\ S.status = "processing"
        /\ F.sent = c.sent /\ F.failed = c.failed + 1 /\ F.pending = c.pending - 1 /\ F.cancelled = c.cancelled
        /\ F.next = n /\ F.status = "processing"
        /\ E.sent = c.sent /\ E.failed = c.failed + 1 /\ E.pending = c.pending - 1 /\ E.cancelled = c.cancelled
        /\ E.next = c.next /\ E.status = "failed"
    BY <1>2 DEF Row
  <1> HIDE DEF S, F, E
  <1>7. \A d \in {S, F} : /\ AfterItem(b, d) \in {"cadence", "sending", "reread"}
                          /\ AfterItem(b, d) = "sending" => n < Items /\ going[b] = "on"
                          /\ AfterItem(b, d) = "reread" => n = Items \/ going[b] # "on"
    <2> SUFFICES ASSUME NEW d \in {S, F}
                 PROVE  /\ AfterItem(b, d) \in {"cadence", "sending", "reread"}
                        /\ AfterItem(b, d) = "sending" => n < Items /\ going[b] = "on"
                        /\ AfterItem(b, d) = "reread" => n = Items \/ going[b] # "on"
      OBVIOUS
    <2>1. d.next = n
      BY <1>6
    <2> QED BY <1>4, <2>1, BulkAssumption DEF AfterItem, NextPc
  <1>8. /\ UNCHANGED <<batch, creator, going, inFlight, stopOnErr, canceller, mishap, heeded, early>>
        /\ \/ /\ exec' = [exec EXCEPT ![b] = [pc |-> AfterItem(b, S), copy |-> S]]
              /\ sends' = [sends EXCEPT ![b][n] = @ + 1]
              /\ late' = IF b \in heeded THEN [late EXCEPT ![b] = @ + 1] ELSE late
           \/ /\ exec' = [exec EXCEPT ![b] = [pc |-> AfterItem(b, F), copy |-> F]]
              /\ UNCHANGED <<sends, late>>
           \/ /\ exec' = [exec EXCEPT ![b] = [pc |-> "reread", copy |-> E]]
              /\ UNCHANGED <<sends, late>>
    BY DEF ItemSent, ItemFailed, BulkTypeOK, bulkHistory, cancels, apart, S, F, E
  <1>9. /\ sends' \in [Batches -> [1 .. Items -> Nat]] /\ late' \in [Batches -> Nat]
        /\ \A o \in Batches \ {b} : sends'[o] = sends[o] /\ late'[o] = late[o]
    <2>1. sends' \in [Batches -> [1 .. Items -> Nat]] /\ \A o \in Batches \ {b} : sends'[o] = sends[o]
      <3>1. sends \in [Batches -> [1 .. Items -> Nat]] /\ sends[b] \in [1 .. Items -> Nat]
        BY DEF BulkTypeOK
      <3>2. [sends[b] EXCEPT ![n] = @ + 1] \in [1 .. Items -> Nat]
        BY <1>4, <3>1
      <3>3. sends' = sends \/ sends' = [sends EXCEPT ![b] = [sends[b] EXCEPT ![n] = @ + 1]]
        BY <1>8, <3>1
      <3> QED BY <3>1, <3>2, <3>3
    <2>2. late' \in [Batches -> Nat] /\ \A o \in Batches \ {b} : late'[o] = late[o]
      <3>1. late' = late \/ late' = [late EXCEPT ![b] = @ + 1]
        BY <1>8
      <3>2. late \in [Batches -> Nat] /\ late[b] + 1 \in Nat
        BY DEF BulkTypeOK
      <3>3. CASE late' = late
        BY <3>2, <3>3
      <3>4. CASE late' = [late EXCEPT ![b] = @ + 1]
        <4>1. late' = [late EXCEPT ![b] = late[b] + 1]
          BY <3>4
        <4> QED BY <3>2, <4>1
      <3> QED BY <3>1, <3>3, <3>4
    <2> QED BY <2>1, <2>2
  <1>10. /\ exec' \in [Batches -> ExecSet]
         /\ \A o \in Batches \ {b} : exec'[o] = exec[o]
         /\ \/ exec'[b].pc = AfterItem(b, S) /\ exec'[b].copy = S /\ sends'[b] = [sends[b] EXCEPT ![n] = @ + 1]
            \/ exec'[b].pc = AfterItem(b, F) /\ exec'[b].copy = F /\ sends'[b] = sends[b] /\ late'[b] = late[b]
            \/ exec'[b].pc = "reread" /\ exec'[b].copy = E /\ sends'[b] = sends[b] /\ late'[b] = late[b]
    <2>1. /\ [pc |-> AfterItem(b, S), copy |-> S] \in ExecSet /\ [pc |-> AfterItem(b, F), copy |-> F] \in ExecSet
          /\ [pc |-> "reread", copy |-> E] \in ExecSet
      BY <1>5, <1>7 DEF ExecSet, PcSet
    <2>2. exec \in [Batches -> ExecSet] /\ sends \in [Batches -> [1 .. Items -> Nat]]
      BY DEF BulkTypeOK, ExecSet, PcSet
    <2> QED BY <1>8, <2>1, <2>2
  <1>11. BulkTypeOK'
    BY <1>8, <1>9, <1>10 DEF BulkTypeOK, ExecSet, PcSet
  <1>12. Elsewhere(b)
    BY <1>8, <1>9, <1>10 DEF Elsewhere
  <1>13. InFlightIsExact'
    BY <1>1, <1>7, <1>8, <1>10, SlotsSame
  <1>14. /\ SentOf(b)' \in Nat /\ SentOf(b)' = exec'[b].copy.sent /\ SentOf(b) <= SentOf(b)'
         /\ Once(b)' /\ \A i \in 1 .. Items : sends'[b][i] > 0 => i <= exec'[b].copy.next
    <2>1. CASE exec'[b].copy = S /\ sends'[b] = [sends[b] EXCEPT ![n] = @ + 1]
      <3>1. sends[b] \in [1 .. Items -> Nat] /\ sends[b][n] = 0
        <4>1. sends[b] \in [1 .. Items -> Nat] /\ sends[b][n] \in Nat
          BY <1>4 DEF BulkTypeOK
        <4>2. ~(sends[b][n] > 0)
          BY <1>2, <1>3, <1>4
        <4> QED BY <4>1, <4>2
      <3>2. SentOf(b)' = SentOf(b) + 1
        BY <1>4, <2>1, <3>1, SentUp
      <3>3. sends'[b][n] = 1 /\ \A i \in 1 .. Items : i # n => sends'[b][i] = sends[b][i]
        <4>1. sends'[b][n] = sends[b][n] + 1
          BY <1>4, <2>1, <3>1
        <4>2. \A i \in 1 .. Items : i # n => sends'[b][i] = sends[b][i]
          BY <1>4, <2>1, <3>1
        <4> QED BY <3>1, <4>1, <4>2
      <3>4. Once(b)'
        <4>1. \A i \in 1 .. Items : sends[b][i] <= 1
          BY DEF Accounted, Once
        <4> QED BY <3>3, <4>1 DEF Once
      <3>5. \A i \in 1 .. Items : sends'[b][i] > 0 => i <= n
        BY <1>2, <1>3, <3>3
      <3> QED BY <1>2, <1>3, <1>6, <2>1, <3>2, <3>4, <3>5, SentType
    <2>2. CASE exec'[b].copy \in {F, E} /\ sends'[b] = sends[b]
      <3>1. SentOf(b)' = SentOf(b)
        BY <2>2, SentSame
      <3>2. Once(b)'
        BY <2>2 DEF Accounted, Once
      <3>3. exec'[b].copy.sent = c.sent /\ exec'[b].copy.next \in {c.next, n}
        BY <1>6, <2>2
      <3> QED BY <1>2, <1>3, <2>2, <3>1, <3>2, <3>3, SentType
    <2> QED BY <1>10, <2>1, <2>2
  <1>15. Uninserted(b)' /\ Loading(b)'
    BY <1>2, <1>7, <1>8, <1>10 DEF Uninserted, Loading
  <1>16. Counting(b)'
    <2>1. /\ Handled(exec'[b].copy) = c.next + 1 /\ Handled(exec'[b].copy) + exec'[b].copy.pending = Handled(c) + c.pending
          /\ Total(exec'[b].copy) = Total(c) /\ exec'[b].copy.cancelled = c.cancelled
      BY <1>2, <1>3, <1>6, <1>10 DEF Handled, Total
    <2>2. \/ exec'[b].copy.next = c.next + 1 /\ (exec'[b].pc = "sending" => n < Items)
          \/ exec'[b].copy.next = c.next /\ exec'[b].pc = "reread"
      BY <1>6, <1>7, <1>10
    <2>3. exec'[b].pc \in {"cadence", "sending", "reread"}
      BY <1>7, <1>10
    <2> QED BY <1>2, <1>3, <1>8, <1>14, <2>1, <2>2, <2>3 DEF Counting
  <1>17. Deciding(b)'
    <2>1. \/ exec'[b].pc = "reread" /\ exec'[b].copy.status = "failed"
          \/ /\ exec'[b].pc \in {"cadence", "sending", "reread"} /\ exec'[b].copy.status = "processing"
             /\ Handled(exec'[b].copy) = n /\ exec'[b].copy.next = n
             /\ exec'[b].pc = "reread" => n = Items \/ going[b] # "on"
      BY <1>2, <1>3, <1>6, <1>7, <1>10 DEF Handled
    <2> QED BY <1>8, <2>1 DEF Deciding
  <1>18. Claiming(b)'
    <2>1. SentOf(b) <= SentOf(b)' /\ SentOf(b) \in Nat /\ SentOf(b)' \in Nat /\ batch[b].sent \in Nat
      BY <1>14, SentType, RowFields DEF BulkTypeOK
    <2>2. exec'[b].pc \in Working
      BY <1>7, <1>10 DEF Working
    <2> QED BY <1>1, <1>8, <2>1, <2>2 DEF Accounted, Claiming
  <1>19. Cancelling(b)'
    <2>1. SentOf(b) <= SentOf(b)' /\ SentOf(b) \in Nat /\ SentOf(b)' \in Nat /\ canceller[b].copy.sent \in Nat
      BY <1>14, SentType, RowFields DEF BulkTypeOK
    <2> QED BY <1>8, <2>1 DEF Accounted, Cancelling
  <1>20. Heeding(b)'
    <2>1. late[b] = 0
      BY <1>1 DEF Accounted, Heeding, BulkTypeOK
    <2>2. late'[b] = IF b \in heeded /\ exec'[b].copy = S THEN late'[b] ELSE 0
      BY <1>8, <1>10, <2>1
    <2>3. late'[b] \in {0, 1} /\ (late'[b] = 1 => b \in heeded)
      BY <1>8, <2>1 DEF BulkTypeOK
    <2>4. exec'[b].pc = "sending" => going[b] = "on"
      BY <1>7, <1>10
    <2>5. exec'[b].pc \in {"cadence", "sending", "reread"}
      BY <1>7, <1>10
    <2> QED BY <1>8, <2>3, <2>4, <2>5 DEF Accounted, Heeding, Working
  <1> QED BY <1>11, <1>12, <1>13, <1>14, <1>15, <1>16, <1>17, <1>18, <1>19, <1>20, StepOf DEF Accounted

\* The executor looks at the row again: between the items, and before it decides.
LEMMA ReadStep == ASSUME BulkInv, NEW b \in Batches, CadenceRead(b) \/ Reread(b) PROVE BulkInv'
  <1> USE DEF BulkInv
  <1> DEFINE c == exec[b].copy
             d == exec'[b].copy
  <1>1. exec[b].pc \in {"cadence", "reread"} /\ c \in BatchRows
    BY DEF CadenceRead, Reread, BulkTypeOK
  <1>2. UNCHANGED <<batch, creator, going, inFlight, stopOnErr, canceller, sends, late, mishap, heeded, early>>
    BY DEF CadenceRead, Reread, bulkHistory, cancels, apart
  <1>3. \/ exec' = [exec EXCEPT ![b] = [pc |-> "final", copy |-> Cancelled(c)]]
        \/ exec' = [exec EXCEPT ![b] = [pc |-> "save", copy |-> c]] /\ exec[b].pc = "cadence"
        \/ /\ exec' = [exec EXCEPT ![b] = [pc |-> "final", copy |-> As(c, "failed")]]
           /\ exec[b].pc = "reread" /\ going[b] = "on"
        \/ /\ exec' = [exec EXCEPT ![b] = [pc |-> "final", copy |-> As(c, "completed")]]
           /\ exec[b].pc = "reread" /\ going[b] = "on" /\ c.status # "failed"
    BY DEF CadenceRead, Reread, FinalStatus, BulkTypeOK
  <1>4. /\ exec' \in [Batches -> ExecSet] /\ \A o \in Batches \ {b} : exec'[o] = exec[o]
        /\ \/ exec'[b].pc = "final" /\ d = Cancelled(c)
           \/ exec'[b].pc = "save" /\ d = c /\ exec[b].pc = "cadence"
           \/ exec'[b].pc = "final" /\ d = As(c, "failed") /\ exec[b].pc = "reread" /\ going[b] = "on"
           \/ /\ exec'[b].pc = "final" /\ d = As(c, "completed")
              /\ exec[b].pc = "reread" /\ going[b] = "on" /\ c.status # "failed"
    <2>1. /\ [pc |-> "final", copy |-> Cancelled(c)] \in ExecSet /\ [pc |-> "save", copy |-> c] \in ExecSet
          /\ [pc |-> "final", copy |-> As(c, "failed")] \in ExecSet
          /\ [pc |-> "final", copy |-> As(c, "completed")] \in ExecSet
      BY <1>1, CopiesTyped DEF ExecSet, PcSet
    <2>2. exec \in [Batches -> ExecSet]
      BY DEF BulkTypeOK, ExecSet, PcSet
    <2> QED BY <1>3, <2>1, <2>2
  <1>5. BulkTypeOK'
    BY <1>2, <1>4 DEF BulkTypeOK, ExecSet, PcSet
  <1>6. Elsewhere(b)
    BY <1>2, <1>4 DEF Elsewhere
  <1>7. InFlightIsExact'
    BY <1>1, <1>2, <1>4, SlotsSame
  <1>8. SentOf(b)' = SentOf(b)
    BY <1>2, SentSame
  <1>9. /\ creator[b] = "done" /\ going[b] # "none" /\ c.sent = SentOf(b)
        /\ \A i \in 1 .. Items : sends[b][i] > 0 => i <= c.next
        /\ \/ Handled(c) = c.next
           \/ exec[b].pc = "reread" /\ Handled(c) = c.next + 1 /\ c.next < Items
        /\ Handled(c) + c.pending \in {0, Items}
        /\ b \notin early => Total(c) = Items /\ (c.status # "cancelled" => c.cancelled = 0)
        /\ c.status = "processing" \/ (exec[b].pc = "reread" /\ c.status = "failed")
        /\ exec[b].pc = "reread" => \/ c.status = "failed"
                                    \/ Handled(c) = c.next /\ (going[b] = "on" => c.next = Items)
    BY <1>1 DEF Accounted, Counting, Deciding, Working
  <1>10. /\ c.sent \in Nat /\ c.failed \in Nat /\ c.next \in Nat /\ c.pending \in Int /\ c.cancelled \in Int
    BY <1>1, RowFields
  <1>11. /\ d.sent = c.sent /\ Handled(d) = Handled(c) /\ d.next = c.next
         /\ exec'[b].pc \in {"save", "final"}
         /\ exec'[b].pc = "save" => d = c /\ exec[b].pc = "cadence"
         /\ exec'[b].pc = "final" => d.status \in {"cancelled", "failed", "completed"}
         /\ d.status \in {"failed", "completed"} => Total(d) = Total(c) /\ d.cancelled = c.cancelled
         /\ d.status = "cancelled" /\ c.cancelled = 0 => Total(d) = Total(c)
         /\ d.status = "completed" => exec[b].pc = "reread" /\ going[b] = "on" /\ c.status # "failed"
         /\ d.status # "cancelled" /\ exec'[b].pc = "final" => going[b] = "on"
    <2>1. /\ Cancelled(c).sent = c.sent /\ Cancelled(c).failed = c.failed /\ Cancelled(c).next = c.next
          /\ Cancelled(c).status = "cancelled" /\ Cancelled(c).pending = 0 /\ Cancelled(c).cancelled = c.pending
      BY DEF Cancelled, Row
    <2>2. \A st \in {"failed", "completed"} :
             /\ As(c, st).sent = c.sent /\ As(c, st).failed = c.failed /\ As(c, st).next = c.next
             /\ As(c, st).status = st /\ As(c, st).pending = c.pending /\ As(c, st).cancelled = c.cancelled
      BY DEF As, Row
    <2>3. CASE exec'[b].pc = "final" /\ d = Cancelled(c)
      BY <1>10, <2>1, <2>3 DEF Handled, Total
    <2>4. CASE exec'[b].pc = "save" /\ d = c /\ exec[b].pc = "cadence"
      BY <1>9, <2>4
    <2>5. CASE exec'[b].pc = "final" /\ d = As(c, "failed") /\ exec[b].pc = "reread" /\ going[b] = "on"
      BY <2>2, <2>5 DEF Handled, Total
    <2>6. CASE /\ exec'[b].pc = "final" /\ d = As(c, "completed")
               /\ exec[b].pc = "reread" /\ going[b] = "on" /\ c.status # "failed"
      BY <2>2, <2>6 DEF Handled, Total
    <2> QED BY <1>4, <2>3, <2>4, <2>5, <2>6
  <1> HIDE DEF d
  <1>12. Once(b)' /\ Uninserted(b)' /\ Loading(b)' /\ Cancelling(b)'
    BY <1>2, <1>8, <1>9, <1>11 DEF Accounted, Once, Uninserted, Loading, Cancelling
  <1>13. Counting(b)'
    <2>1. b \notin early => c.cancelled = 0
      BY <1>9
    <2>2. b \notin early => Total(d) = Items /\ (d.status # "cancelled" => d.cancelled = 0)
      BY <1>9, <1>11, <2>1
    <2> QED BY <1>2, <1>8, <1>9, <1>11, <2>2 DEF Counting, d, Working
  <1>14. Deciding(b)'
    <2>1. d.status = "completed" => Handled(d) = Items
      BY <1>9, <1>11
    <2>2. exec'[b].pc = "save" => d.status = "processing"
      BY <1>9, <1>11
    <2> QED BY <1>11, <2>1, <2>2 DEF Deciding, d, Terminal
  <1>15. Claiming(b)'
    BY <1>1, <1>2, <1>8, <1>11 DEF Accounted, Claiming, Working
  <1>16. Heeding(b)'
    BY <1>1, <1>2, <1>11 DEF Accounted, Heeding, Working, d
  <1> QED BY <1>5, <1>6, <1>7, <1>12, <1>13, <1>14, <1>15, <1>16, StepOf DEF Accounted

\* The executor ends: its last save, or a failing statement.
LEMMA EndStep == ASSUME BulkInv, NEW b \in Batches, FinalSaved(b) \/ ExecutorFails(b) PROVE BulkInv'
  <1> USE DEF BulkInv
  <1> DEFINE c == exec[b].copy
  <1>1. /\ exec[b].pc \in Working /\ c \in BatchRows /\ NoBatch \in BatchRows
    BY CopiesTyped DEF FinalSaved, ExecutorFails, BulkTypeOK, Working
  <1>2. /\ UNCHANGED <<creator, stopOnErr, canceller, sends, late, heeded, early>>
        /\ inFlight' = inFlight - 1 /\ going' = [going EXCEPT ![b] = "none"]
        /\ exec' = [exec EXCEPT ![b] = [pc |-> "done", copy |-> NoBatch]]
        /\ \/ exec[b].pc = "final" /\ batch' = [batch EXCEPT ![b] = c] /\ mishap' = mishap
           \/ batch' = batch /\ mishap' = mishap \cup {b}
    BY DEF FinalSaved, ExecutorFails, GiveBack, bulkHistory, cancels, apart
  <1>3. /\ exec' \in [Batches -> ExecSet] /\ \A o \in Batches \ {b} : exec'[o] = exec[o]
        /\ exec'[b].pc = "done" /\ going'[b] = "none"
    <2>1. [pc |-> "done", copy |-> NoBatch] \in ExecSet
      BY <1>1 DEF ExecSet, PcSet
    <2> QED BY <1>2, <2>1 DEF BulkTypeOK, ExecSet, PcSet
  <1>4. InFlightIsExact' /\ inFlight' \in Nat
    BY <1>1, <1>2, <1>3, SlotReturned
  <1>5. BulkTypeOK'
    <2>1. batch' \in [Batches -> BatchRows]
      BY <1>1, <1>2 DEF BulkTypeOK
    <2> QED BY <1>2, <1>3, <1>4, <2>1 DEF BulkTypeOK, ExecSet, PcSet
  <1>6. Elsewhere(b)
    BY <1>2, <1>3 DEF Elsewhere, BulkTypeOK
  <1>7. SentOf(b)' = SentOf(b) /\ SentOf(b) \in Nat
    BY <1>2, SentSame, SentType
  <1>8. \/ exec[b].pc = "final" /\ batch'[b] = c /\ (b \in mishap' <=> b \in mishap)
        \/ batch'[b] = batch[b] /\ b \in mishap'
    BY <1>2 DEF BulkTypeOK
  <1>9. /\ creator[b] = "done" /\ c.sent = SentOf(b)
        /\ b \notin early => Total(c) = Items /\ (c.status # "cancelled" => c.cancelled = 0)
        /\ exec[b].pc = "final" => c.status \in Terminal /\ (c.status = "completed" => Handled(c) = Items)
    BY <1>1 DEF Accounted, Counting, Deciding
  <1>10. Once(b)' /\ Uninserted(b)' /\ Loading(b)' /\ Counting(b)' /\ Deciding(b)'
    BY <1>2, <1>3, <1>9 DEF Accounted, Once, Uninserted, Loading, Counting, Deciding, Working
  <1>11. Claiming(b)'
    BY <1>2, <1>3, <1>7, <1>8, <1>9 DEF Accounted, Claiming, Terminal, Working
  <1>12. Cancelling(b)'
    <2>1. c.status # "none" \/ exec[b].pc # "final"
      BY <1>9 DEF Terminal
    <2> QED BY <1>2, <1>7, <1>8, <2>1 DEF Accounted, Cancelling
  <1>13. Heeding(b)'
    BY <1>2, <1>3, <1>8 DEF Accounted, Heeding
  <1> QED BY <1>4, <1>5, <1>6, <1>10, <1>11, <1>12, <1>13, StepOf DEF Accounted

\* A crash and the boot after it.
LEMMA CrashStep == ASSUME BulkInv, Crash PROVE BulkInv'
  <1> USE DEF BulkInv
  <1>1. UNCHANGED <<stopOnErr, sends, late, early, mishap>>
    BY DEF Crash
  <1>2. ASSUME NEW b \in Batches
        PROVE  /\ batch[b] \in BatchRows /\ batch'[b] \in BatchRows /\ NoBatch \in BatchRows
               /\ batch'[b] = IF batch[b].status = "processing" THEN As(batch[b], "failed") ELSE batch[b]
               /\ exec'[b] = NoExec /\ canceller'[b] = NoCancel /\ going'[b] = "none"
               /\ creator'[b] = IF creator[b] = "insert" THEN "idle" ELSE creator[b]
               /\ b \in heeded' <=> b \in heeded /\ batch'[b].status = "cancelled"
    <2>1. batch[b] \in BatchRows
      BY DEF BulkTypeOK
    <2>2. batch'[b] = IF batch[b].status = "processing" THEN As(batch[b], "failed") ELSE batch[b]
      BY DEF Crash, Bootstrap
    <2>3. batch'[b] \in BatchRows /\ NoBatch \in BatchRows
      BY <2>1, <2>2, CopiesTyped
    <2> QED BY <2>1, <2>2, <2>3 DEF Crash, BulkTypeOK
  <1>3. BulkTypeOK'
    <2>1. batch' \in [Batches -> BatchRows]
      BY <1>2 DEF Crash
    <2>2. exec' \in [Batches -> [pc : PcSet, copy : BatchRows]]
      BY <1>2 DEF Crash, NoExec, PcSet
    <2>3. canceller' \in [Batches -> [pc : {"idle", "save"}, copy : BatchRows]]
      BY <1>2 DEF Crash, NoCancel
    <2>4. /\ going' \in [Batches -> {"none", "on", "off"}] /\ creator' \in [Batches -> {"idle", "insert", "done"}]
          /\ inFlight' \in Nat /\ heeded' \subseteq Batches
      BY DEF Crash, BulkTypeOK
    <2> QED BY <1>1, <2>1, <2>2, <2>3, <2>4 DEF BulkTypeOK, PcSet
  <1>4. InFlightIsExact'
    <2>1. {b \in Batches : exec'[b].pc \notin {"idle", "load", "done"}} = {}
      BY <1>2 DEF NoExec
    <2> QED BY <2>1, FS_EmptySet DEF InFlightIsExact, Crash
  <1>5. ASSUME NEW b \in Batches PROVE Accounted(b)'
    <2>1. /\ exec'[b].pc = "idle" /\ canceller'[b].pc = "idle" /\ going'[b] = "none"
      BY <1>2 DEF NoExec, NoCancel
    <2>2. SentOf(b)' = SentOf(b)
      BY <1>1, SentSame
    <2>3. Uninserted(b)'
      BY <1>1, <1>2, <2>1 DEF Accounted, Uninserted, NoBatch, Row, Unsent
    <2>4. Once(b)' /\ Loading(b)' /\ Counting(b)' /\ Deciding(b)' /\ Cancelling(b)' /\ Heeding(b)'
      BY <1>1, <1>2, <2>1 DEF Accounted, Once, Loading, Counting, Deciding, Cancelling, Heeding, Working
    <2>5. Claiming(b)'
      <3>1. CASE batch[b].status = "processing"
        <4>1. /\ batch'[b].status = "failed" /\ batch'[b].sent = batch[b].sent /\ batch'[b].cancelled = batch[b].cancelled
              /\ Total(batch'[b]) = Total(batch[b])
          <5>1. batch'[b] = As(batch[b], "failed")
            BY <1>2, <3>1
          <5>2. /\ As(batch[b], "failed").status = "failed" /\ As(batch[b], "failed").sent = batch[b].sent
                /\ As(batch[b], "failed").failed = batch[b].failed /\ As(batch[b], "failed").pending = batch[b].pending
                /\ As(batch[b], "failed").cancelled = batch[b].cancelled
            BY DEF As, Row
          <5> QED BY <5>1, <5>2 DEF Total
        <4> QED BY <1>1, <2>2, <3>1, <4>1 DEF Accounted, Claiming
      <3>2. CASE batch[b].status # "processing"
        <4>1. batch'[b] = batch[b]
          BY <1>2, <3>2
        <4> QED BY <1>1, <2>1, <2>2, <3>2, <4>1 DEF Accounted, Claiming
      <3> QED BY <3>1, <3>2
    <2> QED BY <2>3, <2>4, <2>5 DEF Accounted
  <1> QED BY <1>3, <1>4, <1>5

-----------------------------------------------------------------------------

\* Every step keeps the invariant.
LEMMA BulkStep == ASSUME BulkInv, [BulkNext]_bulkVars PROVE BulkInv'
  <1>1. CASE BulkNext
    BY <1>1, CreateStep, CancelStep, CancelSavedStep, LoadStep, SaveStep, ItemStep, ReadStep, EndStep, CrashStep
       DEF BulkNext, Executes
  <1>2. CASE UNCHANGED bulkVars
    <2>1. BulkTypeOK' /\ InFlightIsExact'
      BY <1>2 DEF BulkInv, BulkTypeOK, InFlightIsExact, bulkVars
    <2>2. ASSUME NEW b \in Batches PROVE Accounted(b)'
      BY <1>2, <2>2, OthersStayAccounted DEF BulkInv, bulkVars
    <2> QED BY <2>1, <2>2 DEF BulkInv
  <1> QED BY <1>1, <1>2

\* What the invariant says of the rows.
LEMMA AccountedIsTrue == BulkInv => BatchIsTrue
  <1> SUFFICES ASSUME BulkInv PROVE BatchIsTrue
    OBVIOUS
  <1> USE DEF BulkInv
  <1>1. NoResend
    BY DEF NoResend, Accounted, Once
  <1>2. CountsAddUp
    BY DEF CountsAddUp, Accounted, Claiming, Total
  <1>3. CompletedIsTrue
    BY DEF CompletedIsTrue, Accounted, Claiming, Handled
  <1>4. ProcessingIsDriven
    BY DEF ProcessingIsDriven, Accounted, Claiming, Working
  <1>5. CancelHolds
    BY DEF CancelHolds, CancelStopsSends, CancelIsKept, Accounted, Heeding, BulkTypeOK
  <1> QED BY <1>1, <1>2, <1>3, <1>4, <1>5 DEF BatchIsTrue

\* The invariant holds in every state.
THEOREM BulkStaysAccounted == BulkSpec => []BulkInv
  BY InitBulk, BulkStep, PTL DEF BulkSpec

\* For any batches, items, cadence, cap and faults (executeBatch(), cancelBatch(), onApplicationBootstrap()): nobody
\* gets a message twice, the counters and COMPLETED are true, PROCESSING and the slots of the cap belong to an
\* executor, and the cancellation of a running batch holds.
THEOREM BatchStaysTrue == BulkSpec => []BatchIsTrue
  BY BulkStaysAccounted, AccountedIsTrue, PTL

-----------------------------------------------------------------------------
(* Webhooks                                                                 *)

Clean(d, causes) == cause[d] \cap causes = {}

\* Where the two ways of a delivery are: the queue has nothing of it before dispatch() has come to the add, and
\* both are under way only after an add that was rejected although the job was stored.
Placed(d) ==
    /\ sender[d].attempt + 1 <= Attempts(d) /\ job[d].made + 1 <= Attempts(d)
    /\ sender[d].at \in {"idle", "before", "adding"} => job[d].at = "none" /\ posts[d] = 0 /\ sender[d].attempt = 0
    /\ sender[d].at \in {"posting", "touching"} => job[d].at = "none" \/ "twice" \in cause[d]
    /\ job[d].at = "none" => job[d].made = 0 /\ job[d].stalls = 0

\* The requests of either way so far, at most: the running attempt counts once its request is out.
DirectShare(d) ==
    IF job[d].at # "none" /\ "twice" \notin cause[d] THEN 0
    ELSE IF sender[d].at \in {"touching", "settled"} THEN sender[d].attempt + 1 ELSE sender[d].attempt
QueuedShare(d) ==
    IF job[d].at \in {"none", "waiting", "posting"} THEN job[d].made + job[d].stalls
    ELSE job[d].made + 1 + job[d].stalls
Measured(d) == posts[d] <= DirectShare(d) + QueuedShare(d)

\* As long as one way is taken only and the process lives, there is no verdict before its end.
Undecided(d) ==
    Clean(d, {"twice", "crash"}) =>
       /\ failures[d] + delivered[d] <= 1
       /\ job[d].at = "none" /\ sender[d].at # "settled" => failures[d] + delivered[d] = 0
       /\ job[d].at \in {"waiting", "posting", "touching", "failing"} => failures[d] + delivered[d] = 0
       /\ job[d].at = "throwing" /\ failures[d] + delivered[d] > 0 => IsFinalAttempt(d)

\* If no statement failed either, an accepted request is on its way to the verdict "delivered".
Accepted(d) ==
    Clean(d, {"twice", "crash", "db"}) /\ ok[d] > 0 =>
       /\ failures[d] = 0
       /\ job[d].at = "none" => sender[d].at \in {"touching", "settled"}
       /\ job[d].at # "none" => job[d].at \in {"touching", "returning", "completed"}

\* What is over, or about to be, has an accepted request or a row, unless there is a reason for neither.
Answered(d) ==
    Clean(d, {"unwanted", "cancelled", "unserialisable", "db", "crash"}) =>
       /\ sender[d].at = "touching" => ok[d] > 0
       /\ sender[d].at = "settled" /\ job[d].at = "none" => ok[d] > 0 \/ failures[d] > 0
       /\ job[d].at \in {"touching", "returning", "completed"} => ok[d] > 0
       /\ job[d].at = "throwing" /\ IsFinalAttempt(d) => failures[d] > 0
       /\ job[d].at = "failed" => failures[d] > 0

\* The inductive invariant: what a delivery has come to depends on where its two ways are, which VerdictIsTrue
\* does not say.
Sound(d) == Placed(d) /\ Measured(d) /\ Undecided(d) /\ Accepted(d) /\ Answered(d)
DeliveryInv == DeliveryTypeOK /\ \A d \in Deliveries : Sound(d)

\* A delivery has at least one attempt.
LEMMA SomeAttempt == ASSUME DeliveryTypeOK, NEW d \in Deliveries PROVE retryCount[d] \in Nat /\ Attempts(d) \in Nat \ {0}
  <1>1. retryCount[d] \in RetryCounts
    BY DEF DeliveryTypeOK
  <1>2. retryCount[d] \in Nat
    BY <1>1, DeliveryAssumption
  <1> QED BY <1>2 DEF Attempts

\* The initial state satisfies the invariant.
LEMMA InitDelivery == DeliveryInit => DeliveryInv
  <1> SUFFICES ASSUME DeliveryInit PROVE DeliveryInv
    OBVIOUS
  <1>1. DeliveryTypeOK
    BY DeliveryAssumption DEF DeliveryInit, DeliveryTypeOK, Idle, NoJob, SenderStages, JobStages
  <1>2. ASSUME NEW d \in Deliveries PROVE Sound(d)
    <2>1. /\ sender[d].at = "idle" /\ sender[d].attempt = 0
          /\ job[d].at = "none" /\ job[d].made = 0 /\ job[d].stalls = 0
          /\ posts[d] = 0 /\ ok[d] = 0 /\ failures[d] = 0 /\ delivered[d] = 0 /\ cause[d] = {}
      BY DEF DeliveryInit, Idle, NoJob
    <2> QED BY <1>1, <2>1, SomeAttempt
            DEF Sound, Placed, Measured, DirectShare, QueuedShare, Undecided, Accepted, Answered, Clean
  <1> QED BY <1>1, <1>2 DEF DeliveryInv

\* A delivery nothing happens to stays sound.
LEMMA OthersStaySound ==
    ASSUME NEW d \in Deliveries, Sound(d), retryCount' = retryCount,
           sender'[d] = sender[d], job'[d] = job[d], posts'[d] = posts[d], ok'[d] = ok[d],
           failures'[d] = failures[d], delivered'[d] = delivered[d], cause'[d] = cause[d]
    PROVE  Sound(d)'
  BY DEF Sound, Placed, Measured, DirectShare, QueuedShare, Undecided, Accepted, Answered, Clean, Attempts, IsFinalAttempt

Causes == {"unwanted", "cancelled", "unserialisable", "twice", "db", "crash"}

\* What a change of one delivery's place does to the variable and its type.
LEMMA SenderMoves ==
    ASSUME DeliveryTypeOK, NEW d \in Deliveries, NEW to \in SenderStages, sender' = [sender EXCEPT ![d].at = to]
    PROVE  /\ sender' \in [Deliveries -> [at : SenderStages, attempt : Nat]]
           /\ sender'[d].at = to /\ sender'[d].attempt = sender[d].attempt
           /\ \A o \in Deliveries \ {d} : sender'[o] = sender[o]
  BY DEF DeliveryTypeOK
LEMMA JobMoves ==
    ASSUME DeliveryTypeOK, NEW d \in Deliveries, NEW to \in JobStages, job' = [job EXCEPT ![d].at = to]
    PROVE  /\ job' \in [Deliveries -> [at : JobStages, made : Nat, stalls : 0 .. 1]]
           /\ job'[d].at = to /\ job'[d].made = job[d].made /\ job'[d].stalls = job[d].stalls
           /\ \A o \in Deliveries \ {d} : job'[o] = job[o]
  BY DEF DeliveryTypeOK
LEMMA SenderRetries ==
    ASSUME DeliveryTypeOK, NEW d \in Deliveries, NEW to \in SenderStages, NEW n \in Nat,
           sender' = [sender EXCEPT ![d] = [at |-> to, attempt |-> n]]
    PROVE  /\ sender' \in [Deliveries -> [at : SenderStages, attempt : Nat]]
           /\ sender'[d].at = to /\ sender'[d].attempt = n
           /\ \A o \in Deliveries \ {d} : sender'[o] = sender[o]
  BY DEF DeliveryTypeOK
LEMMA CauseNoted ==
    ASSUME DeliveryTypeOK, NEW d \in Deliveries, NEW what \in Causes, Note(d, what)
    PROVE  /\ cause' \in [Deliveries -> SUBSET Causes]
           /\ cause'[d] = cause[d] \cup {what}
           /\ \A o \in Deliveries \ {d} : cause'[o] = cause[o]
  BY DEF DeliveryTypeOK, Note, Causes

\* A step of delivery d leaves the others alone.
OtherDeliveries(d) ==
    \A o \in Deliveries \ {d} :
       /\ sender'[o] = sender[o] /\ job'[o] = job[o] /\ posts'[o] = posts[o] /\ ok'[o] = ok[o]
       /\ failures'[o] = failures[o] /\ delivered'[o] = delivered[o] /\ cause'[o] = cause[o]

\* dispatch() and the answer of the webhook:before hook: nothing has been sent or queued yet.
LEMMA BeforeSending ==
    ASSUME DeliveryInv, NEW d \in Deliveries, Dispatch(d) \/ BeforeAnswered(d)
    PROVE  DeliveryTypeOK' /\ OtherDeliveries(d) /\ Sound(d)'
  <1> USE DEF DeliveryInv
  <1>1. /\ \E to \in SenderStages : sender' = [sender EXCEPT ![d].at = to]
        /\ UNCHANGED <<queueEnabled, retryCount, crashes, job, posts, ok, failures, delivered>>
        /\ sender[d].at \in {"idle", "before"}
    BY DEF Dispatch, BeforeAnswered, Move, SenderStages, fixed, outcome
  <1>2. \/ cause' = cause /\ \E to \in {"before", "adding", "posting"} : sender' = [sender EXCEPT ![d].at = to]
        \/ /\ sender' = [sender EXCEPT ![d].at = "settled"]
           /\ \E what \in {"unwanted", "db", "cancelled", "unserialisable"} : Note(d, what)
    BY DEF Dispatch, BeforeAnswered, Move, DbFailed
  <1>3. PICK to \in SenderStages : sender' = [sender EXCEPT ![d].at = to]
    BY <1>1
  <1>4. /\ sender' \in [Deliveries -> [at : SenderStages, attempt : Nat]]
        /\ sender'[d].attempt = sender[d].attempt
        /\ \A o \in Deliveries \ {d} : sender'[o] = sender[o]
    BY <1>3, SenderMoves
  <1>5. \/ cause' = cause /\ sender'[d].at \in {"before", "adding", "posting"}
        \/ /\ sender'[d].at = "settled"
           /\ \E what \in {"unwanted", "db", "cancelled", "unserialisable"} : Note(d, what)
    BY <1>2, SenderMoves DEF SenderStages
  <1>6. /\ cause' \in [Deliveries -> SUBSET Causes]
        /\ \A o \in Deliveries \ {d} : cause'[o] = cause[o]
        /\ \/ cause' = cause /\ sender'[d].at \in {"before", "adding", "posting"}
           \/ /\ sender'[d].at = "settled"
              /\ \E what \in {"unwanted", "db", "cancelled", "unserialisable"} : cause'[d] = cause[d] \cup {what}
    BY <1>5, CauseNoted DEF DeliveryTypeOK, Causes
  <1>7. DeliveryTypeOK'
    BY <1>1, <1>4, <1>6 DEF DeliveryTypeOK, Causes
  <1>8. OtherDeliveries(d)
    BY <1>1, <1>4, <1>6 DEF OtherDeliveries
  <1>9. /\ job[d].at = "none" /\ posts[d] = 0 /\ sender[d].attempt = 0 /\ job[d].made = 0 /\ job[d].stalls = 0
        /\ sender[d].at \notin {"settled", "posting", "touching"}
    BY <1>1 DEF Sound, Placed
  <1>10. Attempts(d)' = Attempts(d) /\ Attempts(d) \in Nat \ {0}
    BY <1>1, SomeAttempt DEF Attempts
  <1>11. Placed(d)'
    BY <1>1, <1>4, <1>6, <1>9, <1>10 DEF Placed
  <1>12. Measured(d)'
    BY <1>1, <1>4, <1>6, <1>9 DEF Measured, DirectShare, QueuedShare
  <1>13. Undecided(d)' /\ Accepted(d)'
    BY <1>1, <1>6, <1>9 DEF Sound, Undecided, Accepted, Clean
  <1>14. Answered(d)'
    BY <1>1, <1>6, <1>9 DEF Sound, Answered, Clean
  <1> QED BY <1>7, <1>8, <1>11, <1>12, <1>13, <1>14 DEF Sound

\* The add to the queue: stored, rejected, or rejected although stored.
LEMMA AddingStep ==
    ASSUME DeliveryInv, NEW d \in Deliveries, Added(d)
    PROVE  DeliveryTypeOK' /\ OtherDeliveries(d) /\ Sound(d)'
  <1> USE DEF DeliveryInv
  <1>1. /\ UNCHANGED <<queueEnabled, retryCount, crashes, posts, ok, failures, delivered>>
        /\ sender[d].at = "adding"
    BY DEF Added, Move, fixed, outcome
  <1>2. /\ sender' \in [Deliveries -> [at : SenderStages, attempt : Nat]]
        /\ job' \in [Deliveries -> [at : JobStages, made : Nat, stalls : 0 .. 1]]
        /\ cause' \in [Deliveries -> SUBSET Causes]
        /\ sender'[d].attempt = sender[d].attempt /\ job'[d].made = job[d].made /\ job'[d].stalls = job[d].stalls
        /\ \A o \in Deliveries \ {d} : sender'[o] = sender[o] /\ job'[o] = job[o] /\ cause'[o] = cause[o]
        /\ \/ sender'[d].at = "settled" /\ job'[d].at = "waiting" /\ cause'[d] = cause[d]
           \/ sender'[d].at = "posting" /\ job'[d].at = job[d].at /\ cause'[d] = cause[d]
           \/ sender'[d].at = "posting" /\ job'[d].at = "waiting" /\ cause'[d] = cause[d] \cup {"twice"}
    <2>1. CASE sender' = [sender EXCEPT ![d].at = "settled"] /\ job' = [job EXCEPT ![d].at = "waiting"] /\ UNCHANGED cause
      <3>1. "settled" \in SenderStages /\ "waiting" \in JobStages
        BY DEF SenderStages, JobStages
      <3> QED BY <2>1, <3>1, SenderMoves, JobMoves DEF DeliveryTypeOK, Causes
    <2>2. CASE sender' = [sender EXCEPT ![d].at = "posting"] /\ UNCHANGED <<job, cause>>
      <3>1. "posting" \in SenderStages
        BY DEF SenderStages
      <3> QED BY <2>2, <3>1, SenderMoves DEF DeliveryTypeOK, Causes
    <2>3. CASE sender' = [sender EXCEPT ![d].at = "posting"] /\ job' = [job EXCEPT ![d].at = "waiting"] /\ Note(d, "twice")
      <3>1. "posting" \in SenderStages /\ "waiting" \in JobStages /\ "twice" \in Causes
        BY DEF SenderStages, JobStages, Causes
      <3> QED BY <2>3, <3>1, SenderMoves, JobMoves, CauseNoted
    <2> QED BY <2>1, <2>2, <2>3 DEF Added, Move
  <1>3. DeliveryTypeOK'
    BY <1>1, <1>2 DEF DeliveryTypeOK, Causes
  <1>4. OtherDeliveries(d)
    BY <1>1, <1>2 DEF OtherDeliveries
  <1>5. job[d].at = "none" /\ posts[d] = 0 /\ sender[d].attempt = 0 /\ job[d].made = 0 /\ job[d].stalls = 0
    BY <1>1 DEF Sound, Placed
  <1>6. Attempts(d)' = Attempts(d) /\ Attempts(d) \in Nat \ {0}
    BY <1>1, SomeAttempt DEF Attempts
  <1>7. Placed(d)'
    BY <1>2, <1>5, <1>6 DEF Placed
  <1>8. Measured(d)'
    BY <1>1, <1>2, <1>5 DEF Measured, DirectShare, QueuedShare
  <1>9. Undecided(d)' /\ Accepted(d)'
    BY <1>1, <1>2, <1>5 DEF Sound, Undecided, Accepted, Clean
  <1>10. Answered(d)'
    BY <1>1, <1>2, <1>5 DEF Sound, Answered, Accepted, Clean
  <1> QED BY <1>3, <1>4, <1>7, <1>8, <1>9, <1>10 DEF Sound

\* Types and places after a request and what follows it on the direct path.
LEMMA DirectStep ==
    ASSUME DeliveryInv, NEW d \in Deliveries, Post(d) \/ Touches(d)
    PROVE  DeliveryTypeOK' /\ OtherDeliveries(d) /\ Sound(d)'
  <1> USE DEF DeliveryInv
  <1>1. /\ UNCHANGED <<queueEnabled, retryCount, crashes, job>>
        /\ sender[d].at \in {"posting", "touching"}
        /\ job[d].at = "none" \/ "twice" \in cause[d]
        /\ Attempts(d)' = Attempts(d) /\ retryCount[d] \in Nat
        /\ sender[d].attempt \in Nat /\ posts[d] \in Nat /\ ok[d] \in Nat /\ failures[d] \in Nat /\ delivered[d] \in Nat
    BY SomeAttempt DEF Post, Touches, fixed, Sound, Placed, Attempts, DeliveryTypeOK
  <1>2. /\ posts' \in [Deliveries -> Nat] /\ ok' \in [Deliveries -> Nat] /\ failures' \in [Deliveries -> Nat]
        /\ delivered' \in [Deliveries -> Nat]
        /\ \A o \in Deliveries \ {d} : /\ posts'[o] = posts[o] /\ ok'[o] = ok[o] /\ failures'[o] = failures[o]
                                       /\ delivered'[o] = delivered[o]
    <2>1. /\ posts' = posts \/ posts' = [posts EXCEPT ![d] = @ + 1]
          /\ ok' = ok \/ ok' = [ok EXCEPT ![d] = @ + 1] \/ ok' = [ok EXCEPT ![d] = @]
          /\ failures' = failures \/ failures' = [failures EXCEPT ![d] = @ + 1]
          /\ delivered' = delivered \/ delivered' = [delivered EXCEPT ![d] = @ + 1]
      <3>1. CASE Post(d)
        BY <3>1 DEF Post, Posts, AttemptFails, Recorded
      <3>2. CASE Touches(d)
        BY <3>2 DEF Touches
      <3> QED BY <3>1, <3>2
    <2>2. posts' \in [Deliveries -> Nat] /\ \A o \in Deliveries \ {d} : posts'[o] = posts[o]
      BY <2>1 DEF DeliveryTypeOK
    <2>3. ok' \in [Deliveries -> Nat] /\ \A o \in Deliveries \ {d} : ok'[o] = ok[o]
      BY <2>1 DEF DeliveryTypeOK
    <2>4. failures' \in [Deliveries -> Nat] /\ \A o \in Deliveries \ {d} : failures'[o] = failures[o]
      BY <2>1 DEF DeliveryTypeOK
    <2>5. delivered' \in [Deliveries -> Nat] /\ \A o \in Deliveries \ {d} : delivered'[o] = delivered[o]
      BY <2>1 DEF DeliveryTypeOK
    <2> QED BY <2>2, <2>3, <2>4, <2>5
  <1>3. /\ cause' \in [Deliveries -> SUBSET Causes] /\ \A o \in Deliveries \ {d} : cause'[o] = cause[o]
        /\ cause'[d] \in {cause[d], cause[d] \cup {"db"}}
    <2>1. cause' = cause \/ Note(d, "db")
      BY DEF Post, Touches, AttemptFails, Recorded, DbFailed
    <2>2. "db" \in Causes
      BY DEF Causes
    <2> QED BY <2>1, <2>2, CauseNoted DEF DeliveryTypeOK, Causes
  <1>4. /\ sender' \in [Deliveries -> [at : SenderStages, attempt : Nat]]
        /\ \A o \in Deliveries \ {d} : sender'[o] = sender[o]
        /\ \/ sender'[d].at = "touching" /\ sender'[d].attempt = sender[d].attempt
           \/ sender'[d].at = "posting" /\ sender'[d].attempt = sender[d].attempt + 1
           \/ sender'[d].at = "settled" /\ sender'[d].attempt = sender[d].attempt
    <2>1. \/ sender' = [sender EXCEPT ![d].at = "touching"]
          \/ sender' = [sender EXCEPT ![d].at = "settled"]
          \/ sender' = [sender EXCEPT ![d] = [at |-> "posting", attempt |-> sender[d].attempt + 1]]
          \/ sender' = [sender EXCEPT ![d] = [at |-> "settled", attempt |-> sender[d].attempt]]
      BY DEF Post, Touches, AttemptFails
    <2>2. {"touching", "posting", "settled"} \subseteq SenderStages /\ sender[d].attempt + 1 \in Nat
      BY <1>1 DEF SenderStages
    <2> QED BY <1>1, <2>1, <2>2, SenderMoves, SenderRetries
  <1>5. \/ /\ sender[d].at = "posting" /\ sender'[d].at = "touching" /\ sender'[d].attempt = sender[d].attempt
           /\ posts'[d] = posts[d] + 1 /\ ok'[d] = ok[d] + 1
           /\ failures'[d] = failures[d] /\ delivered'[d] = delivered[d] /\ cause'[d] = cause[d]
        \/ /\ sender[d].at = "posting" /\ sender'[d].at = "posting" /\ sender'[d].attempt = sender[d].attempt + 1
           /\ sender[d].attempt + 1 < retryCount[d]
           /\ posts'[d] = posts[d] + 1 /\ ok'[d] = ok[d]
           /\ failures'[d] = failures[d] /\ delivered'[d] = delivered[d] /\ cause'[d] = cause[d]
        \/ /\ sender[d].at = "posting" /\ sender'[d].at = "settled" /\ sender'[d].attempt = sender[d].attempt
           /\ posts'[d] = posts[d] + 1 /\ ok'[d] = ok[d] /\ delivered'[d] = delivered[d]
           /\ \/ failures'[d] = failures[d] + 1 /\ cause'[d] = cause[d]
              \/ failures'[d] = failures[d] /\ "db" \in cause'[d]
        \/ /\ sender[d].at = "touching" /\ sender'[d].at = "settled" /\ sender'[d].attempt = sender[d].attempt
           /\ posts'[d] = posts[d] /\ ok'[d] = ok[d] /\ delivered'[d] = delivered[d] + 1
           /\ failures'[d] = failures[d] /\ cause'[d] = cause[d]
        \/ /\ sender[d].at = "touching" /\ posts'[d] = posts[d] /\ ok'[d] = ok[d] /\ delivered'[d] = delivered[d]
           /\ "db" \in cause'[d]
           /\ \/ /\ sender'[d].at = "posting" /\ sender'[d].attempt = sender[d].attempt + 1
                 /\ sender[d].attempt + 1 < retryCount[d] /\ failures'[d] = failures[d]
              \/ /\ sender'[d].at = "settled" /\ sender'[d].attempt = sender[d].attempt /\ failures'[d] = failures[d] + 1
    <2>1. CASE Post(d) /\ Posts(d, TRUE) /\ sender' = [sender EXCEPT ![d].at = "touching"] /\ UNCHANGED <<failures, cause>>
      BY <2>1 DEF Post, Posts, DeliveryTypeOK
    <2>2. CASE Post(d) /\ Posts(d, FALSE) /\ AttemptFails(d)
      <3>1. CASE Retries(d)
        BY <2>2, <3>1 DEF Post, Posts, AttemptFails, Retries, DeliveryTypeOK
      <3>2. CASE ~Retries(d)
        <4>1. \/ failures'[d] = failures[d] + 1 /\ cause'[d] = cause[d]
              \/ failures'[d] = failures[d] /\ "db" \in cause'[d]
          BY <2>2, <3>2 DEF AttemptFails, Recorded, DbFailed, Note, DeliveryTypeOK
        <4> QED BY <2>2, <3>2, <4>1 DEF Post, Posts, AttemptFails, DeliveryTypeOK
      <3> QED BY <3>1, <3>2
    <2>3. CASE Touches(d) /\ delivered' = [delivered EXCEPT ![d] = @ + 1] /\ sender' = [sender EXCEPT ![d].at = "settled"] /\ UNCHANGED <<failures, cause>>
      BY <2>3 DEF Touches, DeliveryTypeOK
    <2>4. CASE Touches(d) /\ Note(d, "db") /\ UNCHANGED delivered
      BY <2>4 DEF Touches, DeliveryTypeOK, Note, Retries
    <2> QED BY <2>1, <2>2, <2>3, <2>4 DEF Post, Touches
  <1>6. DeliveryTypeOK'
    BY <1>1, <1>2, <1>3, <1>4 DEF DeliveryTypeOK, Causes
  <1>7. OtherDeliveries(d)
    BY <1>1, <1>2, <1>3, <1>4 DEF OtherDeliveries
  <1>8. "twice" \in cause[d] => "twice" \in cause'[d]
    BY <1>3
  <1>9. Placed(d)'
    BY <1>1, <1>5, <1>8 DEF Sound, Placed, Attempts
  <1>10. Measured(d)'
    BY <1>1, <1>3, <1>5, <1>8 DEF Sound, Measured, DirectShare, QueuedShare, DeliveryTypeOK
  <1>11. Undecided(d)'
    BY <1>1, <1>3, <1>5 DEF Sound, Undecided, Clean
  <1>12. Accepted(d)'
    <2> SUFFICES ASSUME Clean(d, {"twice", "crash", "db"})', ok'[d] > 0 PROVE Accepted(d)'
      BY DEF Accepted
    <2>1. cause'[d] = cause[d] /\ Clean(d, {"twice", "crash", "db"}) /\ "twice" \notin cause[d]
      BY <1>3 DEF Clean
    <2>2. "db" \notin cause'[d] /\ job[d].at = "none"
      BY <1>1, <2>1 DEF Clean
    <2>3. sender[d].at = "posting" => ok[d] = 0
      BY <1>1, <2>1, <2>2 DEF Sound, Accepted
    <2>4. failures[d] = 0
      BY <1>1, <1>5, <2>1, <2>2, <2>3 DEF Sound, Accepted, Undecided, Clean
    <2> QED BY <1>1, <1>5, <2>2, <2>3, <2>4 DEF Accepted
  <1>13. Answered(d)'
    <2> SUFFICES ASSUME Clean(d, {"unwanted", "cancelled", "unserialisable", "db", "crash"})' PROVE Answered(d)'
      BY DEF Answered
    <2>1. cause'[d] = cause[d] /\ Clean(d, {"unwanted", "cancelled", "unserialisable", "db", "crash"})
      BY <1>3 DEF Clean
    <2>2. "db" \notin cause'[d]
      BY <2>1 DEF Clean
    <2>3. ok'[d] >= ok[d] /\ failures'[d] >= failures[d] /\ ok'[d] \in Nat /\ failures'[d] \in Nat
      BY <1>1, <1>5
    <2>4. IsFinalAttempt(d)' = IsFinalAttempt(d)
      BY <1>1 DEF IsFinalAttempt, Post, Touches, fixed
    <2> QED BY <1>1, <1>5, <2>1, <2>2, <2>3, <2>4 DEF Sound, Answered
  <1> QED BY <1>6, <1>7, <1>9, <1>10, <1>11, <1>12, <1>13 DEF Sound

\* What the worker does with a job, up to the end of its attempt.
LEMMA WorkerStep ==
    ASSUME DeliveryInv, NEW d \in Deliveries, Works(d)
    PROVE  DeliveryTypeOK' /\ OtherDeliveries(d) /\ Sound(d)'
  <1> USE DEF DeliveryInv
  <1>1. /\ UNCHANGED <<queueEnabled, retryCount, crashes, sender>>
        /\ job[d].at \in {"waiting", "posting", "touching", "failing", "throwing", "returning"}
        /\ retryCount[d] \in Nat /\ Attempts(d)' = Attempts(d)
        /\ job[d].made \in Nat /\ job[d].stalls \in Nat /\ sender[d].attempt \in Nat
        /\ posts[d] \in Nat /\ ok[d] \in Nat /\ failures[d] \in Nat /\ delivered[d] \in Nat
    BY SomeAttempt DEF Works, JobStarts, JobPosts, JobTouches, JobFails, JobEnds, fixed, Attempts, DeliveryTypeOK
  <1>2. /\ posts' \in [Deliveries -> Nat] /\ ok' \in [Deliveries -> Nat] /\ failures' \in [Deliveries -> Nat]
        /\ delivered' \in [Deliveries -> Nat]
        /\ \A o \in Deliveries \ {d} : /\ posts'[o] = posts[o] /\ ok'[o] = ok[o] /\ failures'[o] = failures[o]
                                       /\ delivered'[o] = delivered[o]
    <2>1. /\ posts' = posts \/ posts' = [posts EXCEPT ![d] = @ + 1]
          /\ ok' = ok \/ ok' = [ok EXCEPT ![d] = @ + 1] \/ ok' = [ok EXCEPT ![d] = @]
          /\ failures' = failures \/ failures' = [failures EXCEPT ![d] = @ + 1]
          /\ delivered' = delivered \/ delivered' = [delivered EXCEPT ![d] = @ + 1]
      <3>1. CASE JobStarts(d) \/ JobEnds(d)
        BY <3>1 DEF JobStarts, JobEnds, outcome
      <3>2. CASE JobPosts(d)
        BY <3>2 DEF JobPosts, Posts
      <3>3. CASE JobTouches(d)
        BY <3>3 DEF JobTouches
      <3>4. CASE JobFails(d)
        BY <3>4 DEF JobFails, Recorded
      <3> QED BY <3>1, <3>2, <3>3, <3>4 DEF Works
    <2>2. posts' \in [Deliveries -> Nat] /\ \A o \in Deliveries \ {d} : posts'[o] = posts[o]
      BY <2>1 DEF DeliveryTypeOK
    <2>3. ok' \in [Deliveries -> Nat] /\ \A o \in Deliveries \ {d} : ok'[o] = ok[o]
      BY <2>1 DEF DeliveryTypeOK
    <2>4. failures' \in [Deliveries -> Nat] /\ \A o \in Deliveries \ {d} : failures'[o] = failures[o]
      BY <2>1 DEF DeliveryTypeOK
    <2>5. delivered' \in [Deliveries -> Nat] /\ \A o \in Deliveries \ {d} : delivered'[o] = delivered[o]
      BY <2>1 DEF DeliveryTypeOK
    <2> QED BY <2>2, <2>3, <2>4, <2>5
  <1>3. /\ cause' \in [Deliveries -> SUBSET Causes] /\ \A o \in Deliveries \ {d} : cause'[o] = cause[o]
        /\ cause'[d] \in {cause[d], cause[d] \cup {"db"}}
    <2>1. cause' = cause \/ Note(d, "db")
      BY DEF Works, JobStarts, JobPosts, JobTouches, JobFails, JobEnds, Recorded, DbFailed
    <2>2. "db" \in Causes
      BY DEF Causes
    <2> QED BY <2>1, <2>2, CauseNoted DEF DeliveryTypeOK, Causes
  <1>4. /\ job' \in [Deliveries -> [at : JobStages, made : Nat, stalls : 0 .. 1]]
        /\ \A o \in Deliveries \ {d} : job'[o] = job[o]
        /\ job'[d].stalls = job[d].stalls
        /\ job'[d].made = IF job[d].at = "throwing" /\ ~IsFinalAttempt(d) THEN job[d].made + 1 ELSE job[d].made
        /\ job'[d].at \in CASE job[d].at = "waiting" -> {"posting"}
                            [] job[d].at = "posting" -> {"touching", "failing"}
                            [] job[d].at = "touching" -> {"returning", "failing"}
                            [] job[d].at = "failing" -> {"throwing"}
                            [] job[d].at = "throwing" -> IF IsFinalAttempt(d) THEN {"failed"} ELSE {"waiting"}
                            [] job[d].at = "returning" -> {"completed"}
    <2>1. CASE JobEnds(d) /\ job[d].at = "throwing"
      <3>1. job' = [job EXCEPT ![d] = IF IsFinalAttempt(d) THEN [at |-> "failed", made |-> job[d].made, stalls |-> job[d].stalls]
                                      ELSE [at |-> "waiting", made |-> job[d].made + 1, stalls |-> job[d].stalls]]
        BY <1>1, <2>1 DEF JobEnds, IsFinalAttempt
      <3>2. {"failed", "waiting"} \subseteq JobStages /\ job[d].made + 1 \in Nat /\ job[d].made \in Nat /\ job[d].stalls \in 0 .. 1
        BY DEF JobStages, DeliveryTypeOK
      <3>3. CASE IsFinalAttempt(d)
        BY <2>1, <3>1, <3>2, <3>3 DEF DeliveryTypeOK
      <3>4. CASE ~IsFinalAttempt(d)
        BY <2>1, <3>1, <3>2, <3>4 DEF DeliveryTypeOK
      <3> QED BY <3>3, <3>4
    <2>2. CASE ~(JobEnds(d) /\ job[d].at = "throwing")
      <3>1. \/ job[d].at = "waiting" /\ job' = [job EXCEPT ![d].at = "posting"]
            \/ job[d].at = "posting" /\ \E to \in {"touching", "failing"} : job' = [job EXCEPT ![d].at = to]
            \/ job[d].at = "touching" /\ \E to \in {"returning", "failing"} : job' = [job EXCEPT ![d].at = to]
            \/ job[d].at = "failing" /\ job' = [job EXCEPT ![d].at = "throwing"]
            \/ job[d].at = "returning" /\ job' = [job EXCEPT ![d].at = "completed"]
        <4>1. CASE JobPosts(d)
          BY <4>1 DEF JobPosts
        <4>2. CASE ~JobPosts(d)
          BY <2>2, <4>2 DEF Works, JobStarts, JobTouches, JobFails, JobEnds
        <4> QED BY <4>1, <4>2
      <3>2. {"posting", "touching", "failing", "returning", "throwing", "completed"} \subseteq JobStages
        BY DEF JobStages
      <3>3. PICK to \in JobStages :
               /\ job' = [job EXCEPT ![d].at = to]
               /\ \/ job[d].at = "waiting" /\ to = "posting"
                  \/ job[d].at = "posting" /\ to \in {"touching", "failing"}
                  \/ job[d].at = "touching" /\ to \in {"returning", "failing"}
                  \/ job[d].at = "failing" /\ to = "throwing"
                  \/ job[d].at = "returning" /\ to = "completed"
        BY <3>1, <3>2
      <3>4. /\ job' \in [Deliveries -> [at : JobStages, made : Nat, stalls : 0 .. 1]]
            /\ \A o \in Deliveries \ {d} : job'[o] = job[o]
            /\ job'[d].at = to /\ job'[d].stalls = job[d].stalls /\ job'[d].made = job[d].made
        BY <3>3, JobMoves
      <3>5. job[d].at # "throwing"
        BY <3>3
      <3> QED BY <3>3, <3>4, <3>5
    <2> QED BY <2>1, <2>2
  <1>5. /\ job[d].at = "posting" => /\ posts'[d] = posts[d] + 1
                                    /\ ok'[d] = IF job'[d].at = "touching" THEN ok[d] + 1 ELSE ok[d]
        /\ job[d].at # "posting" => posts'[d] = posts[d] /\ ok'[d] = ok[d]
    <2>1. CASE JobPosts(d)
      <3>1. PICK success \in BOOLEAN : Posts(d, success) /\ job' = [job EXCEPT ![d].at = IF success THEN "touching" ELSE "failing"]
        BY <2>1 DEF JobPosts
      <3>2. job'[d].at = "touching" <=> success
        BY <3>1 DEF DeliveryTypeOK
      <3> QED BY <2>1, <3>1, <3>2 DEF JobPosts, Posts, DeliveryTypeOK
    <2> QED BY <2>1 DEF Works, JobStarts, JobTouches, JobFails, JobEnds, outcome
  <1>6. /\ \/ job[d].at = "touching" /\ job'[d].at = "returning" /\ delivered'[d] = delivered[d] + 1
           \/ ~(job[d].at = "touching" /\ job'[d].at = "returning") /\ delivered'[d] = delivered[d]
        /\ job[d].at = "touching" /\ job'[d].at = "failing" => "db" \in cause'[d]
        /\ \/ failures'[d] = failures[d]
           \/ job[d].at = "failing" /\ IsFinalAttempt(d) /\ failures'[d] = failures[d] + 1
        /\ job[d].at = "failing" /\ IsFinalAttempt(d) /\ failures'[d] = failures[d] => "db" \in cause'[d]
    <2>1. CASE JobTouches(d)
      <3>1. job[d].at = "touching" /\ failures'[d] = failures[d]
        BY <2>1 DEF JobTouches
      <3>2. \/ job'[d].at = "returning" /\ delivered'[d] = delivered[d] + 1
            \/ job'[d].at = "failing" /\ delivered'[d] = delivered[d] /\ "db" \in cause'[d]
        BY <2>1 DEF JobTouches, DbFailed, Note, DeliveryTypeOK
      <3> QED BY <1>1, <3>1, <3>2
    <2>2. CASE JobFails(d)
      <3>1. job[d].at = "failing" /\ delivered'[d] = delivered[d]
        BY <2>2 DEF JobFails
      <3>2. CASE IsFinalAttempt(d)
        <4>1. failures'[d] = failures[d] + 1 \/ (failures'[d] = failures[d] /\ "db" \in cause'[d])
          <5>1. failures' = [failures EXCEPT ![d] = @ + 1] \/ (failures' = failures /\ Note(d, "db"))
            BY <2>2, <3>2 DEF JobFails, Recorded, DbFailed
          <5>2. failures' = [failures EXCEPT ![d] = @ + 1] => failures'[d] = failures[d] + 1
            BY DEF DeliveryTypeOK
          <5>3. Note(d, "db") => "db" \in cause'[d]
            BY DEF Note, DeliveryTypeOK
          <5> QED BY <5>1, <5>2, <5>3
        <4> QED BY <3>1, <3>2, <4>1, <1>1
      <3>3. CASE ~IsFinalAttempt(d)
        <4>1. failures' = failures
          BY <2>2, <3>3 DEF JobFails
        <4> QED BY <1>1, <3>1, <3>3, <4>1
      <3> QED BY <3>2, <3>3
    <2>3. CASE JobStarts(d) \/ JobEnds(d) \/ JobPosts(d)
      <3>1. UNCHANGED <<failures, delivered>> /\ job[d].at \in {"waiting", "posting", "returning", "throwing"}
        BY <2>3 DEF JobStarts, JobEnds, JobPosts, outcome, fixed
      <3> QED BY <1>1, <3>1
    <2> QED BY <2>1, <2>2, <2>3 DEF Works
  <1>7. DeliveryTypeOK'
    BY <1>1, <1>2, <1>3, <1>4 DEF DeliveryTypeOK, Causes
  <1>8. OtherDeliveries(d)
    BY <1>1, <1>2, <1>3, <1>4 DEF OtherDeliveries
  <1>9. cause[d] \subseteq cause'[d] /\ ("twice" \in cause[d] <=> "twice" \in cause'[d])
    BY <1>3
  <1>10. Placed(d)'
    BY <1>1, <1>4, <1>9 DEF Sound, Placed, Attempts, IsFinalAttempt
  <1>11. Measured(d)'
    BY <1>1, <1>4, <1>5, <1>9 DEF Sound, Placed, Measured, DirectShare, QueuedShare
  <1>12. IsFinalAttempt(d) /\ job'[d].made = job[d].made => IsFinalAttempt(d)'
    BY <1>1 DEF IsFinalAttempt
  <1>13. Undecided(d)'
    <2> SUFFICES ASSUME Clean(d, {"twice", "crash"})' PROVE Undecided(d)'
      BY DEF Undecided
    <2>1. Clean(d, {"twice", "crash"})
      BY <1>3 DEF Clean
    <2>2. /\ failures[d] + delivered[d] <= 1
          /\ job[d].at \in {"waiting", "posting", "touching", "failing"} => failures[d] + delivered[d] = 0
          /\ job[d].at = "throwing" /\ failures[d] + delivered[d] > 0 => IsFinalAttempt(d)
      BY <2>1 DEF Sound, Undecided
    <2>3. job'[d].at \notin {"none"}
      BY <1>1, <1>4
    <2>4. \/ failures'[d] = failures[d] /\ delivered'[d] = delivered[d]
          \/ failures'[d] = failures[d] /\ delivered'[d] = delivered[d] + 1 /\ job'[d].at = "returning" /\ job[d].at = "touching"
          \/ failures'[d] = failures[d] + 1 /\ delivered'[d] = delivered[d] /\ job[d].at = "failing" /\ IsFinalAttempt(d)
      BY <1>6
    <2>5. /\ job'[d].at \in {"waiting", "posting", "touching", "failing"} =>
                 /\ job[d].at \in {"waiting", "posting", "touching", "throwing"} /\ delivered'[d] = delivered[d]
                 /\ job[d].at = "throwing" => ~IsFinalAttempt(d)
          /\ job'[d].at = "throwing" => job[d].at = "failing" /\ job'[d].made = job[d].made
      BY <1>1, <1>4, <2>4
    <2>6. failures'[d] + delivered'[d] <= 1
      BY <1>1, <2>2, <2>4
    <2> QED BY <1>1, <1>12, <2>2, <2>3, <2>4, <2>5, <2>6 DEF Undecided
  <1>14. Accepted(d)'
    <2> SUFFICES ASSUME Clean(d, {"twice", "crash", "db"})', ok'[d] > 0 PROVE Accepted(d)'
      BY DEF Accepted
    <2>1. Clean(d, {"twice", "crash", "db"}) /\ "db" \notin cause'[d]
      BY <1>3 DEF Clean
    <2>2. ok[d] > 0 => failures[d] = 0 /\ job[d].at \in {"touching", "returning", "completed"}
      BY <1>1, <2>1 DEF Sound, Accepted
    <2>3. job[d].at = "posting" => failures[d] = 0
      BY <1>1, <2>1 DEF Sound, Undecided, Clean
    <2> QED BY <1>1, <1>4, <1>5, <1>6, <2>1, <2>2, <2>3 DEF Accepted
  <1>15. Answered(d)'
    <2> SUFFICES ASSUME Clean(d, {"unwanted", "cancelled", "unserialisable", "db", "crash"})' PROVE Answered(d)'
      BY DEF Answered
    <2>1. Clean(d, {"unwanted", "cancelled", "unserialisable", "db", "crash"}) /\ "db" \notin cause'[d]
      BY <1>3 DEF Clean
    <2>2. ok'[d] >= ok[d] /\ failures'[d] >= failures[d] /\ ok'[d] \in Nat /\ failures'[d] \in Nat
      BY <1>1, <1>5, <1>6
    <2>3. IsFinalAttempt(d)' /\ job'[d].made = job[d].made => IsFinalAttempt(d)
      BY <1>1 DEF IsFinalAttempt
    <2> QED BY <1>1, <1>4, <1>5, <1>6, <2>1, <2>2, <2>3 DEF Sound, Answered
  <1> QED BY <1>7, <1>8, <1>10, <1>11, <1>13, <1>14, <1>15 DEF Sound

\* A restart: what was under way has the crash noted, the rest is as it was.
LEMMA RestartStep == ASSUME DeliveryInv, Restart PROVE DeliveryInv'
  <1> USE DEF DeliveryInv
  <1>1. UNCHANGED <<queueEnabled, retryCount, posts, ok, failures, delivered>>
    BY DEF Restart, outcome
  <1>2. sender' \in [Deliveries -> [at : SenderStages, attempt : Nat]]
    <2>1. \A d \in Deliveries : sender[d].attempt \in Nat /\ sender[d] \in [at : SenderStages, attempt : Nat]
      BY DEF DeliveryTypeOK
    <2>2. "settled" \in SenderStages
      BY DEF SenderStages
    <2> QED BY <2>1, <2>2 DEF Restart
  <1>3. job' \in [Deliveries -> [at : JobStages, made : Nat, stalls : 0 .. 1]]
    <2>1. \A d \in Deliveries : job[d].made \in Nat /\ job[d] \in [at : JobStages, made : Nat, stalls : 0 .. 1]
      BY DEF DeliveryTypeOK
    <2>2. "waiting" \in JobStages /\ "failed" \in JobStages
      BY DEF JobStages
    <2> QED BY <2>1, <2>2 DEF Restart, Stalled
  <1>4. cause' \in [Deliveries -> SUBSET Causes]
    <2>1. \A d \in Deliveries : cause[d] \in SUBSET Causes
      BY DEF DeliveryTypeOK, Causes
    <2>2. "crash" \in Causes
      BY DEF Causes
    <2> QED BY <2>1, <2>2 DEF Restart
  <1>5. crashes' \in 0 .. MaxCrashes
    BY DeliveryAssumption DEF Restart, DeliveryTypeOK
  <1>6. DeliveryTypeOK'
    BY <1>1, <1>2, <1>3, <1>4, <1>5 DEF DeliveryTypeOK, Causes
  <1>7. ASSUME NEW d \in Deliveries PROVE Sound(d)'
    <2>1. /\ sender'[d].attempt = sender[d].attempt
          /\ sender'[d].at = IF sender[d].at = "idle" THEN "idle" ELSE "settled"
      BY DEF Restart, DeliveryTypeOK
    <2>2. /\ job'[d].made = job[d].made
          /\ ~JobRuns(d) => job'[d].at = job[d].at /\ job'[d].stalls = job[d].stalls
          /\ JobRuns(d) => /\ job'[d].stalls = 1
                           /\ job'[d].at = IF job[d].stalls = 0 THEN "waiting" ELSE "failed"
      BY DEF Restart, DeliveryTypeOK, Stalled
    <2>3. /\ cause[d] \subseteq cause'[d] /\ ("twice" \in cause[d] <=> "twice" \in cause'[d])
          /\ "crash" \notin cause'[d] => cause'[d] = cause[d] /\ sender[d].at \in {"idle", "settled"} /\ ~JobRuns(d)
      BY DEF Restart
    <2>4. /\ sender[d].attempt \in Nat /\ job[d].made \in Nat /\ job[d].stalls \in 0 .. 1 /\ posts[d] \in Nat
          /\ Attempts(d)' = Attempts(d)
      BY <1>1 DEF DeliveryTypeOK, Attempts
    <2>5. Placed(d)'
      BY <1>1, <2>1, <2>2, <2>3, <2>4 DEF Sound, Placed, JobRuns
    <2>6. Measured(d)'
      <3>1. DirectShare(d)' >= DirectShare(d) /\ DirectShare(d) \in Nat /\ DirectShare(d)' \in Nat
        <4>1. job'[d].at = "none" <=> job[d].at = "none"
          BY <2>2 DEF JobRuns
        <4> QED BY <2>1, <2>3, <2>4, <4>1 DEF DirectShare
      <3>2. QueuedShare(d)' >= QueuedShare(d) /\ QueuedShare(d) \in Nat /\ QueuedShare(d)' \in Nat
        BY <2>2, <2>4 DEF QueuedShare, JobRuns
      <3> QED BY <1>1, <2>4, <3>1, <3>2 DEF Sound, Measured
    <2>7. CASE "crash" \in cause'[d]
      BY <2>5, <2>6, <2>7 DEF Sound, Undecided, Accepted, Answered, Clean
    <2>8. CASE "crash" \notin cause'[d]
      <3>1. /\ sender'[d].at = sender[d].at /\ job'[d].at = job[d].at /\ cause'[d] = cause[d]
            /\ IsFinalAttempt(d)' = IsFinalAttempt(d)
        BY <1>1, <2>1, <2>2, <2>3, <2>8 DEF IsFinalAttempt
      <3> QED BY <1>1, <2>5, <2>6, <3>1 DEF Sound, Undecided, Accepted, Answered, Clean
    <2> QED BY <2>7, <2>8
  <1> QED BY <1>6, <1>7

\* Every step keeps the invariant.
LEMMA DeliveryStep == ASSUME DeliveryInv, [DeliveryNext]_deliveryVars PROVE DeliveryInv'
  <1>1. ASSUME NEW d \in Deliveries, Sends(d) \/ Works(d) PROVE DeliveryInv'
    <2>1. DeliveryTypeOK' /\ OtherDeliveries(d) /\ Sound(d)'
      BY <1>1, BeforeSending, AddingStep, DirectStep, WorkerStep DEF Sends
    <2>2. retryCount' = retryCount
      BY <1>1 DEF Sends, Works, Dispatch, BeforeAnswered, Added, Post, Touches, JobStarts, JobPosts, JobTouches,
                  JobFails, JobEnds, fixed
    <2>3. ASSUME NEW o \in Deliveries, o # d PROVE Sound(o)'
      BY <2>1, <2>2, <2>3, OthersStaySound DEF DeliveryInv, OtherDeliveries
    <2> QED BY <2>1, <2>3 DEF DeliveryInv
  <1>2. CASE Restart
    BY <1>2, RestartStep
  <1>3. CASE UNCHANGED deliveryVars
    <2>1. DeliveryTypeOK'
      BY <1>3 DEF DeliveryInv, DeliveryTypeOK, deliveryVars
    <2>2. ASSUME NEW d \in Deliveries PROVE Sound(d)'
      BY <1>3, <2>2, OthersStaySound DEF DeliveryInv, deliveryVars
    <2> QED BY <2>1, <2>2 DEF DeliveryInv
  <1> QED BY <1>1, <1>2, <1>3 DEF DeliveryNext

\* What the invariant says of the verdict: a delivery that is over has a row or an accepted request, one verdict,
\* a true one, and has cost no more requests than configured.
LEMMA SoundIsTrue == DeliveryInv => VerdictIsTrue
  <1> SUFFICES ASSUME DeliveryInv PROVE VerdictIsTrue
    OBVIOUS
  <1> USE DEF DeliveryInv
  <1>1. ASSUME NEW d \in Deliveries, Over(d), Clean(d, {"unwanted", "cancelled", "unserialisable", "db", "crash"})
        PROVE  ok[d] > 0 \/ failures[d] > 0
    BY <1>1 DEF Over, Sound, Answered
  <1>2. ASSUME NEW d \in Deliveries, Clean(d, {"twice", "crash"}) PROVE failures[d] + delivered[d] <= 1
    BY <1>2 DEF Sound, Undecided
  <1>3. ASSUME NEW d \in Deliveries, failures[d] > 0, Clean(d, {"twice", "crash", "db"}) PROVE ok[d] = 0
    BY <1>3 DEF Sound, Accepted, DeliveryTypeOK
  <1>4. ASSUME NEW d \in Deliveries
        PROVE  posts[d] <= Attempts(d) * (IF "twice" \in cause[d] THEN 2 ELSE 1) + job[d].stalls
    <2>1. /\ posts[d] \in Nat /\ job[d].stalls \in Nat /\ job[d].made \in Nat /\ sender[d].attempt \in Nat
          /\ Attempts(d) \in Nat
      BY SomeAttempt DEF DeliveryTypeOK
    <2>2. DirectShare(d) \in Nat /\ DirectShare(d) <= Attempts(d) /\ QueuedShare(d) <= Attempts(d) + job[d].stalls
      BY <2>1 DEF Sound, Placed, DirectShare, QueuedShare
    <2>3. CASE "twice" \in cause[d]
      <3>1. Attempts(d) * 2 = Attempts(d) + Attempts(d)
        BY <2>1
      <3>2. QueuedShare(d) \in Nat
        BY <2>1 DEF QueuedShare
      <3> QED BY <2>1, <2>2, <2>3, <3>1, <3>2 DEF Sound, Measured
    <2>4. CASE "twice" \notin cause[d]
      <3>1. QueuedShare(d) \in Nat
        BY <2>1 DEF QueuedShare
      <3>2. DirectShare(d) = 0 \/ QueuedShare(d) = 0
        BY <2>1, <2>4 DEF Sound, Placed, DirectShare, QueuedShare
      <3> QED BY <2>1, <2>2, <2>4, <3>1, <3>2 DEF Sound, Measured
    <2> QED BY <2>3, <2>4
  <1> QED BY <1>1, <1>2, <1>3, <1>4 DEF VerdictIsTrue, NoSilentLoss, OneVerdict, FailureMeansLost, AttemptsAreBounded, Clean

\* The invariant holds in every state.
THEOREM DeliveryStaysSound == DeliverySpec => []DeliveryInv
  BY InitDelivery, DeliveryStep, PTL DEF DeliverySpec

\* For any deliveries, retry counts, faults and restarts (deliverWebhook(), WebhookProcessor.process()): no wanted
\* delivery is lost without a row, it gets one verdict, a true one, and no more requests than configured.
THEOREM VerdictStaysTrue == DeliverySpec => []VerdictIsTrue
  BY DeliveryStaysSound, SoundIsTrue, PTL

-----------------------------------------------------------------------------
(* The services together                                                     *)

\* In the composition the variables of every service keep their types, whichever of them a behaviour is about: each
\* step is one of a service, or leaves it alone.
THEOREM ServicesTypeCorrect == ServicesSpec => []ServiceTypes
  <1> DEFINE AllInv == IInv /\ BulkInv /\ HostInv /\ LifeInv /\ DeliveryInv
             allVars == <<vars, bulkVars, hostVars, pluginVars, deliveryVars, part>>
  <1>1. ServicesInit => AllInv
    BY InitIInv, InitBulk, HostStarts, LifeStarts, InitDelivery DEF ServicesInit
  <1>2. AllInv /\ [ServicesNext]_allVars => AllInv'
    <2> SUFFICES ASSUME AllInv, [ServicesNext]_allVars PROVE AllInv'
      OBVIOUS
    <2>1. /\ [Next]_vars /\ [BulkNext]_bulkVars /\ [HostNext]_hostVars /\ [PluginsNext]_pluginVars
          /\ [DeliveryNext]_deliveryVars
      BY DEF ServicesNext
    <2> QED BY <2>1, NextIInv, BulkStep, HostSteps, LifeSteps, DeliveryStep
  <1>3. AllInv => ServiceTypes
    BY LifeGives DEF ServiceTypes, IInv, BulkInv, HostInv, DeliveryInv
  <1> QED BY <1>1, <1>2, <1>3, PTL DEF ServicesSpec

===============================================================================
