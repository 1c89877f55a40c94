------------------------------ MODULE SandboxHost ------------------------------
(***************************************************************************)
(* The calls between the program and the worker of one sandboxed plugin:   *)
(* src/core/plugins/sandbox/plugin-worker-host.ts on the program's side,   *)
(* worker-bootstrap.ts and its registries on the worker's.                 *)
(*                                                                         *)
(* A call of the program is entered in a map, posted to the worker, and    *)
(* settled by the answer, by its timer or by the end of the worker,        *)
(* whichever comes first.  The channel keeps the order of the messages and *)
(* loses none while the worker runs; the handlers of the worker finish in  *)
(* any order.                                                              *)
(***************************************************************************)
EXTENDS Integers, FiniteSets

CONSTANTS
    HostCalls,            \* bound: calls the program makes
    Caps,             \* bound: capability calls the worker makes
    CallEvents,       \* hook events
    CallKinds,        \* which of the kinds of calls below are made
    MaxInFlightCaps   \* SANDBOX_MAX_INFLIGHT_CAPS: 32 in the code

ASSUME SandboxAssumption ==
    /\ MaxInFlightCaps \in Nat \ {0} /\ IsFiniteSet(Caps) /\ IsFiniteSet(HostCalls)
    /\ CallKinds \subseteq {"load", "lifecycle", "hook", "webhook", "search", "health"}

VARIABLES
    state,    \* of the worker: "up", "killed" (terminate() was called) or "exited"
    ready,    \* has it reported that the plugin is loaded?
    call,     \* per call: its kind, event, state and result
    wire,     \* per call: "none", "sent", or the answer that is under way
    inFlightHookEvents, \* the multiset of the events that are being handled
    cap,      \* per capability call: its state, and the events it was run under
    running   \* inFlightCaps

hostVars == <<state, ready, call, wire, inFlightHookEvents, cap, running>>

NoCall == [kind |-> "none", event |-> "none", state |-> "idle", result |-> "none"]
NoCap == [state |-> "idle", under |-> {}]

HostInit ==
    /\ state = "up" /\ ready = FALSE
    /\ call = [c \in HostCalls |-> NoCall] /\ wire = [c \in HostCalls |-> "none"]
    /\ inFlightHookEvents = [e \in CallEvents |-> 0]
    /\ cap = [k \in Caps |-> NoCap] /\ running = 0

Dead == state = "exited"
Awaits(c) == call[c].state = "pending"

\* What a call resolves to without the worker: fail-open for hooks, an error for the others.
TimedOut == [load |-> "rejected", lifecycle |-> "rejected", hook |-> "continue", webhook |-> "504",
             search |-> "error", health |-> "unhealthy"]
DrainedTo == [TimedOut EXCEPT !.webhook = "502"]

-----------------------------------------------------------------------------
(* The program                                                              *)

\* The settle() of dispatchHook() runs on every way out.
Settles(cs) == [e \in CallEvents |-> inFlightHookEvents[e] - Cardinality({c \in cs : call[c].event = e})]

\* A dead worker is not asked; load() of a loaded plugin returns.
Ask(c, kind, e) ==
    /\ call[c].state = "idle"
    /\ (kind = "hook") = (e # "none")
    /\ IF Dead \/ (kind = "load" /\ ready)
       THEN /\ call' = [call EXCEPT ![c] = [kind |-> kind, event |-> e, state |-> "settled",
                                            result |-> IF Dead THEN DrainedTo[kind] ELSE "ok"]]
            /\ UNCHANGED <<wire, inFlightHookEvents>>
       ELSE /\ call' = [call EXCEPT ![c] = [kind |-> kind, event |-> e, state |-> "pending", result |-> "none"]]
            /\ wire' = [wire EXCEPT ![c] = "sent"]
            /\ inFlightHookEvents' = [x \in CallEvents |-> inFlightHookEvents[x] + IF x = e THEN 1 ELSE 0]
    /\ UNCHANGED <<state, ready, cap, running>>

\* ready and error answer whoever waits for the load; any other answer finds its call by the id.
AnsweredBy(c) == IF call[c].kind = "load" THEN {x \in HostCalls : Awaits(x) /\ call[x].kind = "load"}
               ELSE {x \in {c} : Awaits(x)}

\* results: what each of the calls cs is told.
Settle(cs, results) ==
    call' = [c \in HostCalls |-> IF c \in cs THEN [call[c] EXCEPT !.state = "settled", !.result = results[c]] ELSE call[c]]
Heard(a) == [c \in HostCalls |-> a]
Without(outcome) == [c \in HostCalls |-> IF call[c].kind = "none" THEN "none" ELSE outcome[call[c].kind]]

MutHears(c) ==
    /\ wire[c] \in {"ok", "rejected"}
    /\ wire' = [wire EXCEPT ![c] = "none"]
    /\ ready' = (ready \/ (call[c].kind = "load" /\ wire[c] = "ok"))
    /\ Settle({c}, Heard(wire[c]))
    /\ inFlightHookEvents' = Settles({c})
    /\ UNCHANGED <<state, cap, running>>

\* handleMessage(): an answer that comes after the timer finds no entry.
Hears(c) ==
    /\ wire[c] \in {"ok", "rejected"}
    /\ wire' = [wire EXCEPT ![c] = "none"]
    /\ ready' = (ready \/ (call[c].kind = "load" /\ wire[c] = "ok"))
    /\ Settle(AnsweredBy(c), Heard(wire[c]))
    /\ inFlightHookEvents' = Settles(AnsweredBy(c))
    /\ UNCHANGED <<state, cap, running>>

MutTimesOut(c) ==
    /\ Awaits(c) /\ wire[c] = "sent"
    /\ Settle({c}, Without(TimedOut))
    /\ inFlightHookEvents' = Settles({c})
    /\ UNCHANGED <<state, ready, wire, cap, running>>

TimesOut(c) ==
    /\ Awaits(c)
    /\ Settle({c}, Without(TimedOut))
    /\ inFlightHookEvents' = Settles({c})
    /\ UNCHANGED <<state, ready, wire, cap, running>>

\* handleCapRequest(): at the limit it is refused; otherwise it runs under the events in flight.
CapArrives(k) ==
    /\ cap[k].state = "asked"
    /\ IF running >= MaxInFlightCaps
       THEN cap' = [cap EXCEPT ![k].state = "refused"] /\ UNCHANGED running
       ELSE /\ cap' = [cap EXCEPT ![k] = [state |-> "runs", under |-> {e \in CallEvents : inFlightHookEvents[e] > 0}]]
            /\ running' = running + 1
    /\ UNCHANGED <<state, ready, call, wire, inFlightHookEvents>>

\* The verb returns or throws: with the worker gone, nobody hears it.
CapEnds(k) ==
    /\ cap[k].state = "runs"
    /\ running' = running - 1 /\ cap' = [cap EXCEPT ![k].state = "answered"]
    /\ UNCHANGED <<state, ready, call, wire, inFlightHookEvents>>

Terminate ==
    /\ state = "up" /\ state' = "killed"
    /\ UNCHANGED <<ready, call, wire, inFlightHookEvents, cap, running>>

\* handleExit(), after a crash or a terminate(): everybody who waits is answered.
Exit ==
    LET left == {c \in HostCalls : Awaits(c)} IN
    /\ ~Dead /\ state' = "exited"
    /\ Settle(left, Without(DrainedTo))
    /\ inFlightHookEvents' = Settles(left)
    /\ wire' = [c \in HostCalls |-> "none"]
    /\ cap' = [k \in Caps |-> IF cap[k].state = "asked" THEN NoCap ELSE cap[k]]
    /\ UNCHANGED <<ready, running>>

-----------------------------------------------------------------------------
(* The worker                                                               *)

\* A handler ends; the registries catch what handlers of hooks throw.
WorkerAnswers(c) ==
    /\ ~Dead /\ wire[c] = "sent"
    /\ \E a \in {"ok", "rejected"} :
          /\ call[c].kind = "hook" => a = "ok"
          /\ wire' = [wire EXCEPT ![c] = a]
    /\ UNCHANGED <<state, ready, call, inFlightHookEvents, cap, running>>

\* The plugin calls the program: from a handler, or on its own account.
WorkerAsks(k) ==
    /\ ~Dead /\ cap[k].state = "idle"
    /\ cap' = [cap EXCEPT ![k].state = "asked"]
    /\ UNCHANGED <<state, ready, call, wire, inFlightHookEvents, running>>

HostNext ==
    \/ Terminate \/ Exit
    \/ \E c \in HostCalls :
          \/ \E kind \in CallKinds, e \in CallEvents \cup {"none"} : Ask(c, kind, e)
          \/ Hears(c) \/ TimesOut(c) \/ WorkerAnswers(c)
    \/ \E k \in Caps : WorkerAsks(k) \/ CapArrives(k) \/ CapEnds(k)

\* The timers run out, the messages arrive and the verbs return; the worker owes nothing.
HostFairness ==
    /\ \A c \in HostCalls : WF_hostVars(TimesOut(c))
    /\ \A k \in Caps : WF_hostVars(CapArrives(k) \/ CapEnds(k))

HostSpec == HostInit /\ [][HostNext]_hostVars /\ HostFairness

-----------------------------------------------------------------------------

HostTypeOK ==
    /\ state \in {"up", "killed", "exited"} /\ ready \in BOOLEAN
    /\ call \in [HostCalls -> [kind : CallKinds \cup {"none"}, event : CallEvents \cup {"none"},
                           state : {"idle", "pending", "settled"},
                           result : {"none", "ok", "rejected", "continue", "504", "502", "error", "unhealthy"}]]
    /\ wire \in [HostCalls -> {"none", "sent", "ok", "rejected"}]
    /\ inFlightHookEvents \in [CallEvents -> Nat]
    /\ cap \in [Caps -> [state : {"idle", "asked", "runs", "refused", "answered"}, under : SUBSET CallEvents]]
    /\ running \in 0 .. MaxInFlightCaps

\* The events that count as being handled are those of the pending hooks, with their number: after an
\* answer, a timeout with or without a late answer, and a crash.  Otherwise an event would be suppressed
\* for the plugin for ever, or not while it is handled.
InFlightIsPending ==
    \A e \in CallEvents : inFlightHookEvents[e] = Cardinality({c \in HostCalls : Awaits(c) /\ call[c].event = e})

\* The counter of the capability calls is exact, so that the limit neither leaks nor is exceeded, across
\* crashes too.
CapsAreCounted == running = Cardinality({k \in Caps : cap[k].state = "runs"}) /\ running <= MaxInFlightCaps


\* Nobody waits for a worker that has ended, and no hook ever stops a chain because its worker failed.
DeadOwesNothing ==
    /\ Dead => \A c \in HostCalls : ~Awaits(c)
    /\ \A c \in HostCalls : call[c].kind = "hook" /\ call[c].state = "settled" => call[c].result \in {"ok", "continue"}

\* Both counters of a host are exact, and nobody waits for a worker that is gone.
SandboxIsExact == InFlightIsPending /\ CapsAreCounted /\ DeadOwesNothing

\* A call is settled once: no second answer changes what the caller was told.
SettledOnce == [][\A c \in HostCalls : call[c].state = "settled" => call'[c] = call[c]]_hostVars

\* Every call is settled and every capability call that was taken ends.
CallEnds == \A c \in HostCalls : Awaits(c) ~> ~Awaits(c)
CapsReturn == \A k \in Caps : cap[k].state = "runs" ~> cap[k].state # "runs"

=============================================================================
