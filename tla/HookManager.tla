------------------------------ MODULE HookManager ------------------------------
(***************************************************************************)
(* src/core/hooks/hook-manager.service.ts: the handlers of plugins and of  *)
(* built-in services, called one after the other for every event; with the *)
(* shim of plugin-loader.service.ts through which a sandboxed plugin sees  *)
(* an event, and the way its own calls come back to the host               *)
(* (plugin-worker-host.ts).                                                *)
(*                                                                         *)
(* One action is the code between two awaits: a chain stands at the handler*)
(* it awaits.  A chain iterates over the array of its event, in place.     *)
(***************************************************************************)
EXTENDS Integers, Sequences, SequencesExt, FiniteSets, Subsequences

CONSTANTS
    HookPlugins,
    Sandboxed,        \* those of them that run in a worker
    HookEvents,
    Priorities,
    Chains,           \* bound: executions that run at the same time
    MaxRegistrations  \* bound: registrations ever made

ASSUME HookAssumption ==
    /\ Sandboxed \subseteq HookPlugins
    /\ Priorities \subseteq Nat /\ MaxRegistrations \in Nat
    /\ IsFiniteSet(HookPlugins) /\ IsFiniteSet(HookEvents) /\ IsFiniteSet(Chains)

VARIABLES
    hooks,     \* per event: its registrations, in the order they are called
    chain,     \* per chain: what it does
    regs       \* history: registrations made so far

hookVars == <<hooks, chain, regs>>

\* list: the array a chain iterates over; live as long as unregisterPlugin() has not put another in its
\* place.  at, on: its index, and the registration it awaits.  line, seen, present and edited are history:
\* the events whose handling led here, the registrations called, those there at the start, and whether the
\* array changed under the chain (which ends the history).
IdleChain == [state |-> "idle", event |-> "none", inFlight |-> {}, list |-> <<>>, live |-> TRUE, at |-> 0, on |-> <<>>,
              line |-> <<>>, seen |-> <<>>, present |-> {}, edited |-> FALSE]

HookInit ==
    /\ hooks = [e \in HookEvents |-> <<>>]
    /\ chain = [c \in Chains |-> IdleChain]
    /\ regs = 0

Running(c) == chain[c].state = "running"
ListOf(c) == IF chain[c].live THEN hooks[chain[c].event] ELSE chain[c].list
\* The chains that await a handler of a plugin.
AwaitedBy(p) == {c \in Chains : Running(c) /\ chain[c].on.plugin = p}

Touch(e) == [c \in Chains |-> IF Running(c) /\ chain[c].event = e /\ chain[c].live
                              THEN [chain[c] EXCEPT !.edited = TRUE, !.seen = <<>>, !.present = {}] ELSE chain[c]]

-----------------------------------------------------------------------------
(* The registry                                                             *)

\* Push, then a stable sort: after the registrations of the same priority.
Insert(list, r) ==
    Picked(list, {i \in DOMAIN list : list[i].priority <= r.priority}) \o <<r>>
       \o Picked(list, {i \in DOMAIN list : list[i].priority > r.priority})

\* A worker has one registration per event, however many handlers it has for it.
Register(p, e, n) ==
    /\ regs < MaxRegistrations
    /\ p \in Sandboxed => \A i \in DOMAIN hooks[e] : hooks[e][i].plugin # p
    /\ regs' = regs + 1
    /\ hooks' = [hooks EXCEPT ![e] = Insert(@, [id |-> regs', plugin |-> p, priority |-> n])]
    /\ chain' = Touch(e)

\* unregister(), by the built-in services: spliced out of the array a chain may be walking.
Unregister(e, i) ==
    /\ i \in DOMAIN hooks[e] /\ hooks[e][i].plugin \notin Sandboxed
    /\ hooks' = [hooks EXCEPT ![e] = RemoveAt(@, i)]
    /\ chain' = Touch(e)
    /\ UNCHANGED regs

\* unregisterPlugin() stores new arrays; a chain keeps walking the old one.
Without(list, p) == Picked(list, {i \in DOMAIN list : list[i].plugin # p})

UnregisterPlugin(p) ==
    /\ hooks' = [e \in HookEvents |-> Without(hooks[e], p)]
    /\ chain' = [c \in Chains |-> IF Running(c) /\ chain[c].live
                                  THEN [chain[c] EXCEPT !.live = FALSE, !.list = hooks[chain[c].event]]
                                  ELSE chain[c]]
    /\ UNCHANGED regs

-----------------------------------------------------------------------------
(* execute() and runHandlers()                                              *)

MutStartUnmarked(c, e, inFlight, line) ==
    /\ chain[c].state = "idle" /\ hooks[e] # <<>>
    /\ chain' = [chain EXCEPT ![c] = [IdleChain EXCEPT
                    !.state = "running", !.event = e, !.inFlight = inFlight, !.line = Append(line, e),
                    !.at = 1, !.on = hooks[e][1], !.present = Range(hooks[e])]]
    /\ UNCHANGED <<hooks, regs>>

\* The event joins those in flight, and its first handler is called; without handlers nothing happens.
Start(c, e, inFlight, line) ==
    /\ chain[c].state = "idle" /\ hooks[e] # <<>>
    /\ chain' = [chain EXCEPT ![c] = [IdleChain EXCEPT
                    !.state = "running", !.event = e, !.inFlight = inFlight \cup {e}, !.line = Append(line, e),
                    !.at = 1, !.on = hooks[e][1], !.present = Range(hooks[e])]]
    /\ UNCHANGED <<hooks, regs>>

\* A caller outside every handler.
Fire(c, e) == Start(c, e, {}, <<>>)

\* A handler of chain k fires an event: AsyncLocalStorage hands it what is in flight, and the guard of
\* execute() calls nobody for an event that is.
FireInside(c, k, e) ==
    /\ Running(k) /\ chain[k].on.plugin \notin Sandboxed /\ e \notin chain[k].inFlight
    /\ Start(c, e, chain[k].inFlight, chain[k].line)

\* handleCapRequest(): a sandboxed plugin calls the host, for the handling k or on its own account.  The
\* storage does not cross the channel: the call gets every event that is pending in the worker.
Pending(p, k) == {chain[d].event : d \in AwaitedBy(p)}
FireFromWorker(c, p, k, e) ==
    /\ k = "none" \/ k \in AwaitedBy(p)
    /\ e \notin Pending(p, k)
    /\ Start(c, e, Pending(p, k), <<>>)

\* What a handler answers: go on or stop, and an error, which alone does not stop the chain.  A worker
\* reports none: its handlers are guarded on its side, and a late answer counts as "continue".
Answers == [continue : BOOLEAN, error : BOOLEAN]
MayAnswer(p, a) == p \in Sandboxed => ~a.error

MutHasNext(c, a) == a.continue /\ ~a.error /\ chain[c].at < Len(ListOf(c))

\* The iterator takes the next index of the array as it is now.
HasNext(c, a) == a.continue /\ chain[c].at < Len(ListOf(c))

Answered(c, a) ==
    LET h == chain[c].on
        next == HasNext(c, a) IN
    /\ Running(c) /\ MayAnswer(h.plugin, a)
    /\ chain' = [chain EXCEPT ![c] = [chain[c] EXCEPT
                    !.state = IF next THEN "running" ELSE IF a.continue THEN "over" ELSE "stopped",
                    !.at = chain[c].at + 1,
                    !.on = IF next THEN ListOf(c)[chain[c].at + 1] ELSE h,
                    !.seen = IF chain[c].edited THEN chain[c].seen ELSE Append(chain[c].seen, h)]]
    /\ UNCHANGED <<hooks, regs>>

\* The caller has the answer.
Return(c) ==
    /\ chain[c].state \in {"stopped", "over"}
    /\ chain' = [chain EXCEPT ![c] = IdleChain]
    /\ UNCHANGED <<hooks, regs>>

HookNext ==
    \/ \E p \in HookPlugins : UnregisterPlugin(p)
    \/ \E e \in HookEvents :
          \/ \E p \in HookPlugins, n \in Priorities : Register(p, e, n)
          \/ \E i \in DOMAIN hooks[e] : Unregister(e, i)
          \/ \E c \in Chains :
                \/ Fire(c, e)
                \/ \E k \in Chains : FireInside(c, k, e)
                \/ \E p \in Sandboxed, k \in Chains \cup {"none"} : FireFromWorker(c, p, k, e)
    \/ \E c \in Chains : Return(c) \/ \E a \in Answers : Answered(c, a)

HookSpec == HookInit /\ [][HookNext]_hookVars

-----------------------------------------------------------------------------

Registrations == [id : 1 .. MaxRegistrations, plugin : HookPlugins, priority : Priorities]

HookTypeOK ==
    /\ \A e \in HookEvents : \A i \in DOMAIN hooks[e] : hooks[e][i] \in Registrations
    /\ \A c \in Chains :
          /\ chain[c].state \in {"idle", "running", "stopped", "over"}
          /\ Running(c) => chain[c].event \in chain[c].inFlight /\ chain[c].on \in Registrations
    /\ regs \in 0 .. MaxRegistrations

\* "lower runs first": the array is sorted and holds no registration twice, whatever was spliced out of it.
InOrder ==
    \A e \in HookEvents : \A i, j \in DOMAIN hooks[e] :
       i < j => hooks[e][i].priority <= hooks[e][j].priority /\ hooks[e][i].id # hooks[e][j].id

\* An event is never handled inside its own handling, through however many handlers it was fired: plugins
\* that send from a message:sending handler do not loop.  The worker channel cuts the lineage.
NoReentry ==
    \A c \in Chains : \A i, j \in DOMAIN chain[c].line : i # j => chain[c].line[i] # chain[c].line[j]

\* A chain that was left alone calls every handler once, in order, up to the one that stopped it; the
\* failure of one of them does not keep the others from being called.
CalledOnce ==
    \A c \in Chains :
       chain[c].state \in {"over", "stopped"} /\ ~chain[c].edited =>
          LET ids == [i \in DOMAIN chain[c].seen |-> chain[c].seen[i].id] IN
          /\ \A i, j \in DOMAIN ids : i # j => ids[i] # ids[j]
          /\ chain[c].state = "over" => Range(chain[c].seen) = chain[c].present

\* What chains do with their handlers: one left alone calls each once and in order, and none inside itself.
ChainsAreSound == InOrder /\ CalledOnce /\ NoReentry

=============================================================================
