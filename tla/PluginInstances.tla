---------------------------- MODULE PluginInstances ----------------------------
(***************************************************************************)
(* The instances of an integration plugin and what they bind it to:        *)
(* src/modules/integration/plugin-instance.service.ts, its controller,     *)
(* scope-binding.service.ts, and the settings an operator makes by hand    *)
(* (src/modules/plugins/plugins.service.ts), for one plugin.               *)
(*                                                                         *)
(* The rows are the truth; the sessions and the configuration the plugin   *)
(* runs with are derived from them by the calls and by the next boot.  A   *)
(* configuration has one key, a secret, which the dashboard only ever sees *)
(* masked.                                                                 *)
(***************************************************************************)
EXTENDS Integers, FiniteSets

CONSTANTS
    Instances,
    Scopes,         \* sessions an instance can be bound to; "all" stands for null and '*'
    Secrets,        \* values of the key
    MaxCalls,       \* bound: calls and settings
    MaxStarts,      \* bound: restarts
    InstanceFaults  \* which of "unload" (of the plugin), "crash" may happen

ASSUME InstanceAssumption ==
    /\ {"all", "none", "same"} \cap Scopes = {}
    /\ {"empty", "masked", "same"} \cap Secrets = {}
    /\ {MaxCalls, MaxStarts} \subseteq Nat
    /\ InstanceFaults \subseteq {"unload", "crash"}

VARIABLES
    rows,     \* plugin_instances
    bound,    \* config, sessionConfig and activeSessions of the plugin, also in its registry
    loaded,   \* is the plugin in the loader?
    requests, \* the calls under way
    issued,   \* calls so far
    starts,
    fresh,    \* history: nothing has been asked since a boot with the plugin
    overlaid, \* history: instances two calls were working on at a time
    doubtful, \* history: may an enabled instance be unbound until the next boot?
    leaked,   \* history: may something stay bound that no enabled instance asks for?
    chosen,   \* history: per instance the configuration that was chosen last
    shownKey     \* history: per instance the ingress secret that was shown last

instanceVars == <<rows, bound, loaded, requests, issued, starts, fresh, overlaid, doubtful, leaked, chosen, shownKey>>

NoInstance == [scope |-> "none", enabled |-> FALSE, config |-> "empty", key |-> 0]

Exists(i) == rows[i].scope # "none"
Enabled(i) == Exists(i) /\ rows[i].enabled

MutRestore(incoming, stored) == incoming

\* restoreSecretConfig(): the mask, which is all a form knows, stands for what is stored.
Restore(incoming, stored) == IF incoming = "masked" THEN stored ELSE incoming

-----------------------------------------------------------------------------
(* ScopeBindingService.applyScopeBinding()                                  *)

Bind(b, scope, config) ==
    IF scope = "all" THEN [b EXCEPT !.base = IF config = "empty" THEN @ ELSE config, !.active = {"all"}]
    ELSE [b EXCEPT !.own[scope] = config, !.active = (@ \ {"all"}) \cup {scope}]

\* Of one session; its override goes with it.
Unbind(b, scope) == [b EXCEPT !.own[scope] = "empty", !.active = @ \ {"all", scope}]

RetireAll(b) == [b EXCEPT !.active = @ \ {"all"}]

EnabledScopes(r) == {r[i].scope : i \in {i \in Instances : r[i].enabled}}

\* Scopes get into each other's way: a session bound twice, or beside one that binds all.
Mixed(r) ==
    \E i, j \in Instances : /\ i # j /\ r[i].enabled /\ r[j].enabled
                            /\ r[i].scope = r[j].scope \/ "all" \in {r[i].scope, r[j].scope}

Doubts == doubtful' = (doubtful \/ Mixed(rows'))
Leaks == leaked' = (leaked \/ Mixed(rows'))

\* onApplicationBootstrap(): the sessions first, then what binds all, whose activation stays.
Rebind(b, r, own, base) ==
    LET sessions == EnabledScopes(r) \ {"all"}
        one == [base |-> b.base,
                own |-> [s \in Scopes |-> IF s \in sessions THEN own[s] ELSE b.own[s]],
                active |-> IF sessions = {} THEN b.active ELSE (b.active \ {"all"}) \cup sessions]
    IN IF "all" \in EnabledScopes(r) THEN Bind(one, "all", base) ELSE one

\* Of several instances in one scope the last in their order wins; several of "all" merge.
Wins(r, s, c) == \E i \in Instances : r[i].enabled /\ r[i].scope = s /\ r[i].config = c

\* What a boot can make of b for the rows r.
BoundAtBoot(b, r) ==
    {Rebind(b, r, own, base) :
        own \in {f \in [Scopes -> Secrets \cup {"empty"}] :
                    \A s \in Scopes : IF s \in EnabledScopes(r) THEN Wins(r, s, f[s]) ELSE f[s] = "empty"},
        base \in {c \in Secrets \cup {"empty"} :
                    IF \E k \in Secrets : Wins(r, "all", k) THEN c # "empty" /\ Wins(r, "all", c) ELSE c = "empty"}}

-----------------------------------------------------------------------------

Unbound == [base |-> "empty", own |-> [s \in Scopes |-> "empty"], active |-> {"all"}]

InstancesInit ==
    /\ rows \in [Instances -> {NoInstance} \cup [scope : Scopes \cup {"all"}, enabled : BOOLEAN, config : Secrets, key : {0}]]
    /\ bound \in BoundAtBoot(Unbound, rows)
    /\ loaded = TRUE
    /\ requests = {}
    /\ issued = 0 /\ starts = 0
    /\ fresh = TRUE /\ overlaid = {} /\ doubtful = Mixed(rows) /\ leaked = Mixed(rows)
    /\ chosen = [i \in Instances |-> rows[i].config]
    /\ shownKey = [i \in Instances |-> 0]

-----------------------------------------------------------------------------
(* The calls                                                                *)

CallBecomes(q, next) == requests' = (requests \ {q}) \cup next

\* A call begins; it overlaps those under way.
Asks(q) ==
    /\ issued < MaxCalls /\ issued' = issued + 1
    /\ requests' = requests \cup {q}
    /\ overlaid' = overlaid \cup {p.of : p \in {p \in requests : p.of = q.of}}
    /\ doubtful' = (doubtful \/ requests # {}) /\ leaked' = (leaked \/ requests # {})
    /\ fresh' = FALSE
    /\ UNCHANGED <<rows, bound, loaded, starts, chosen, shownKey>>

NewCall(kind, i) ==
    [kind |-> kind, of |-> i, number |-> issued + 1, at |-> "resolving", copy |-> NoInstance, from |-> "none",
     enable |-> "same", scope |-> "same", config |-> "same", left |-> FALSE]

Create(i) ==
    \E s \in Scopes \cup {"all"}, c \in Secrets \cup {"empty"} :
        Asks([NewCall("create", i) EXCEPT !.scope = s, !.config = c])

Regenerate(i) == Asks(NewCall("regenerate", i))
RemoveInstance(i) == Asks(NewCall("remove", i))

\* PATCH: the button of the dashboard, or its form, which sends the configuration masked or anew.
Patch(i) ==
    \/ \E e \in {"on", "off"} : Asks([NewCall("patch", i) EXCEPT !.enable = e])
    \/ \E s \in Scopes \cup {"same", "all"}, c \in Secrets \cup {"masked"} :
          Asks([NewCall("patch", i) EXCEPT !.scope = s, !.config = c])

CallRests(names) == UNCHANGED <<loaded, issued, starts, fresh, overlaid>> /\ UNCHANGED names

\* resolve(), or the findOne() of create().
Resolve(q) ==
    /\ q.at = "resolving"
    /\ IF Exists(q.of) = (q.kind = "create") THEN CallBecomes(q, {})
       ELSE CallBecomes(q, {[q EXCEPT !.from = rows[q.of].scope, !.copy = rows[q.of],
                                  !.at = IF q.kind \in {"create", "remove"} THEN "writing" ELSE "reading"]})
    /\ CallRests(<<rows, bound, doubtful, leaked, chosen, shownKey>>)

\* setEnabled(), update() and regenerateSecret() read the row once more.
Reread(q) ==
    /\ q.at = "reading"
    /\ IF Exists(q.of) THEN CallBecomes(q, {[q EXCEPT !.copy = rows[q.of], !.at = "writing"]}) ELSE CallBecomes(q, {})
    /\ CallRests(<<rows, bound, doubtful, leaked, chosen, shownKey>>)

\* What a call makes of its copy of the row.
Changed(q) ==
    CASE q.kind = "create" -> [scope |-> q.scope, enabled |-> TRUE, config |-> q.config, key |-> q.number]
      [] q.kind = "remove" -> NoInstance
      [] q.kind = "regenerate" -> [q.copy EXCEPT !.key = q.number]
      [] OTHER -> [q.copy EXCEPT !.enabled = IF q.enable = "same" THEN @ ELSE q.enable = "on",
                                 !.scope = IF q.scope = "same" THEN @ ELSE q.scope,
                                 !.config = IF q.config = "same" THEN @ ELSE Restore(q.config, @)]

\* save() writes the whole copy, also when the row has changed or is gone; the next step of the call follows.
Write(q) ==
    /\ q.at = "writing"
    /\ rows' = [rows EXCEPT ![q.of] = Changed(q)]
    /\ CallBecomes(q, IF q.kind = "regenerate" THEN {} ELSE {[q EXCEPT !.copy = Changed(q), !.at = "binding"]})
    /\ chosen' = [chosen EXCEPT ![q.of] =
                    IF q.kind = "remove" THEN "empty" ELSE IF q.config \in {"same", "masked"} THEN @ ELSE q.config]
    /\ shownKey' = [shownKey EXCEPT ![q.of] =
                    IF q.kind = "remove" THEN 0 ELSE IF q.kind \in {"create", "regenerate"} THEN q.number ELSE @]
    /\ Doubts /\ Leaks
    /\ CallRests(bound)

\* The scope is left: the row is gone, or bound elsewhere now.
LeavesScope(q) == q.kind # "create" /\ q.from # q.copy.scope
\* It is bound, or bound no longer, where it is.
StaysEnabled(q) == q.kind # "remove" /\ q.copy.enabled

MustList(q) ==
    \/ LeavesScope(q) /\ q.from = "all" /\ q.at = "binding"
    \/ q.kind # "remove" /\ ~q.copy.enabled /\ q.copy.scope = "all"

\* The old scope, unless it is retired already, then the new one; the plugin may be gone meanwhile.
AfterLeaving(q, b) == IF LeavesScope(q) /\ q.from # "all" THEN Unbind(b, q.from) ELSE b
AfterBinding(q, b) ==
    CASE StaysEnabled(q) -> Bind(b, q.copy.scope, q.copy.config)
      [] q.kind # "remove" /\ ~q.copy.enabled /\ q.copy.scope # "all" -> Unbind(b, q.copy.scope)
      [] OTHER -> b

Unbinds(q) == LeavesScope(q) \/ ~StaysEnabled(q)

\* The sessions that are unbound for the call, whoever else they are bound for: with a session "all" is dropped.
Left(q) ==
    {s \in Scopes : \/ LeavesScope(q) /\ q.from = s
                    \/ q.kind # "remove" /\ ~q.copy.enabled /\ q.copy.scope = s}
Robs(q) == Left(q) # {} /\ \E i \in Instances \ {q.of} : Enabled(i) /\ rows[i].scope \in Left(q) \cup {"all"}

\* An activation, or the end of one session's, is made in one go.
Apply(q) ==
    /\ q.at \in {"binding", "bound"} /\ ~MustList(q)
    /\ bound' = IF loaded THEN AfterBinding(q, AfterLeaving(q, bound)) ELSE bound
    /\ doubtful' = (doubtful \/ ~loaded \/ Robs(q))
    /\ leaked' = (leaked \/ (~loaded /\ Unbinds(q)))
    /\ CallBecomes(q, {})
    /\ CallRests(<<rows, chosen, shownKey>>)

\* "All sessions" ends only when no other enabled instance asks for it: they are listed,
List(q) ==
    /\ q.at \in {"binding", "bound"} /\ MustList(q)
    /\ CallBecomes(q, {[q EXCEPT !.at = IF LeavesScope(q) /\ q.from = "all" /\ q.at = "binding" THEN "leaving" ELSE "retiring",
                             !.left = \E i \in Instances : Enabled(i) /\ rows[i].scope = "all"]})
    /\ bound' = IF loaded THEN AfterLeaving(q, bound) ELSE bound
    /\ doubtful' = (doubtful \/ Robs(q))
    /\ leaked' = (leaked \/ ~loaded)
    /\ CallRests(<<rows, chosen, shownKey>>)

\* and then it is dropped, or not.
Drop(q) ==
    /\ q.at \in {"leaving", "retiring"}
    /\ bound' = IF loaded /\ ~q.left THEN RetireAll(bound) ELSE bound
    /\ leaked' = (leaked \/ ~loaded)
    /\ CallBecomes(q, IF q.at = "leaving" /\ q.kind # "remove" THEN {[q EXCEPT !.at = "bound"]} ELSE {})
    /\ CallRests(<<rows, doubtful, chosen, shownKey>>)

CallStep(q) == Resolve(q) \/ Reread(q) \/ Write(q) \/ Apply(q) \/ List(q) \/ Drop(q)

-----------------------------------------------------------------------------
(* Settings by hand                                                         *)

Set(b) ==
    /\ loaded /\ issued < MaxCalls /\ issued' = issued + 1
    /\ bound' = b
    /\ doubtful' = TRUE /\ leaked' = TRUE /\ fresh' = FALSE
    /\ UNCHANGED <<rows, loaded, requests, starts, overlaid, chosen, shownKey>>

\* updateSessions()
ChooseSessions == \E a \in (SUBSET Scopes) \cup {{"all"}} : Set([bound EXCEPT !.active = a])

\* updateConfig(): the form sends every key.
SaveBase == \E c \in Secrets \cup {"masked"} : Set([bound EXCEPT !.base = Restore(c, @)])

\* updateSessionConfig(): the mask of the form may stand for the secret of all sessions; {} clears.
SaveOverride == \E s \in Scopes, c \in Secrets \cup {"masked", "empty"} : Set([bound EXCEPT !.own[s] = Restore(c, @)])

-----------------------------------------------------------------------------
(* The plugin and the process                                               *)

Unload ==
    /\ "unload" \in InstanceFaults
    /\ loaded' = ~loaded
    /\ UNCHANGED <<rows, bound, requests, issued, starts, fresh, overlaid, doubtful, leaked, chosen, shownKey>>

\* The process ends between two calls, or in the middle of some; a plugin that is not loaded is not bound.
StartUp ==
    /\ requests # {} => "crash" \in InstanceFaults
    /\ starts < MaxStarts /\ starts' = starts + 1
    /\ requests' = {}
    /\ bound' \in IF loaded THEN BoundAtBoot(bound, rows) ELSE {bound}
    /\ fresh' = loaded
    /\ doubtful' = (~loaded \/ Mixed(rows))
    /\ leaked' = (leaked \/ requests # {})
    /\ UNCHANGED <<rows, loaded, issued, overlaid, chosen, shownKey>>

InstancesNext ==
    \/ \E i \in Instances : Create(i) \/ Regenerate(i) \/ RemoveInstance(i) \/ Patch(i)
    \/ \E q \in requests : CallStep(q)
    \/ ChooseSessions \/ SaveBase \/ SaveOverride \/ Unload \/ StartUp

InstancesSpec == InstancesInit /\ [][InstancesNext]_instanceVars

-----------------------------------------------------------------------------

InstancesTypeOK ==
    /\ rows \in [Instances -> [scope : Scopes \cup {"all", "none"}, enabled : BOOLEAN,
                               config : Secrets \cup {"empty", "masked"}, key : 0..MaxCalls]]
    /\ bound.active \subseteq Scopes \cup {"all"}
    /\ \A q \in requests : q.of \in Instances /\ q.at \in {"resolving", "reading", "writing", "binding", "bound",
                                                           "leaving", "retiring"}

Covers(i) == IF rows[i].scope = "all" THEN "all" \in bound.active
             ELSE {"all", rows[i].scope} \cap bound.active # {} /\ Wins(rows, rows[i].scope, bound.own[rows[i].scope])

\* When no call is under way, the plugin runs in the session of every enabled instance, with a
\* configuration of it, unless calls overlapped, scopes were mixed, the plugin was away at the time, or
\* an instance that shared its session was removed, moved or disabled ...
EnabledIsBound == requests = {} /\ ~doubtful => \A i \in Instances : Enabled(i) => Covers(i)

\* ... and whatever has happened, the next boot with the plugin puts that right.
BootRestores == fresh => \A i \in Instances : Enabled(i) => Covers(i)

\* A session is active or has a configuration of its own only as long as an enabled instance asks for it.
NothingElseIsBound ==
    requests = {} /\ ~leaked =>
        \A s \in Scopes : (s \in bound.active \/ bound.own[s] # "empty") => \E i \in Instances : Enabled(i) /\ rows[i].scope = s

\* The mask of a secret is never stored in place of it, and saving a form keeps what it did not show.
SecretsAreKept ==
    /\ "masked" \notin {rows[i].config : i \in Instances} \cup {bound.own[s] : s \in Scopes} \cup {bound.base}
    /\ \A i \in Instances \ overlaid : rows[i].config = chosen[i]

\* The ingress secret shown last is the one in force.
ShownIsInForce == \A i \in Instances \ overlaid : rows[i].key = shownKey[i]

InstancesAreSound == EnabledIsBound /\ BootRestores /\ NothingElseIsBound /\ SecretsAreKept /\ ShownIsInForce

===============================================================================
