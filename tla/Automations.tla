------------------------------ MODULE Automations ------------------------------
(***************************************************************************)
(* The two automations behind the message:received hook: replies of a      *)
(* language model (src/modules/ai/ai-auto-reply.service.ts) and the        *)
(* removal of group messages that match a keyword                          *)
(* (src/modules/moderation/group-cleanup.service.ts).                      *)
(*                                                                         *)
(* Neither is awaited by the chain, so runs overlap.  They share no state  *)
(* with each other, but each keeps a small memory with expiry: the time of *)
(* the last reply per chat, the messages already handled, and whether the  *)
(* account is an administrator of a group.  Time is counted in ticks.      *)
(***************************************************************************)
EXTENDS Integers, FiniteSets

CONSTANTS
    Inbox,         \* messages, of one session
    Groups,        \* the groups among the chats
    Directs,       \* the other chats
    MinInterval,   \* minIntervalMs
    DedupeFor,     \* the 60 seconds of recentDeletes
    AdminTtl,      \* adminCacheTtlMs
    RefusedTtl,    \* 30 or 60 seconds, when the group could not be read
    MaxTicks,      \* bound: ticks
    MaxDeliveries  \* bound: how often a message is delivered to the hooks

ASSUME AutomationAssumption ==
    {MinInterval, DedupeFor, AdminTtl, RefusedTtl, MaxTicks, MaxDeliveries} \subseteq Nat

VARIABLES
    settings,   \* the configuration, read from the environment
    chatOf,     \* per message
    isPlain,    \* per message: text of somebody else, with no prefix the replies ignore
    matches,    \* per message: its text holds a keyword
    now,
    isAdmin,    \* per group: is the account an administrator?
    wasAdmin,   \* history: per group, when it last was; -1 when it never was
    lastReply,  \* lastReplyAt
    handledAt,  \* recentDeletes
    cached,     \* adminCache
    deliveries, \* per message
    replies,    \* the runs of the replies under way
    removals,   \* the runs of the removal under way
    asked,      \* history: per chat, the times at which the model was asked
    sent,       \* history: per message, replies sent
    removed     \* history: per message, the removals decided on: when it was delivered, when the account last was
                \* an administrator, and when that was

automationVars == <<settings, chatOf, isPlain, matches, now, isAdmin, wasAdmin, lastReply, handledAt, cached,
                    deliveries, replies, removals, asked, sent, removed>>

Never == -100
Chats == Groups \cup Directs
NotCached == [admin |-> FALSE, until |-> Never]

AutomationInit ==
    /\ settings \in [ai : {"off", "draft", "auto"}, inGroups : BOOLEAN,
                     cleanup : {"off", "dry", "on"}, requireAdmin : BOOLEAN]
    /\ chatOf \in [Inbox -> Chats]
    /\ isPlain \in [Inbox -> BOOLEAN]
    /\ matches \in [Inbox -> BOOLEAN]
    /\ now = 0
    /\ isAdmin \in [Groups -> BOOLEAN]
    /\ wasAdmin = [g \in Groups |-> IF isAdmin[g] THEN 0 ELSE Never]
    /\ lastReply = [c \in Chats |-> Never]
    /\ handledAt = [m \in Inbox |-> Never]
    /\ cached = [g \in Groups |-> NotCached]
    /\ deliveries = [m \in Inbox |-> 0]
    /\ replies = {}
    /\ removals = {}
    /\ asked = [c \in Chats |-> {}]
    /\ sent = [m \in Inbox |-> 0]
    /\ removed = [m \in Inbox |-> {}]

facts == <<settings, chatOf, isPlain, matches>>
outside == <<now, isAdmin, wasAdmin, deliveries>>
replying == <<lastReply, replies, asked, sent>>
removing == <<handledAt, cached, removals, removed>>

-----------------------------------------------------------------------------
(* The hook                                                                 *)

Answerable(m) ==
    /\ settings.ai # "off" /\ isPlain[m]
    /\ chatOf[m] \in Groups => settings.inGroups

IsDue(c) == now - lastReply[c] >= MinInterval

\* AiAutoReplyService.handleInbound() up to its first await: the time is taken before the model is asked.
ReplyBegins(m) ==
    LET c == chatOf[m]
    IN IF Answerable(m) /\ IsDue(c)
       THEN /\ lastReply' = [lastReply EXCEPT ![c] = now]
            /\ asked' = [asked EXCEPT ![c] = @ \cup {<<now, m, deliveries'[m]>>}]
            /\ replies' = replies \cup {[of |-> m, number |-> deliveries'[m], at |-> "generating"]}
            /\ UNCHANGED sent
       ELSE UNCHANGED replying

Remembered(m) == handledAt[m] > now - DedupeFor

\* The cache answers, if it has not expired.
IsFresh(g) == cached[g].until > now

Decided(r) ==
    removed' = [removed EXCEPT ![r.of] = @ \cup {[since |-> r.since, at |-> now, adminAt |-> wasAdmin[chatOf[r.of]]]}]

\* Past the check of the account: a trial run only logs.
Passes(r) ==
    IF settings.cleanup = "dry" THEN removals' = removals \ {r} /\ UNCHANGED removed
    ELSE removals' = (removals \ {r}) \cup {[r EXCEPT !.at = "delaying"]} /\ Decided(r)

\* GroupCleanupService.handleInbound() up to its first await.
RemovalBegins(m) ==
    LET g == chatOf[m]
        r == [of |-> m, since |-> now, at |-> "checking"]
    IN IF settings.cleanup = "off" \/ g \notin Groups \/ ~matches[m] \/ Remembered(m)
       THEN UNCHANGED removing
       ELSE /\ handledAt' = [handledAt EXCEPT ![m] = now]
            /\ UNCHANGED cached
            /\ CASE settings.requireAdmin /\ ~IsFresh(g) -> removals' = removals \cup {r} /\ UNCHANGED removed
                 [] settings.requireAdmin /\ IsFresh(g) /\ ~cached[g].admin -> UNCHANGED <<removals, removed>>
                 [] OTHER -> Passes(r)

\* A message is dispatched to the hooks: the removal (priority 40) begins first, then the reply (50).
Deliver(m) ==
    /\ deliveries[m] < MaxDeliveries
    /\ deliveries' = [deliveries EXCEPT ![m] = @ + 1]
    /\ RemovalBegins(m)
    /\ ReplyBegins(m)
    /\ UNCHANGED <<facts, now, isAdmin, wasAdmin>>

-----------------------------------------------------------------------------
(* What the runs await                                                      *)

\* The model answers: with a text to send or to log, with nothing, with an error, or not in time.
Generated(r) ==
    /\ r.at = "generating"
    /\ \/ settings.ai = "auto" /\ replies' = (replies \ {r}) \cup {[r EXCEPT !.at = "sending"]}
       \/ replies' = replies \ {r}
    /\ UNCHANGED <<facts, outside, lastReply, asked, sent, removing>>

ReplySent(r) ==
    /\ r.at = "sending"
    /\ replies' = replies \ {r}
    /\ \/ sent' = [sent EXCEPT ![r.of] = @ + 1]
       \/ UNCHANGED sent
    /\ UNCHANGED <<facts, outside, lastReply, asked, removing>>

\* isSessionGroupAdmin(): there is no engine, the group has no participants to show, reading it fails or the
\* session has no phone; or its participants are compared with the phone of the session.
AdminChecked(r) ==
    LET g == chatOf[r.of]
    IN /\ r.at = "checking"
       /\ \/ /\ \E ttl \in {RefusedTtl, AdminTtl} : cached' = [cached EXCEPT ![g] = [admin |-> FALSE, until |-> now + ttl]]
             /\ removals' = removals \ {r} /\ UNCHANGED removed
          \/ /\ cached' = [cached EXCEPT ![g] = [admin |-> isAdmin[g], until |-> now + AdminTtl]]
             /\ IF isAdmin[g] THEN Passes(r) ELSE removals' = removals \ {r} /\ UNCHANGED removed
       /\ UNCHANGED <<facts, outside, replying, handledAt>>

\* The delay is over and the message is deleted, or the engine refuses: the error is logged.
RemovalEnds(r) ==
    /\ r.at = "delaying"
    /\ removals' = removals \ {r}
    /\ UNCHANGED <<facts, outside, replying, handledAt, cached, removed>>

Runs == (\E r \in replies : Generated(r) \/ ReplySent(r)) \/ (\E r \in removals : AdminChecked(r) \/ RemovalEnds(r))

-----------------------------------------------------------------------------

Ticks ==
    /\ now < MaxTicks /\ now' = now + 1
    /\ wasAdmin' = [g \in Groups |-> IF isAdmin[g] THEN now' ELSE wasAdmin[g]]
    /\ UNCHANGED <<facts, isAdmin, deliveries, replying, removing>>

\* Somebody promotes or demotes the account.
AdminChanges ==
    /\ \E g \in Groups : /\ isAdmin' = [isAdmin EXCEPT ![g] = ~@]
                         /\ wasAdmin' = [wasAdmin EXCEPT ![g] = now]
    /\ UNCHANGED <<facts, now, deliveries, replying, removing>>

AutomationNext == (\E m \in Inbox : Deliver(m)) \/ Runs \/ Ticks \/ AdminChanges

\* The model has a deadline of 45 seconds, the delay is a timer, and engines answer.
AutomationFairness == WF_automationVars(Runs)

AutomationSpec == AutomationInit /\ [][AutomationNext]_automationVars /\ AutomationFairness

-----------------------------------------------------------------------------

AutomationTypeOK ==
    /\ \A r \in replies : r.of \in Inbox /\ r.at \in {"generating", "sending"}
    /\ \A r \in removals : r.of \in Inbox /\ r.at \in {"checking", "delaying"}
    /\ \A g \in Groups : cached[g].admin \in BOOLEAN
    /\ deliveries \in [Inbox -> 0..MaxDeliveries]

\* In one chat the model is asked at most once per interval, however its answers and the messages interleave; only
\* a message the settings let through is answered, and none more often than it was delivered (the replies themselves
\* may go out close together when the model is slow).
RepliesAreSpaced ==
    /\ \A c \in Chats : \A a, b \in asked[c] : a # b => a[1] - b[1] >= MinInterval \/ b[1] - a[1] >= MinInterval
    /\ \A m \in Inbox : sent[m] > 0 => settings.ai = "auto" /\ isPlain[m] /\ (chatOf[m] \in Groups => settings.inGroups)
    /\ \A m \in Inbox : sent[m] <= deliveries[m]

\* A message is removed only in a group, when the account was an administrator there no longer ago than the
\* cache lives, though it may be demoted meanwhile.
RemovedAsAdmin ==
    \A m \in Inbox : \A d \in removed[m] :
        /\ chatOf[m] \in Groups /\ matches[m] /\ settings.cleanup = "on"
        /\ settings.requireAdmin => d.at - d.adminAt <= AdminTtl

\* A message that is delivered again within a minute is handled once, also while the first run is awaiting.
RemovedOnce ==
    \A m \in Inbox : \A a, b \in removed[m] : a # b => a.since - b.since >= DedupeFor \/ b.since - a.since >= DedupeFor

AutomationsBehave == RepliesAreSpaced /\ RemovedAsAdmin /\ RemovedOnce

\* Every reply and every removal ends.
AutomationsEnd == replies \cup removals # {} ~> replies \cup removals = {}

===============================================================================
