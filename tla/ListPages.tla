------------------------------- MODULE ListPages -------------------------------
(***************************************************************************)
(* The pages of the dashboard that show a list and change it in forms:         *)
(* webhooks, templates, API keys, and the instances of a plugin            *)
(* (dashboard/src/pages/Webhooks.tsx, Templates.tsx, ApiKeys.tsx,          *)
(* components/PluginInstances.tsx), over the cached queries of             *)
(* hooks/queries.ts.                                                       *)
(*                                                                         *)
(* What a row says is a number, and so is what a form holds: 0 is empty,   *)
(* and every text typed is new.  A handler waits for its call and then     *)
(* acts on the form that is open by then.                                  *)
(***************************************************************************)
EXTENDS Integers, FiniteSets

CONSTANTS
    ListKinds,      \* which of the pages
    Entries, NoEntry,
    MaxTyped,       \* bound: texts typed
    MaxListCalls,       \* bound: calls made
    MaxStrange      \* bound: rows others remove, answers and reads lost, reads of old data, and times the page is left

ASSUME ListAssumption ==
    /\ ListKinds \subseteq {"webhooks", "templates", "keys", "instances"}
    /\ NoEntry \notin Entries
    /\ MaxTyped \in Nat \ {0} /\ {MaxListCalls, MaxStrange} \subseteq Nat

VARIABLES
    listKind,
    entries,       \* what the server has
    listed,     \* what the page shows of it: the data of the query
    stale,      \* has the data been invalidated?
    query,      \* the read under way
    mounted,    \* is the page there?
    listForms,  \* the forms for a new row and for one there is; templates have the second only, for both
    question,   \* confirmAction, deleteTarget: the question that is open
    minted,     \* createdKey, minted: the secret that is shown once
    calls,      \* the calls under way
    typed, made, strange,
    behind,     \* history: may the page not know of a change?
    written,    \* history: the texts the server has had
    unsure,     \* history: the texts of calls whose answer was lost
    moved,      \* history: texts typed into a form that a call under way will clear
    lostTexts,  \* history: texts a form has lost without the user's doing
    together,   \* history: has the user gone on to a question, a form or a call while a secret was to come?
    replaced    \* history: has a secret been replaced before the user closed it?

listVars == <<listKind, entries, listed, stale, query, mounted, listForms, question, minted, calls, typed, made, strange,
              behind, written, unsure, moved, lostTexts, together, replaced>>
serverSide == <<entries, query, stale, listed, behind, written>>
formHistory == <<unsure, lostTexts, replaced>>

NoText == [text |-> 0, secret |-> 0]
Hidden == [shown |-> FALSE, of |-> NoEntry, text |-> 0]
Cleared == [Hidden EXCEPT !.shown = (listKind = "templates")]
NoQuestion == [of |-> NoEntry, type |-> "none"]
NoSecret == [of |-> NoEntry, secret |-> 0]
NoRead == [reading |-> FALSE, snap |-> [r \in Entries |-> NoText], whole |-> FALSE]

ListInit ==
    /\ listKind \in ListKinds
    /\ \E there \in {{}, {CHOOSE r \in Entries : TRUE}} :
          entries = [r \in Entries |-> IF r \in there THEN [text |-> 1, secret |-> 1] ELSE NoText]
    /\ listed = entries /\ stale = FALSE /\ query = NoRead /\ mounted = TRUE
    /\ listForms = [slot \in {"new", "edit"} |-> IF slot = "edit" THEN Cleared ELSE Hidden]
    /\ question = NoQuestion /\ minted = NoSecret /\ calls = {}
    /\ typed = 1 /\ made = 0 /\ strange = 0
    /\ behind = FALSE /\ written = {1}
    /\ unsure = {} /\ moved = {} /\ lostTexts = {} /\ together = FALSE /\ replaced = FALSE

-----------------------------------------------------------------------------
(* The query                                                                *)

\* A read finds what is there when it is sent: a change before it is served could as well come before.
Read == [reading |-> TRUE, snap |-> entries, whole |-> TRUE]
Strange == strange < MaxStrange /\ strange' = strange + 1
FormsRest ==
    UNCHANGED <<listKind, listForms, question, minted, calls, typed, made, moved, together>> /\ UNCHANGED formHistory

\* A page that is opened, or whose window is looked at again, reads data anew that is stale, or by now older than
\* staleTime.
RefetchesList ==
    /\ mounted /\ query = NoRead
    /\ (stale /\ UNCHANGED strange) \/ Strange
    /\ query' = Read
    /\ UNCHANGED <<entries, listed, stale, mounted, behind, written>> /\ FormsRest
ListArrives ==
    /\ query # NoRead /\ query' = NoRead
    /\ listed' = query.snap /\ stale' = FALSE
    /\ behind' = (behind /\ ~query.whole)
    /\ UNCHANGED <<entries, mounted, strange, written>> /\ FormsRest
\* After one more try the data there is stays.
QueryFails ==
    /\ query # NoRead /\ query' = NoRead
    /\ Strange /\ behind' = TRUE
    /\ UNCHANGED <<entries, listed, stale, mounted, written>> /\ FormsRest

Unnoticed == behind' = TRUE /\ query' = [query EXCEPT !.whole = FALSE]

\* invalidateQueries(): a page that is there reads at once, and drops what it was reading; else the data is stale,
\* until a read that is under way ends.
Invalidates ==
    IF mounted THEN query' = Read /\ stale' = TRUE /\ UNCHANGED behind
    ELSE /\ stale' = TRUE
         /\ IF query = NoRead THEN UNCHANGED <<query, behind>> ELSE Unnoticed

OthersRemove ==
    /\ Strange
    /\ \E r \in Entries : entries[r] # NoText /\ entries' = [entries EXCEPT ![r] = NoText]
    /\ Unnoticed
    /\ UNCHANGED <<listed, stale, mounted, written>> /\ FormsRest

-----------------------------------------------------------------------------
(* The forms                                                                *)

BlankForm(slot) == IF slot = "edit" THEN Cleared ELSE Hidden

Covered ==
    \/ listKind # "templates" /\ \E slot \in DOMAIN listForms : listForms[slot].shown
    \/ question # NoQuestion
    \/ listKind = "instances" /\ minted # NoSecret

Mints(type) == type = "regenerate" \/ (type = "new" /\ listKind \in {"keys", "instances"})
GoesOn == together' = (together \/ \E c \in calls : c.here /\ Mints(c.type))

Click == mounted /\ UNCHANGED <<serverSide, listKind, mounted, strange, formHistory>>
JustForms == Click /\ UNCHANGED <<question, minted, calls, made>>

\* An API key or a webhook that was being made is still there when the form is opened again.
OpenNew ==
    /\ ~Covered /\ GoesOn /\ JustForms /\ UNCHANGED <<typed, moved>>
    /\ LET slot == IF listKind = "templates" THEN "edit" ELSE "new" IN
       listForms' = [listForms EXCEPT ![slot] = IF listKind \in {"webhooks", "keys"} THEN [@ EXCEPT !.shown = TRUE]
                                        ELSE [Hidden EXCEPT !.shown = TRUE]]
OpenEdit(r) ==
    /\ listKind # "keys" /\ ~Covered /\ listed[r] # NoText
    /\ listForms' = [listForms EXCEPT !["edit"] = [shown |-> TRUE, of |-> r, text |-> listed[r].text]]
    /\ GoesOn /\ JustForms /\ UNCHANGED <<typed, moved>>

FormReachable(slot) ==
    /\ listForms[slot].shown /\ question = NoQuestion
    /\ listKind \in {"instances", "keys"} => minted = NoSecret

Types(slot) ==
    /\ FormReachable(slot) /\ typed < MaxTyped
    /\ typed' = typed + 1
    /\ listForms' = [listForms EXCEPT ![slot].text = typed + 1]
    /\ moved' = IF \E c \in calls : c.slot = slot THEN moved \cup {typed + 1} ELSE moved
    /\ JustForms /\ UNCHANGED together

\* Closing a form keeps what a new webhook or key says; the form of the templates cannot be left while it is saved.
Cancel(slot) ==
    /\ FormReachable(slot)
    /\ listKind = "templates" => ~\E c \in calls : c.type \in {"new", "edit"}
    /\ listForms' = [listForms EXCEPT ![slot] =
                         IF listKind \in {"webhooks", "keys"} THEN [@ EXCEPT !.shown = FALSE] ELSE BlankForm(slot)]
    /\ JustForms /\ UNCHANGED <<typed, moved, together>>

\* The secret of a key is in its form.
CloseSecret ==
    /\ minted # NoSecret /\ (listKind = "keys" => listForms["new"].shown)
    /\ minted' = NoSecret
    /\ listForms' = IF listKind = "keys" THEN [listForms EXCEPT !["new"].shown = FALSE] ELSE listForms
    /\ Click /\ UNCHANGED <<question, calls, typed, made, moved, together>>

\* The component goes, with its forms; a call under way goes on.
LeavePage ==
    /\ mounted /\ mounted' = FALSE /\ Strange
    /\ listForms' = [slot \in DOMAIN listForms |-> BlankForm(slot)]
    /\ question' = NoQuestion /\ minted' = NoSecret
    /\ calls' = {[c EXCEPT !.slot = "none", !.here = FALSE] : c \in calls}
    /\ UNCHANGED <<listKind, typed, made, moved, together>> /\ UNCHANGED serverSide /\ UNCHANGED formHistory
ComeBack ==
    /\ ~mounted /\ mounted' = TRUE
    /\ UNCHANGED <<serverSide, strange>> /\ FormsRest

-----------------------------------------------------------------------------
(* The calls                                                                *)

\* The buttons that are off while a call of theirs is under way: none for webhooks.
Busy(type) ==
    CASE listKind = "webhooks" -> FALSE
      [] listKind = "templates" -> \E c \in calls : c.here /\ (c.type = "delete" <=> type = "delete")
      [] OTHER -> type \in {"new", "edit"} /\ \E c \in calls : c.here /\ c.type = type

Calls(type, of, text, slot) ==
    /\ made < MaxListCalls /\ made' = made + 1
    /\ calls' = calls \cup {[number |-> made + 1, type |-> type, of |-> of, text |-> text, slot |-> slot, here |-> TRUE,
                             at |-> "sent", answer |-> "none", secret |-> 0]}
    /\ GoesOn /\ Click /\ UNCHANGED <<minted, typed, moved>>

\* handleCreate(), submitCreate(), handleEdit(), submitEdit() and handleSave()
SubmitsForm(slot) ==
    LET f == listForms[slot]
        type == IF f.of = NoEntry THEN "new" ELSE "edit"
    IN /\ FormReachable(slot) /\ f.text # 0 /\ ~Busy(type)
       /\ Calls(type, f.of, f.text, slot) /\ UNCHANGED <<listForms, question>>

\* confirmDelete() and the like: a template is deleted from its form.
AsksToConfirm(r, type) ==
    /\ ~Covered /\ listed[r] # NoText
    /\ type = "regenerate" => listKind = "instances"
    /\ listKind = "templates" => listForms["edit"].of = r
    /\ question' = [of |-> r, type |-> type]
    /\ GoesOn /\ Click /\ UNCHANGED <<listForms, minted, calls, typed, made, moved>>
Declines ==
    /\ question # NoQuestion /\ question' = NoQuestion
    /\ Click /\ UNCHANGED <<listForms, minted, calls, typed, made, moved, together>>

\* handleDelete() asks on until it has its answer, and a template takes its form with it; runConfirm() and
\* confirmAndExecute() close the question first.
Confirms ==
    /\ question # NoQuestion /\ ~Busy("delete")
    /\ LET clears == listKind = "templates" /\ listForms["edit"].of = question.of IN
       Calls(question.type, question.of, IF clears THEN listForms["edit"].text ELSE 0, IF clears THEN "edit" ELSE "none")
    /\ question' = IF listKind \in {"webhooks", "templates"} THEN question ELSE NoQuestion
    /\ UNCHANGED listForms

\* The server: a new row, a new text, a new secret, or none any more.
ServesCall(c) ==
    /\ c.at = "sent"
    /\ LET answered(answer, secret, r) ==
             calls' = (calls \ {c}) \cup {[c EXCEPT !.at = "served", !.answer = answer, !.secret = secret, !.of = r]}
       IN \/ /\ c.type = "new"
             /\ \E r \in Entries : /\ entries[r] = NoText
                                /\ entries' = [entries EXCEPT ![r] = [text |-> c.text, secret |-> 1]]
                                /\ answered("ok", 1, r)
          \/ /\ c.type # "new" /\ entries[c.of] # NoText
             /\ entries' = [entries EXCEPT ![c.of] = CASE c.type = "edit" -> [@ EXCEPT !.text = c.text]
                                                 [] c.type = "regenerate" -> [@ EXCEPT !.secret = @ + 1]
                                                 [] OTHER -> NoText]
             /\ answered("ok", entries'[c.of].secret, c.of)
          \/ /\ IF c.type = "new" THEN TRUE ELSE entries[c.of] = NoText
             /\ UNCHANGED entries /\ answered("refused", 0, c.of)
    /\ written' = written \cup {entries'[r].text : r \in Entries}
    /\ UNCHANGED <<listKind, listed, stale, query, mounted, listForms, question, minted, typed, made, strange, behind, moved,
                   together>> /\ UNCHANGED formHistory

\* onSuccess() invalidates the query; then the handler clears the form that is open, if the page is still there.
Succeeds(c) ==
    /\ c.answer = "ok"
    /\ Invalidates
    /\ LET clears == c.slot # "none"
           text == IF clears THEN listForms[c.slot].text ELSE 0
       IN /\ listForms' = IF ~clears THEN listForms
                      ELSE IF listKind = "keys" THEN [listForms EXCEPT ![c.slot].text = 0]
                      ELSE [listForms EXCEPT ![c.slot] = BlankForm(c.slot)]
          /\ lostTexts' = IF text \in {c.text} \cup written \cup {0} THEN lostTexts ELSE lostTexts \cup {text}
    /\ question' = IF c.here /\ c.type = "delete" /\ listKind \in {"webhooks", "templates"} THEN NoQuestion ELSE question
    /\ IF c.here /\ Mints(c.type)
       THEN minted' = [of |-> c.of, secret |-> c.secret] /\ replaced' = (replaced \/ minted # NoSecret)
       ELSE UNCHANGED <<minted, replaced>>
    /\ UNCHANGED <<unsure, strange>>

\* A failure is shown, and nothing else happens.
CallGoesWrong(c) ==
    /\ \/ c.answer = "refused" /\ UNCHANGED <<behind, query, unsure, strange>>
       \/ c.answer = "ok" /\ Strange /\ Unnoticed /\ unsure' = unsure \cup {c.text}
    /\ UNCHANGED <<listForms, question, minted, stale, lostTexts, replaced>>

CallAnswered(c) ==
    /\ c.at = "served" /\ calls' = calls \ {c}
    /\ Succeeds(c) \/ CallGoesWrong(c)
    /\ UNCHANGED <<listKind, entries, listed, mounted, typed, made, written, moved, together>>

ListNext ==
    \/ RefetchesList \/ ListArrives \/ QueryFails \/ OthersRemove
    \/ OpenNew \/ CloseSecret \/ LeavePage \/ ComeBack \/ Declines \/ Confirms
    \/ \E r \in Entries : OpenEdit(r) \/ \E type \in {"delete", "regenerate"} : AsksToConfirm(r, type)
    \/ \E slot \in {"new", "edit"} : Types(slot) \/ Cancel(slot) \/ SubmitsForm(slot)
    \/ \E c \in calls : ServesCall(c) \/ CallAnswered(c)

ListSpec == ListInit /\ [][ListNext]_listVars

-----------------------------------------------------------------------------

ListTexts == 0 .. MaxTyped

ListTypeOK ==
    /\ \A r \in Entries : entries[r].text \in ListTexts /\ listed[r].text \in ListTexts
    /\ \A slot \in {"new", "edit"} : listForms[slot].of \in Entries \cup {NoEntry} /\ listForms[slot].text \in ListTexts
    /\ question.of \in Entries \cup {NoEntry} /\ minted.of \in Entries \cup {NoEntry}
    /\ query.snap \in [Entries -> [text : ListTexts, secret : Nat]] /\ made \in 0 .. MaxListCalls
    /\ \A c \in calls : c.slot \in {"new", "edit", "none"} /\ c.at \in {"sent", "served"}

\* When nothing is under way a page shows what the server has, unless others have changed it, an answer was lost, or
\* a call was answered in the page's absence while it was being read.
ListIsCurrent == mounted /\ calls = {} /\ query = NoRead /\ ~stale /\ ~behind => listed = entries

\* What the user has typed stays in its form until he leaves it or it is saved, unless he typed it while another
\* call was under way that clears the form.
DraftsAreKept == lostTexts \subseteq moved

\* What is typed once becomes one row, unless an answer was lost, or it is a webhook, whose button may be pressed twice.
OneRowForOneText ==
    \A q, r \in Entries :
        q # r /\ entries[q].text = entries[r].text => listKind = "webhooks" \/ entries[q].text \in {0} \cup unsure

\* A secret is shown until the user closes it, unless he went on to something else before it came.
SecretsAreSeen == replaced => together

ListsAreSound == ListIsCurrent /\ DraftsAreKept /\ OneRowForOneText /\ SecretsAreSeen

===============================================================================
