---------------------------- MODULE PluginSettings ----------------------------
(***************************************************************************)
(* The settings of a plugin, from the form to the store: the page of the   *)
(* plugins (dashboard/src/pages/Plugins.tsx), and how the server masks     *)
(* secrets when it shows a config and puts them back when it is saved      *)
(* (src/modules/plugins/redact-config.ts).                                 *)
(*                                                                         *)
(* A config has a secret, `key`; a text, `note`; and `rows`, each a name   *)
(* with a secret of its own.  There is one for all sessions, the base, and *)
(* an override of it for one session, of which a key may be absent.        *)
(***************************************************************************)
EXTENDS Integers, Sequences, FiniteSets

CONSTANTS
    Names,          \* of rows
    StoredRows,     \* the rows the base may start with
    MaxMoves,       \* bound: edits, saves and changes others make, together, of which the last is a save
    SaveFaults      \* may a save fail?

ASSUME FormAssumption ==
    /\ "" \notin Names /\ "a" \in Names
    /\ StoredRows \subseteq Seq([name : Names, pass : {"", "s1", "s2"}])
    /\ MaxMoves \in Nat /\ SaveFaults \in BOOLEAN

VARIABLES
    base, override, \* what the server has
    view,           \* what the page shows of it
    viewRead,          \* the read under way
    configForms,    \* schemaConfig and overrideCfg: the form of the base, and of the override
    configSaves,    \* the saves under way
    moves,
    meant           \* history: has every save stored what its form said?

settingsVars == <<base, override, view, viewRead, configForms, configSaves, moves, meant>>

ConfigScopes == {"base", "override"}
Missing == "absent"
NoRows == [there |-> FALSE, list |-> <<>>]
NoConfig == [key |-> Missing, note |-> Missing, rows |-> NoRows]

-----------------------------------------------------------------------------
(* Masking                                                                  *)

IsMeaningful(secret) == secret \notin {Missing, ""}
Masked(secret) == IF IsMeaningful(secret) THEN "***" ELSE secret

\* redactValue() of a row, which is also its elementSignature().
Signature(row) == [row EXCEPT !.pass = Masked(row.pass)]

RedactSecretConfig(config) ==
    [key  |-> Masked(config.key),
     note |-> config.note,
     rows |-> [there |-> config.rows.there,
               list  |-> [i \in DOMAIN config.rows.list |-> Signature(config.rows.list[i])]]]

\* restoreValue() of a secret: the mask, or nothing, is what was there.
RestoredSecret(incoming, existing) ==
    IF incoming \notin {"***", ""} THEN incoming ELSE IF IsMeaningful(existing) THEN existing ELSE Missing

\* The secret of the stored row a row is taken for: the only one that looks the same, or else the one in its place
\* when there are as many rows as before or when it looks the same.
Counterpart(incoming, existing, i) ==
    LET alike == {j \in DOMAIN existing : Signature(existing[j]) = Signature(incoming[i])} IN
    IF Cardinality(alike) = 1 THEN existing[CHOOSE j \in alike : TRUE].pass
    ELSE IF i \in DOMAIN existing /\ (Len(incoming) = Len(existing) \/ i \in alike) THEN existing[i].pass
    ELSE Missing

RestoreSecretConfig(incoming, existing) ==
    [key  |-> RestoredSecret(incoming.key, existing.key),
     note |-> incoming.note,
     rows |-> [there |-> incoming.rows.there,
               list  |-> LET rows == incoming.rows.list IN
                         [i \in DOMAIN rows |->
                             [name |-> rows[i].name,
                              pass |-> RestoredSecret(rows[i].pass, Counterpart(rows, existing.rows.list, i))]]]]

\* Of two configs the second where it has the key: updatePluginConfig() merges so, and resolvePluginConfig().
Over(config, other) ==
    [key  |-> IF other.key = Missing THEN config.key ELSE other.key,
     note |-> IF other.note = Missing THEN config.note ELSE other.note,
     rows |-> IF other.rows.there THEN other.rows ELSE config.rows]

-----------------------------------------------------------------------------
(* The forms                                                                *)

ShownConfig == [base |-> RedactSecretConfig(base), override |-> RedactSecretConfig(override)]

\* emptyForField() for what there is none of.
Empty == [key |-> "", note |-> "", rows |-> [there |-> TRUE, list |-> <<>>]]

ClosedForm == [open |-> FALSE, editor |-> "form", says |-> NoConfig,
           seen |-> [base |-> NoConfig, override |-> NoConfig],
           touched |-> {}, from |-> <<>>]

\* handleOpenConfig() and the effect of selSession seed a form with what is shown and fill it up; the editor of the
\* plugin itself, in its frame, is told what there is by config:get.
SeededForm(scope, editor) ==
    LET slice == IF scope = "base" THEN view.base ELSE Over(view.base, view.override) IN
    [open |-> TRUE, editor |-> editor, says |-> IF editor = "form" THEN Over(Empty, slice) ELSE slice,
     seen |-> view, touched |-> {}, from |-> [i \in DOMAIN slice.rows.list |-> i]]

\* sparseSessionOverride(): what differs from the base the page shows by now, and every secret at the top.
SparseSessionOverride(full) ==
    [key  |-> full.key,
     note |-> IF full.note = view.base.note \/ (view.base.note = Missing /\ full.note = "") THEN Missing ELSE full.note,
     rows |-> IF full.rows = view.base.rows \/ (~view.base.rows.there /\ full.rows.list = <<>>) THEN NoRows ELSE full.rows]

SettingsInit ==
    /\ \E rows \in StoredRows, key \in {Missing, "s0"} :
          base = [key |-> key, note |-> "n1", rows |-> [there |-> TRUE, list |-> rows]]
    /\ override \in {NoConfig, [key |-> "s4", note |-> "n2",
                                rows |-> [there |-> TRUE, list |-> <<[name |-> "a", pass |-> "s5"]>>]]}
    /\ view = ShownConfig /\ viewRead = <<>>
    /\ configForms = [scope \in ConfigScopes |-> ClosedForm]
    /\ configSaves = {} /\ moves = 0
    /\ meant = TRUE

ServerRests == UNCHANGED <<base, override, meant>>
SaveMove == moves < MaxMoves /\ moves' = moves + 1
EditMove == moves + 1 < MaxMoves /\ moves' = moves + 1

\* The modal opens on the base; the tab of the sessions is in it, and forgets its form when it is left.
OpensConfig(scope, editor) ==
    /\ ~configForms[scope].open /\ moves < MaxMoves
    /\ scope = "override" => configForms["base"].open
    /\ configForms' = [configForms EXCEPT ![scope] = SeededForm(scope, editor)]
    /\ ServerRests /\ UNCHANGED <<view, viewRead, configSaves, moves>>
Closes(scope) ==
    /\ configForms[scope].open
    /\ configForms' = [s \in ConfigScopes |-> IF scope \in {"base", s} THEN ClosedForm ELSE configForms[s]]
    /\ ServerRests /\ UNCHANGED <<view, viewRead, configSaves, moves>>

InFront(scope) == configForms[scope].open /\ (scope = "base" => ~configForms["override"].open)

\* ConfigField: a text or a secret is typed, or cleared; a row is changed, removed or added, at the end.
EditsField(scope) ==
    LET f == configForms[scope]
        list == f.says.rows.list
        Says(field, config, from) ==
            configForms' = [configForms EXCEPT ![scope] =
                               [f EXCEPT !.says = config, !.touched = @ \cup {field}, !.from = from]]
        Rows(rows, from) == Says("rows", [f.says EXCEPT !.rows = [there |-> TRUE, list |-> rows]], from)
        Without(seq, i) == SubSeq(seq, 1, i - 1) \o SubSeq(seq, i + 1, Len(seq))
    IN /\ InFront(scope) /\ EditMove
       /\ \/ \E key \in {"t", ""} : Says("key", [f.says EXCEPT !.key = key], f.from)
          \/ \E note \in {"n2", ""} : Says("note", [f.says EXCEPT !.note = note], f.from)
          \/ \E i \in DOMAIN list :
                \/ \E name \in Names \ {list[i].name} : Rows([list EXCEPT ![i] = [name |-> name, pass |-> list[i].pass]], f.from)
                \/ \E pass \in {"t", ""} : Rows([list EXCEPT ![i] = [name |-> list[i].name, pass |-> pass]], f.from)
                \/ Rows(Without(list, i), Without(f.from, i))
          \/ Rows(Append(list, [name |-> "", pass |-> ""]), Append(f.from, 0))
       /\ ServerRests /\ UNCHANGED <<view, viewRead, configSaves>>

-----------------------------------------------------------------------------
(* Saving                                                                   *)

\* handleSaveSchemaConfig(), saveOverride() and clearOverride() wait for the save before; config:save does not.
Sends(scope, config, clears) ==
    LET form == configForms[scope] IN
    /\ InFront(scope) /\ SaveMove
    /\ form.editor = "form" => ~\E s \in configSaves : s.scope = scope /\ s.form.editor = "form"
    /\ configSaves' = configSaves \cup {[number |-> moves, scope |-> scope, config |-> config, clears |-> clears,
                                         form |-> form, against |-> view, at |-> "sent", answer |-> "none"]}
    /\ ServerRests /\ UNCHANGED <<view, viewRead, configForms>>

SavesConfig(scope) ==
    Sends(scope, IF scope = "base" THEN configForms[scope].says ELSE SparseSessionOverride(configForms[scope].says), FALSE)
ClearOverride == configForms["override"].editor = "form" /\ Sends("override", NoConfig, TRUE)

\* Each row the user has left masked has its own secret still, whatever he did to the others: as long as the names are
\* different, and rows were either renamed or added and removed, to names that were not there.
Calm(list, from, existing) ==
    LET names == {existing[j].name : j \in DOMAIN existing}
        renamed == {i \in DOMAIN list : from[i] # 0 /\ list[i].name # existing[from[i]].name}
    IN /\ Cardinality(names) = Len(existing)
       /\ \A i \in DOMAIN list : i \in renamed \/ from[i] = 0 => list[i].name \notin names
       /\ renamed = {} \/ (Len(list) = Len(existing) /\ \A i \in DOMAIN list : from[i] = i)

RowsAsMeant(form, existing, stored) ==
    LET list == form.says.rows.list
        Own(i) == existing[form.from[i]].pass
    IN /\ [i \in DOMAIN stored |-> stored[i].name] = [i \in DOMAIN list |-> list[i].name]
       /\ Calm(list, form.from, existing) =>
             \A i \in DOMAIN list :
                /\ list[i].pass = "t" => stored[i].pass = "t"
                /\ list[i].pass = "***" => stored[i].pass = Own(i)
                /\ list[i].pass = "" /\ Len(list) # Len(existing) =>
                      stored[i].pass \in {"", Missing} \cup (IF form.from[i] = 0 THEN {} ELSE {Own(i)})

Looks(config) ==
    [i \in DOMAIN config.rows.list |-> <<config.rows.list[i].name, IsMeaningful(config.rows.list[i].pass)>>]

\* What a save was meant to do, if nothing had changed since the form was filled: what was typed is there, a secret
\* that was not is as it was, and a key of the override that was not touched is inherited if it was.
AsMeant(s, before, after) ==
    LET f == s.form
        resolved == IF s.scope = "base" THEN after ELSE Over(base, after)
        Same(v, w) == v = w \/ {v, w} \subseteq {"", Missing}
    IN /\ after.key = IF f.says.key = "t" THEN "t" ELSE before.key
       /\ Same(resolved.note, f.says.note)
       /\ "note" \notin f.touched => Same(after.note, before.note) \/ (after.note = Missing /\ before.note = base.note)
       /\ "rows" \notin f.touched =>
             \/ ~after.rows.there /\ (before.rows.there => Looks(before) = Looks(base))
             \/ Looks(after) = Looks(before)
       /\ before.rows.there /\ after.rows.there => RowsAsMeant(f, before.rows.list, after.rows.list)

\* What is left of a save to wait for.
Settled(s, answer) ==
    [s EXCEPT !.at = "served", !.answer = answer, !.config = NoConfig, !.against = ClosedForm.seen,
              !.form = [ClosedForm EXCEPT !.editor = s.form.editor]]

ServesSave(s) ==
    /\ s.at = "sent"
    /\ \/ LET before == IF s.scope = "base" THEN base ELSE override
              restored == RestoreSecretConfig(s.config, before)
              after == IF s.scope = "base" THEN Over(base, restored) ELSE restored
          IN /\ base' = IF s.scope = "base" THEN after ELSE base
             /\ override' = IF s.scope = "override" THEN after ELSE override
             /\ meant' = (meant /\ IF s.clears THEN after = NoConfig
                                   ELSE s.form.seen = ShownConfig /\ s.against = ShownConfig => AsMeant(s, before, after))
             /\ configSaves' = (configSaves \ {s}) \cup {Settled(s, "ok")}
       \/ /\ SaveFaults
          /\ configSaves' = (configSaves \ {s}) \cup {Settled(s, "failed")}
          /\ UNCHANGED <<base, override, meant>>
    /\ UNCHANGED <<view, viewRead, configForms, moves>>

\* invalidateQueries() reads anew; the modal of the base closes, whatever it shows by now.  After a failure it stays.
SaveAnswered(s) ==
    /\ s.at = "served" /\ configSaves' = configSaves \ {s}
    /\ IF s.answer = "ok"
       THEN /\ viewRead' = <<ShownConfig>>
            /\ configForms' = IF s.scope = "base" /\ s.form.editor = "form"
                               THEN [scope \in ConfigScopes |-> ClosedForm] ELSE configForms
       ELSE UNCHANGED <<viewRead, configForms>>
    /\ ServerRests /\ UNCHANGED <<view, moves>>

\* The page reads anew when its window is looked at, and shows what it has read; the forms stay as they are.
RefetchesView ==
    /\ viewRead = <<>> /\ view # ShownConfig
    /\ viewRead' = <<ShownConfig>>
    /\ ServerRests /\ UNCHANGED <<view, configForms, configSaves, moves>>
ViewArrives ==
    /\ viewRead # <<>>
    /\ view' = viewRead[1] /\ viewRead' = <<>>
    /\ ServerRests /\ UNCHANGED <<configForms, configSaves, moves>>

\* Another user changes the base.
OthersSave ==
    /\ EditMove
    /\ \/ base' = [base EXCEPT !.note = "n3"]
       \/ base' = [base EXCEPT !.key = "s3"]
       \/ base' = [base EXCEPT !.rows = [there |-> TRUE, list |-> SubSeq(@.list, 2, Len(@.list))]]
    /\ UNCHANGED <<override, view, viewRead, configForms, configSaves, meant>>

SettingsNext ==
    \/ \E scope \in ConfigScopes :
          \/ \E editor \in {"form", "frame"} : OpensConfig(scope, editor)
          \/ Closes(scope) \/ EditsField(scope) \/ SavesConfig(scope)
    \/ ClearOverride \/ RefetchesView \/ ViewArrives \/ OthersSave
    \/ \E s \in configSaves : ServesSave(s) \/ SaveAnswered(s)

SettingsSpec == SettingsInit /\ [][SettingsNext]_settingsVars

-----------------------------------------------------------------------------

Configs == {base, override}

SettingsTypeOK ==
    /\ \A c \in Configs : c.key \in {Missing, "", "s0", "s3", "s4", "t"} /\ c.note \in {Missing, "", "n1", "n2", "n3"}
    /\ \A s \in configSaves : s.scope \in ConfigScopes /\ s.at \in {"sent", "served"}
    /\ moves \in 0 .. MaxMoves

\* The mask is never stored in place of a secret.
NoMaskIsStored ==
    \A c \in Configs : c.key # "***" /\ \A i \in DOMAIN c.rows.list : c.rows.list[i].pass # "***"

\* A save stores what the form it was sent from said, unless something had changed since.
SettingsAreKept == NoMaskIsStored /\ meant

===============================================================================
