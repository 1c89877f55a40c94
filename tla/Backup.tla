-------------------------------- MODULE Backup ---------------------------------
(***************************************************************************)
(* Backup and restore of the data database.  The export reads the tables   *)
(* one SELECT after the other, outside any transaction; the import clears  *)
(* them and inserts the rows of a file in one transaction, while the rest  *)
(* of the program keeps writing.  SQLite has one connection: what others   *)
(* write meanwhile is part of the transaction.  On Postgres they see what  *)
(* is committed, and wait for a row the transaction has touched.  A row is *)
(* its table and the session it is about; one per table and session.       *)
(***************************************************************************)
EXTENDS DataTables, Naturals, Sequences, FiniteSets, Subsequences

CONSTANTS
    BackupTables,    \* the tables that hold rows
    Owners,          \* the sessions the rows are about
    Databases,       \* a subset of {"sqlite", "postgres"}
    BackupFaults,    \* a subset of {"db", "crash"}
    MaxClientWrites  \* bound: rows that clients save or remove

ASSUME BackupAssumption ==
    /\ "sessions" \in BackupTables /\ BackupTables \subseteq Tables
    /\ Databases \subseteq {"sqlite", "postgres"}

VARIABLES
    database,  \* the type of the data database
    db,        \* the committed rows
    cleared,   \* rows the open transaction has deleted
    inserted,  \* rows it has inserted
    export,    \* tables still to read, and the rows read so far
    dump,      \* the rows of the finished export
    restore,   \* stage of the import, tables to clear, rows to insert, what failed and what was restored
    start,     \* history: the committed rows when the import began
    saved, erased, \* history: rows that clients saved, and removed, since then
    writes     \* bound: writes of clients so far

backupVars == <<database, db, cleared, inserted, export, dump, restore, start, saved, erased, writes>>
history == <<start, saved, erased>>

Rows == BackupTables \X Owners
SessionRow(r) == <<"sessions", r[2]>>
Owned(r) == r[1] \in OwnedTables
WithCascade(rows) == rows \cup {r \in Rows : Owned(r) /\ SessionRow(r) \in rows}

\* The export reads the tables in this order, those it finds.
AllTables == <<"sessions", "webhooks", "messages", "message_batches", "templates", "baileys_stored_messages",
               "lid_mappings", "plugin_instances", "conversation_mappings", "ingress_events",
               "webhook_delivery_failures", "integration_delivery_failures">>
ReadOrder == Picked(AllTables, {i \in DOMAIN AllTables : AllTables[i] \in BackupTables})
ClearOrder == Append(Tail(ReadOrder), "sessions")

InTransaction == restore.stage \in {"clearing", "inserting"}
\* What the open transaction sees, and what everybody else sees.
Working == (db \ cleared) \cup inserted
Visible == IF database = "sqlite" THEN Working ELSE db

NoExport == [todo |-> << >>, rows |-> {}]
NoRestore == [stage |-> "idle", todo |-> << >>, rows |-> {}, source |-> {}, warned |-> FALSE, count |-> 0]

BackupInit ==
    /\ database \in Databases
    /\ db \in {rows \in SUBSET Rows : \A r \in rows : Owned(r) => SessionRow(r) \in rows}
    /\ cleared = {} /\ inserted = {}
    /\ export = NoExport /\ dump = {} /\ restore = NoRestore
    /\ start = {} /\ saved = {} /\ erased = {}
    /\ writes = 0

Deletes(rows) == cleared' = cleared \cup (rows \cap db) /\ inserted' = inserted \ rows

-------------------------------------------------------------------------------
(* The rest of the program. *)

\* On Postgres a statement waits for a row that the transaction has changed, or whose key it holds.
Locked(rows) == database = "postgres" /\ rows \cap (cleared \cup inserted) # {}
Referenced(rows) == \E r \in inserted : Owned(r) /\ SessionRow(r) \in rows

ClientSaves(r) ==
    /\ writes < MaxClientWrites
    /\ r \notin Visible /\ (Owned(r) => SessionRow(r) \in Visible)
    /\ ~Locked({r} \cup (IF Owned(r) THEN {SessionRow(r)} ELSE {}))
    /\ IF database = "sqlite" /\ InTransaction
       THEN inserted' = inserted \cup {r} /\ UNCHANGED <<db, cleared>>
       ELSE db' = db \cup {r} /\ UNCHANGED <<cleared, inserted>>
    /\ saved' = saved \cup {r} /\ erased' = erased \ {r}
    /\ writes' = writes + 1
    /\ UNCHANGED <<database, export, dump, restore, start>>

\* A session takes the rows of the tables that belong to it along.
ClientRemoves(r) ==
    /\ writes < MaxClientWrites
    /\ r \in Visible
    /\ ~Locked(WithCascade({r})) /\ (database = "postgres" => ~Referenced({r}))
    /\ IF database = "sqlite" /\ InTransaction
       THEN Deletes(WithCascade({r})) /\ UNCHANGED db
       ELSE db' = db \ WithCascade({r}) /\ UNCHANGED <<cleared, inserted>>
    /\ erased' = erased \cup WithCascade({r}) /\ saved' = saved \ WithCascade({r})
    /\ writes' = writes + 1
    /\ UNCHANGED <<database, export, dump, restore, start>>

-------------------------------------------------------------------------------
(* The export. *)

ExportBegins ==
    /\ export = NoExport /\ dump = {}
    /\ export' = [NoExport EXCEPT !.todo = ReadOrder]
    /\ UNCHANGED <<database, db, cleared, inserted, dump, restore, writes, history>>

\* Whatever makes the read of a table fail counts as the table not being there, but for the first two.
ExportReads ==
    /\ export.todo # << >>
    /\ LET t == Head(export.todo)
           Reads(rows) == export' = [todo |-> Tail(export.todo), rows |-> export.rows \cup rows] /\ UNCHANGED dump
       IN  \/ Reads({r \in Visible : r[1] = t})
           \/ "db" \in BackupFaults /\ t \notin {"sessions", "webhooks"} /\ Reads({})
           \/ "db" \in BackupFaults /\ t \in {"sessions", "webhooks"} /\ export' = NoExport /\ UNCHANGED dump
    /\ UNCHANGED <<database, db, cleared, inserted, restore, writes, history>>
ExportEnds ==
    /\ export.todo = << >> /\ export.rows # {}
    /\ dump' = export.rows /\ export' = NoExport
    /\ UNCHANGED <<database, db, cleared, inserted, restore, writes, history>>

-------------------------------------------------------------------------------
(* The import. *)

\* The file of the last export, or one without a row.
ImportBegins ==
    /\ restore.stage = "idle"
    /\ \E rows \in {dump, {}} :
          restore' = [NoRestore EXCEPT !.stage = "clearing", !.todo = ClearOrder, !.rows = rows, !.source = rows]
    /\ start' = db /\ saved' = {} /\ erased' = {}
    /\ UNCHANGED <<database, db, cleared, inserted, export, dump, writes>>

RollBack(stage) ==
    /\ cleared' = {} /\ inserted' = {}
    /\ restore' = [restore EXCEPT !.stage = stage]
    /\ UNCHANGED db

ImportClears ==
    /\ restore.stage = "clearing"
    /\ \/ /\ Deletes(WithCascade({r \in Working : r[1] = Head(restore.todo)}))
          /\ restore' = [restore EXCEPT !.todo = Tail(@), !.stage = IF Len(restore.todo) = 1 THEN "inserting" ELSE @]
          /\ UNCHANGED db
       \/ "db" \in BackupFaults /\ RollBack("failed")
    /\ UNCHANGED <<database, export, dump, writes, history>>

\* Sessions first, then the tables in the order of the file.  A row that cannot be inserted is a warning; on
\* Postgres the transaction then refuses every later statement.
NextRows == {r \in restore.rows : \A q \in restore.rows : \E i, j \in DOMAIN ReadOrder :
                                      ReadOrder[i] = r[1] /\ ReadOrder[j] = q[1] /\ i <= j}
Insertable(r) ==
    /\ r \notin Working
    /\ Owned(r) => SessionRow(r) \in Working
    /\ ~(database = "postgres" /\ restore.warned)
ImportInserts ==
    /\ restore.stage = "inserting"
    /\ \E r \in NextRows :
          \/ /\ Insertable(r)
             /\ inserted' = inserted \cup {r}
             /\ restore' = [restore EXCEPT !.rows = @ \ {r}, !.count = @ + 1]
          \/ /\ ~Insertable(r) \/ "db" \in BackupFaults
             /\ restore' = [restore EXCEPT !.rows = @ \ {r}, !.warned = TRUE]
             /\ UNCHANGED inserted
    /\ UNCHANGED <<database, db, cleared, export, dump, writes, history>>

\* All or nothing: a warning, or a file that restored nothing, takes everything back.
Refused == restore.warned \/ restore.count = 0
ImportEnds ==
    /\ restore.stage = "inserting" /\ restore.rows = {}
    /\ IF Refused
       THEN RollBack("refused")
       ELSE /\ db' = Working /\ cleared' = {} /\ inserted' = {}
            /\ restore' = [restore EXCEPT !.stage = "imported"]
    /\ UNCHANGED <<database, export, dump, writes, history>>

Crashes ==
    /\ "crash" \in BackupFaults
    /\ InTransaction \/ export.todo # << >>
    /\ export' = NoExport
    /\ IF InTransaction THEN RollBack("failed") ELSE UNCHANGED <<db, cleared, inserted, restore>>
    /\ UNCHANGED <<database, dump, writes, history>>

-------------------------------------------------------------------------------

BackupNext ==
    \/ \E r \in Rows : ClientSaves(r) \/ ClientRemoves(r)
    \/ ExportBegins \/ ExportReads \/ ExportEnds
    \/ ImportBegins \/ ImportClears \/ ImportInserts \/ ImportEnds
    \/ Crashes

BackupSpec == BackupInit /\ [][BackupNext]_backupVars

BackupTypeOK ==
    /\ database \in Databases
    /\ db \subseteq Rows /\ cleared \subseteq Rows /\ inserted \subseteq Rows
    /\ restore.stage \in {"idle", "clearing", "inserting", "imported", "refused", "failed"}
    /\ ~InTransaction => cleared = {} /\ inserted = {}
    /\ \A r \in db : Owned(r) => SessionRow(r) \in db

\* A restore replaces everything or nothing, whatever fails, restarts or is written meanwhile: the rows are
\* those of the file, or those of before, and only clients account for a difference.
RestoreIsAllOrNothing ==
    LET Replaced(rows) == rows \ erased \subseteq db /\ db \subseteq rows \cup saved
    IN  /\ restore.stage = "imported" => Replaced(restore.source)
        /\ restore.stage \in {"refused", "failed"} => Replaced(start)

===============================================================================
