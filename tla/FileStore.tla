------------------------------- MODULE FileStore -------------------------------
(***************************************************************************)
(* The files of the deployment: src/common/storage/storage.service.ts and  *)
(* the storage endpoints of src/modules/infra/infra.controller.ts.         *)
(*                                                                         *)
(* Every operation asks anew which of the two stores to use: the bucket,   *)
(* when it is configured and was once seen, else the disk.  The answer can *)
(* change in the middle of an export or an import.  Moving from one store  *)
(* to the other is an export, a restart with the new configuration and an  *)
(* import.                                                                 *)
(***************************************************************************)
EXTENDS Integers, FiniteSets

CONSTANTS
    Files,
    MaxFileBoots, \* bound: restarts
    MaxJobs,      \* bound: exports and imports
    FileFaults    \* which of "read", "write" (of one file), "corrupt" (the archive) may happen

ASSUME FileAssumption == {MaxFileBoots, MaxJobs} \subseteq Nat /\ FileFaults \subseteq {"read", "write", "corrupt"}

VARIABLES
    storeType,       \* storage.type: "local" or "s3"
    reachable,  \* the bucket's server answers
    bucket,     \* does the bucket exist?
    available,  \* s3Available
    probe,      \* what initializeS3Bucket() or refreshS3Availability() awaits
    held,       \* per store: its files
    fileJob,        \* the export or import under way
    archive,    \* the last archive under data/exports, with what was to go into it
    swept,      \* is its removal scheduled in this process?
    serving,         \* the process runs
    fileBoots,
    jobs

fileVars == <<storeType, reachable, bucket, available, probe, held, fileJob, archive, swept, serving, fileBoots, jobs>>

Stores == {"local", "s3"}
NoArchive == [there |-> FALSE, files |-> {}, meant |-> {}, whole |-> TRUE]
NoFileJob == [op |-> "none", todo |-> {}, got |-> {}, meant |-> {}, store |-> "local", steady |-> TRUE, spoilt |-> FALSE]

FileInit ==
    /\ storeType \in Stores
    /\ reachable \in BOOLEAN
    /\ bucket \in BOOLEAN
    /\ available = FALSE
    /\ probe = IF storeType = "s3" THEN "init" ELSE "none"
    /\ held \in {[local |-> a, s3 |-> b] : a \in SUBSET Files, b \in IF bucket THEN SUBSET Files ELSE {{}}}
    /\ fileJob = NoFileJob
    /\ archive = NoArchive
    /\ swept = FALSE
    /\ serving = TRUE
    /\ fileBoots = 0
    /\ jobs = 0

\* Where listFiles(), getFile() and putFile() go.
Backend == IF storeType = "s3" /\ available THEN "s3" ELSE "local"

-----------------------------------------------------------------------------
(* Is the bucket there?                                                     *)

\* The server of the bucket comes up; a bundled one may do so after the program.
ServerUp ==
    /\ ~reachable /\ reachable' = TRUE
    /\ UNCHANGED <<storeType, bucket, available, probe, held, fileJob, archive, swept, serving, fileBoots, jobs>>

\* A job that is under way notices that the store has changed.
Noticed == fileJob' = [fileJob EXCEPT !.steady = @ /\ (fileJob.op = "none" \/ fileJob.store = Backend')]

\* HeadBucket at boot; a bucket that does not exist is created, if its server lets it.
InitAnswered ==
    /\ serving /\ probe = "init" /\ probe' = "none"
    /\ \E created \in IF reachable THEN BOOLEAN ELSE {FALSE} : bucket' = (bucket \/ created)
    /\ available' = (reachable /\ bucket')
    /\ UNCHANGED <<storeType, reachable, held, archive, swept, serving, fileBoots, jobs>>
    /\ Noticed

\* The page of the infrastructure asks: one question at a time, only while the bucket was not seen.
Refresh ==
    /\ serving /\ storeType = "s3" /\ ~available /\ probe = "none"
    /\ probe' = "refresh"
    /\ UNCHANGED <<storeType, reachable, bucket, available, held, fileJob, archive, swept, serving, fileBoots, jobs>>

\* HeadBucket again; this time nothing is created.
RefreshAnswered ==
    /\ serving /\ probe = "refresh" /\ probe' = "none"
    /\ available' = (reachable /\ bucket)
    /\ UNCHANGED <<storeType, reachable, bucket, held, archive, swept, serving, fileBoots, jobs>>
    /\ Noticed

-----------------------------------------------------------------------------
(* createExportStream() and exportStorage()                                 *)

Starts(record) == serving /\ fileJob.op = "none" /\ jobs < MaxJobs /\ jobs' = jobs + 1 /\ fileJob' = record

Export ==
    /\ Starts([NoFileJob EXCEPT !.op = "export", !.todo = held[Backend], !.meant = held[Backend], !.store = Backend])
    /\ UNCHANGED <<storeType, reachable, bucket, available, probe, held, archive, swept, serving, fileBoots>>

\* One file is read, from the store of this moment, and appended; one that cannot be read is skipped.
ExportFile ==
    /\ serving /\ fileJob.op = "export"
    /\ \E f \in fileJob.todo :
          \/ fileJob' = [fileJob EXCEPT !.todo = @ \ {f}, !.got = IF f \in held[Backend] THEN @ \cup {f} ELSE @]
          \/ "read" \in FileFaults /\ fileJob' = [fileJob EXCEPT !.todo = @ \ {f}, !.spoilt = TRUE]
    /\ UNCHANGED <<storeType, reachable, bucket, available, probe, held, archive, swept, serving, fileBoots, jobs>>

\* The archive is complete, and goes away after its time unless the process ends before.
Exported ==
    /\ serving /\ fileJob.op = "export" /\ fileJob.todo = {}
    /\ archive' = [there |-> TRUE, files |-> fileJob.got, meant |-> fileJob.meant, whole |-> fileJob.steady /\ ~fileJob.spoilt]
    /\ swept' = TRUE
    /\ fileJob' = NoFileJob
    /\ UNCHANGED <<storeType, reachable, bucket, available, probe, held, serving, fileBoots, jobs>>

Sweep ==
    /\ serving /\ swept /\ swept' = FALSE
    /\ archive' = NoArchive
    /\ UNCHANGED <<storeType, reachable, bucket, available, probe, held, fileJob, serving, fileBoots, jobs>>

-----------------------------------------------------------------------------
(* importStorage() and importFromStream()                                   *)

Import ==
    /\ archive.there
    /\ Starts([NoFileJob EXCEPT !.op = "import", !.todo = archive.files, !.meant = archive.files, !.store = Backend])
    /\ UNCHANGED <<storeType, reachable, bucket, available, probe, held, archive, swept, serving, fileBoots>>

\* One entry goes to the store of this moment; one that cannot be written is logged, and the next is taken.
ImportEntry ==
    /\ serving /\ fileJob.op = "import"
    /\ \E f \in fileJob.todo :
          \/ /\ held' = [held EXCEPT ![Backend] = @ \cup {f}]
             /\ fileJob' = [fileJob EXCEPT !.todo = @ \ {f}, !.got = @ \cup {f}]
          \/ /\ "write" \in FileFaults
             /\ fileJob' = [fileJob EXCEPT !.todo = @ \ {f}, !.spoilt = TRUE]
             /\ UNCHANGED held
    /\ UNCHANGED <<storeType, reachable, bucket, available, probe, archive, swept, serving, fileBoots, jobs>>

\* An archive that is cut off or over a limit: what was written stays.
ImportAborted ==
    /\ serving /\ fileJob.op = "import" /\ fileJob.todo # {} /\ "corrupt" \in FileFaults
    /\ fileJob' = NoFileJob
    /\ UNCHANGED <<storeType, reachable, bucket, available, probe, held, archive, swept, serving, fileBoots, jobs>>

\* { imported: true, count, storageType }
Imported ==
    /\ serving /\ fileJob.op = "import" /\ fileJob.todo = {}
    /\ fileJob' = [fileJob EXCEPT !.op = "imported"]
    /\ UNCHANGED <<storeType, reachable, bucket, available, probe, held, archive, swept, serving, fileBoots, jobs>>

\* The answer is read; only then does the model go on.
AnswerRead ==
    /\ fileJob.op = "imported" /\ fileJob' = NoFileJob
    /\ UNCHANGED <<storeType, reachable, bucket, available, probe, held, archive, swept, serving, fileBoots, jobs>>

-----------------------------------------------------------------------------

\* The process ends: the job and the timer are gone, the archive is not.
FilesDown ==
    /\ serving /\ serving' = FALSE
    /\ fileJob' = NoFileJob /\ swept' = FALSE
    /\ probe' = "none" /\ available' = FALSE
    /\ UNCHANGED <<storeType, reachable, bucket, held, archive, fileBoots, jobs>>

\* It starts with the store that is configured now.
FilesUp ==
    /\ ~serving /\ serving' = TRUE
    /\ fileBoots < MaxFileBoots /\ fileBoots' = fileBoots + 1
    /\ storeType' \in Stores
    /\ probe' = IF storeType' = "s3" THEN "init" ELSE "none"
    /\ UNCHANGED <<reachable, bucket, available, held, fileJob, archive, swept, jobs>>

ProbeAnswered == InitAnswered \/ RefreshAnswered
JobStep == ExportFile \/ Exported \/ ImportEntry \/ Imported \/ AnswerRead

FileNext ==
    \/ ProbeAnswered \/ JobStep \/ ServerUp \/ Refresh \/ Export \/ Import \/ ImportAborted \/ Sweep \/ FilesDown \/ FilesUp

\* Requests to the bucket and to the disk are answered.
FileFairness == WF_fileVars(ProbeAnswered) /\ WF_fileVars(JobStep)

FileSpec == FileInit /\ [][FileNext]_fileVars /\ FileFairness

-----------------------------------------------------------------------------

FileTypeOK ==
    /\ storeType \in Stores /\ probe \in {"none", "init", "refresh"}
    /\ \A s \in Stores : held[s] \subseteq Files
    /\ fileJob.op \in {"none", "export", "import", "imported"} /\ fileJob.todo \subseteq Files
    /\ archive.files \subseteq archive.meant

\* The bucket is used only while it exists, and holds nothing otherwise: no file goes where nobody finds it.
BucketIsReal == (available => storeType = "s3" /\ bucket) /\ (held["s3"] # {} => bucket)

\* An export whose reads all worked and whose store stayed the same holds every file there was.
ExportIsComplete == archive.there /\ archive.whole => archive.files = archive.meant

\* The files of an import that was answered, whose writes all worked and whose store stayed the same, are in
\* the store that is asked for them: after a move to another store, all files of the export.
ImportIsThere ==
    fileJob.op = "imported" /\ fileJob.steady /\ ~fileJob.spoilt => fileJob.meant \subseteq held[Backend] /\ fileJob.got = fileJob.meant

\* Until it is swept an archive outlives the process, and only a running process sweeps it.
ArchiveIsKept == swept => serving /\ archive.there

FilesAreKept == BucketIsReal /\ ExportIsComplete /\ ImportIsThere /\ ArchiveIsKept

\* Every export and import ends, with its process if not by itself.
JobsEnd == fileJob.op # "none" ~> fileJob.op = "none"

===============================================================================
