------------------------------- MODULE InfraConfig -------------------------------
(***************************************************************************)
(* The configuration an operator manages from the dashboard: the file the  *)
(* server saves and reads at its next boot, the containers it starts and   *)
(* removes for the services it brings along, the restart, and the page     *)
(* whose form is seeded from two answers of the server.  A service is      *)
(* named after its Docker profile.                                         *)
(***************************************************************************)
EXTENDS Naturals, FiniteSets

CONSTANTS
    Services,      \* a subset of {"postgres", "redis", "minio"}
    Switches,      \* a subset of {"queue", "engine", "extras"}
    InfraFaults,   \* a subset of {"docker", "crash", "disk"}
    MaxSaves       \* bound: configurations saved

ASSUME InfraAssumption ==
    Services \subseteq {"postgres", "redis", "minio"} /\ Switches \subseteq {"queue", "engine", "extras"}

VARIABLES
    file,        \* data/.env.generated
    running,     \* the configuration the process has booted with
    proc,        \* "up", "stopping", "down", "stuck"
    docker,      \* is Docker within reach?
    containers,  \* bundled services whose container runs
    page,        \* the page of the operator
    saves,       \* bound: saves so far
    excused      \* history: Docker failed, the process crashed, somebody else saved, a late answer of the server
                 \* replaced what was edited, or the form was seeded from a file that is not what runs

infraVars == <<file, running, proc, docker, containers, page, saves, excused>>

Off == [on |-> FALSE, builtin |-> FALSE, target |-> "none"]
Selections == [on : BOOLEAN, builtin : BOOLEAN, target : {"none", "container", "external"}]
Sections == Services \cup Switches
Settings == [queue |-> BOOLEAN, engine |-> {"wwjs", "baileys"}, extras |-> {"default", "tuned"}]
IsConfiguration(c) ==
    DOMAIN c = Sections /\ \A s \in Sections : c[s] \in IF s \in Services THEN Selections ELSE Settings[s]

\* The file of the first run.
Minimal == [s \in Sections |-> IF s \in Services THEN Off
                               ELSE [queue |-> FALSE, engine |-> "wwjs", extras |-> "default"][s]]
FormDefaults == Minimal
NewPage == [status |-> FALSE, config |-> FALSE, form |-> FormDefaults, pending |-> {}, previous |-> {},
            modal |-> FALSE, edited |-> FALSE]

InfraInit ==
    /\ \E e \in Settings.engine :
          file = [s \in Sections |-> IF s = "engine" THEN e ELSE Minimal[s]]
    /\ running = file
    /\ proc = "up" /\ docker \in BOOLEAN /\ containers = {}
    /\ page = NewPage
    /\ saves = 0 /\ excused = ~docker

-------------------------------------------------------------------------------
(* saveConfig(): the sections a payload has are merged into the file; the rest stays. *)

\* Without a host, an external server is one on this host; a bundled one is reached by its name.
Reached(s, otherwise) ==
    IF s.builtin THEN "container" ELSE IF s.target = "none" THEN otherwise ELSE s.target
DatabaseSaved(old, s) == [s EXCEPT !.target = IF s.on THEN Reached(s, "external") ELSE "none"]
RedisSaved(old, s) == [s EXCEPT !.target = IF s.on THEN Reached(s, "external") ELSE old.target]
StorageSaved(old, s) == [s EXCEPT !.target = IF s.on THEN Reached(s, old.target) ELSE "none"]

ServiceSaved(p, old, s) ==
    CASE p = "postgres" -> DatabaseSaved(old, s)
      [] p = "redis" -> RedisSaved(old, s)
      [] p = "minio" -> StorageSaved(old, s)

\* Redis and the queue are saved together: the one that a payload leaves out is switched off.
Paired == {"redis", "queue"}
Completed(payload) ==
    IF DOMAIN payload \cap Paired = {} THEN payload
    ELSE [s \in DOMAIN payload \cup (Paired \cap Sections) |-> IF s \in DOMAIN payload THEN payload[s] ELSE Minimal[s]]
Merged(old, payload) ==
    [s \in Sections |->
        IF s \notin DOMAIN Completed(payload) THEN old[s]
        ELSE IF s \in Services THEN ServiceSaved(s, old[s], Completed(payload)[s])
        ELSE Completed(payload)[s]]
MutProfilesOf(payload) ==
    {p \in DOMAIN payload \cap Services : payload[p].on /\ payload[p].builtin /\ ~running[p].builtin}
ProfilesOf(payload) == {p \in DOMAIN payload \cap Services : payload[p].on /\ payload[p].builtin}

\* Another client of the API, with a part of the sections.
ApiSaves ==
    /\ proc = "up" /\ saves < MaxSaves
    /\ \E sections \in SUBSET Sections \ {{}} :
          \E payload \in {[s \in sections |-> IF s \in Services THEN [Off EXCEPT !.on = on, !.builtin = on] ELSE file[s]] : on \in BOOLEAN} :
              file' = Merged(file, payload)
    /\ saves' = saves + 1
    /\ excused' = TRUE
    /\ UNCHANGED <<running, proc, docker, containers, page>>

-------------------------------------------------------------------------------
(* The page. *)

FormSeeded == page.status /\ page.config

\* The page is opened or loaded again.
OpensPage ==
    /\ page # NewPage
    /\ page' = NewPage
    /\ UNCHANGED <<file, running, proc, docker, containers, saves, excused>>

\* getStatus(): what runs.  A service counts as bundled if its container runs and the process uses it.
LiveBuiltin(p) == IF docker THEN p \in containers /\ running[p].target = "container" ELSE file[p].builtin
Seeded(p) ==
    [on |-> running[p].on, builtin |-> LiveBuiltin(p),
     target |-> IF p = "minio" THEN page.form[p].target
                ELSE IF running[p].target = "none" THEN "external" ELSE running[p].target]
StatusArrives ==
    /\ proc = "up"
    /\ page' = IF FormSeeded THEN page
               ELSE [page EXCEPT !.status = TRUE,
                                 !.form = [s \in Sections |-> IF s \in Services THEN Seeded(s)
                                                              ELSE IF s = "queue" THEN running[s]
                                                              ELSE page.form[s]]]
    /\ excused' = (excused \/ (page.edited /\ ~FormSeeded))
    /\ UNCHANGED <<file, running, proc, docker, containers, saves>>

\* getConfig(): what is saved, for the details the status does not have.
ConfigArrives ==
    /\ proc = "up"
    /\ page' = IF FormSeeded THEN page
               ELSE [page EXCEPT !.config = TRUE,
                                 !.form = [s \in Sections |->
                                     IF s \in Services /\ file[s].target # "none"
                                     THEN [page.form[s] EXCEPT !.target = file[s].target]
                                     ELSE IF s = "extras" THEN file[s] ELSE page.form[s]]]
    /\ excused' = (excused \/ (~FormSeeded /\ (page.edited \/ file # running)))
    /\ UNCHANGED <<file, running, proc, docker, containers, saves>>

\* The form is shown once the status is known.  Who switches to an external server says where it is.
FormShown == page.status
EditService(p) ==
    \E s \in {[page.form[p] EXCEPT !.on = FALSE], [page.form[p] EXCEPT !.on = TRUE, !.builtin = TRUE],
              [on |-> TRUE, builtin |-> FALSE, target |-> "external"]} :
        page' = [page EXCEPT !.form[p] = s, !.edited = TRUE]
Edits ==
    /\ FormShown /\ ~page.modal /\ saves < MaxSaves
    /\ \/ \E p \in Services : EditService(p)
       \/ \E s \in {"queue", "extras"} \cap Switches : \E v \in Settings[s] \ {page.form[s]} :
              page' = [page EXCEPT !.form[s] = v, !.edited = TRUE]
    /\ UNCHANGED <<file, running, proc, docker, containers, saves, excused>>

\* handleSaveConfig(): the whole form.
SavesForm ==
    /\ FormShown /\ ~page.modal /\ proc = "up" /\ saves < MaxSaves
    /\ \/ /\ file' = Merged(file, page.form)
          /\ page' = [page EXCEPT !.previous = page.pending, !.pending = ProfilesOf(page.form), !.modal = TRUE]
       \/ "disk" \in InfraFaults /\ UNCHANGED <<file, page>>
    /\ saves' = saves + 1
    /\ UNCHANGED <<running, proc, docker, containers, excused>>
RestartsLater ==
    /\ page.modal
    /\ page' = [page EXCEPT !.modal = FALSE]
    /\ UNCHANGED <<file, running, proc, docker, containers, saves, excused>>

-------------------------------------------------------------------------------
(* The restart. *)

\* requestRestart(): first the containers no longer wanted are removed, then those wanted are started.
ToRemove == page.previous \ page.pending
Failing(ps) == IF "docker" \in InfraFaults THEN SUBSET ps ELSE {{}}

\* removeService() of each, and orchestrateProfiles(): what is not removed or not started is reported, and no more.
LeftByRemoval == {containers \ (ToRemove \ kept) : kept \in Failing(ToRemove)}
Orchestrates(left) ==
    \E missed \in Failing(page.pending \ containers) :
        containers' = left \cup (page.pending \ missed) /\ excused' = (excused \/ missed # {})

RequestsRestart ==
    /\ page.modal /\ proc = "up"
    /\ proc' = "stopping"
    /\ IF docker THEN \E left \in LeftByRemoval : Orchestrates(left) ELSE UNCHANGED <<containers, excused>>
    /\ UNCHANGED <<file, running, docker, page, saves>>

Exits ==
    /\ proc = "stopping"
    /\ proc' = "down"
    /\ UNCHANGED <<file, running, docker, containers, page, saves, excused>>
Dies ==
    /\ "crash" \in InfraFaults /\ proc \in {"up", "stopping"}
    /\ proc' = "down" /\ excused' = TRUE
    /\ UNCHANGED <<file, running, docker, containers, page, saves>>

\* The connection to the data database comes before anything else of the boot; only then are the bundled services
\* started that the file names, whether they are in use or not.
Reachable == "postgres" \in Services /\ file.postgres.on /\ file.postgres.target = "container" => "postgres" \in containers
Bundled == {p \in Services : file[p].builtin}
Boots ==
    /\ proc \in {"down", "stuck"}
    /\ running' = file
    /\ IF ~Reachable
       THEN proc' = "stuck" /\ UNCHANGED <<containers, excused>>
       ELSE /\ proc' = "up"
            /\ IF docker
               THEN \E missed \in Failing(Bundled \ containers) :
                        containers' = containers \cup (Bundled \ missed) /\ excused' = (excused \/ missed # {})
               ELSE UNCHANGED <<containers, excused>>
    /\ UNCHANGED <<file, docker, page, saves>>

InfraNext ==
    \/ ApiSaves \/ OpensPage \/ StatusArrives \/ ConfigArrives \/ Edits \/ SavesForm \/ RestartsLater
    \/ RequestsRestart \/ Exits \/ Dies \/ Boots

InfraSpec == InfraInit /\ [][InfraNext]_infraVars

-------------------------------------------------------------------------------

InfraTypeOK ==
    /\ IsConfiguration(file) /\ IsConfiguration(running) /\ IsConfiguration(page.form)
    /\ proc \in {"up", "stopping", "down", "stuck"}
    /\ docker \in BOOLEAN /\ containers \subseteq Services
    /\ page.pending \subseteq Services /\ page.previous \subseteq Services
    /\ page.edited \in BOOLEAN

\* What is saved takes effect: after a restart from the page, however often the form was loaded, edited and saved
\* before, the process boots, and every bundled service it uses runs; only a failure of Docker, a crash between
\* the save and the restart, or a save by somebody else is an excuse.
BackendsAreUp ==
    /\ proc = "stuck" => excused
    /\ proc = "up" /\ ~excused => \A p \in Services : running[p].on /\ running[p].builtin => p \in containers

\* A save leaves alone what the operator has not edited, once the form has seen what is saved.
SaveKeepsUnseen ==
    [][SavesForm /\ page.config /\ ~page.edited => \A s \in {"engine", "extras"} \cap Switches : file'[s] = file[s]]_infraVars

===============================================================================
