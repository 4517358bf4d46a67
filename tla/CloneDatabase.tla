------------------------------- MODULE CloneDatabase -------------------------------
(***********************************************************************************)
(* The database step of a clone (run_database_core in src/src/dsl.rs): dump, fetch,  *)
(* reset the local database, restore.  DumpTransfer is the first half; this module    *)
(* adds the local database and its server, the reset modes of src/src/db.rs and what   *)
(* the commands of src/src/engine.rs do to the database on each engine.               *)
(*                                                                                   *)
(* A dump is a sequence of tables; a database is what each table holds, the table of  *)
(* a run's dump being named by the run.                                               *)
(***********************************************************************************)
EXTENDS DumpTransfer

CONSTANTS
    Backups,     \* runs that only fetch (`cloner backup`)
    Projects,    \* the projects that occur
    Composed,    \* places whose database is a service of a Compose project
    Attempts,    \* pings of wait_ready before it gives up (60 in the code)
    Local,       \* the data in a local database before any clone
    Missing      \* the server has no database of that name

Engines == {"postgres", "mysql", "mongo"}

\* What dl.js and the environment say of one project.
Project == [
    reset    : {"none", "drop-create", "volume"},
    remote   : Engines,    \* the engine inferred for the server,
    local    : Engines,    \* and for the local database
    renamed  : BOOLEAN,    \* has the local database another name than the remote one?
    serviced : BOOLEAN]    \* is the local Compose service known?

ASSUME BackupsAssumption  == Backups \subseteq Runs
ASSUME ProjectsAssumption == Projects \subseteq Project
ASSUME ComposedAssumption == Composed \subseteq Places
ASSUME AttemptsAssumption == Attempts \in Nat \ {0}
ASSUME LocalAssumption    == Local \notin Runs \cup {None, Hole} /\ Missing \notin Runs

VARIABLES
    project,     \* the project at each place
    engine,      \* its database server: "down", "starting" or "ready"
    database,    \* what each table holds; Missing, or None: the volume is gone
    pings,       \* wait_ready: attempts so far
    input,       \* the inode that the restore command reads
    piped        \* tables it has read

data == <<project, engine, database, pings, input, piped>>
vars == <<transfer, data>>

Tables   == UNION {1 .. SizeOf[r] : r \in Runs}
NoTables == [t \in Tables |-> None]
Contents == [Tables -> Chunks \cup {Local, None}]

ASSUME MarksAssumption == None # Missing /\ None \notin Contents /\ Missing \notin Contents

Init ==
    /\ TransferInit
    /\ project \in [Places -> Projects]
    /\ \A l \in Places : project[l].reset = "volume" \/ ~project[l].serviced => l \in Composed
    /\ engine \in [Places -> {"down", "ready"}]
    /\ \A l \in Places \ Composed : engine[l] = "ready"
    /\ database = [l \in Places |-> [t \in Tables |-> Local]]
    /\ pings = [r \in Runs |-> 0]
    /\ input = [r \in Runs |-> None]
    /\ piped = [r \in Runs |-> 0]

Of(r)  == project[PlaceOf[r]]
Up(r)  == engine[PlaceOf[r]] = "ready"
At(r)  == database[PlaceOf[r]]

Move(r, from, to) ==
    /\ client[r] = from
    /\ ClientAt(r, to)
    /\ UNCHANGED <<server, disk, handles, older, project>>

Becomes(r, what) == database' = [database EXCEPT ![PlaceOf[r]] = what]

\* CommandTarget::wrap: inside Compose a command needs the name of the service.
Wraps(r) == PlaceOf[r] \in Composed => Of(r).serviced

\* reset_local chooses by mode; a backup ends here.
Fetch(r) ==
    /\ Move(r, "fetched",
          IF r \in Backups THEN "done"
          ELSE CASE Of(r).reset = "none" -> "load"
                 [] Of(r).reset = "volume" -> "down"
                 [] OTHER -> IF PlaceOf[r] \in Composed THEN "up" ELSE "drop")
    /\ UNCHANGED <<engine, database, pings, input, piped>>
-------------------------------------------------------------------------------------
(* reset_local and wait_ready.                                                       *)

\* Mutant: the volume is not removed before it is created.
ComposeDown_keepsVolume(r) ==
    /\ Move(r, "down", "mkvolume")
    /\ engine' = [engine EXCEPT ![PlaceOf[r]] = "down"]
    /\ UNCHANGED <<database, pings, input, piped>>

\* volume_reset: docker compose down, docker volume rm -f, docker volume create.
ComposeDown(r) ==
    /\ Move(r, "down", "rmvolume")
    /\ engine' = [engine EXCEPT ![PlaceOf[r]] = "down"]
    /\ UNCHANGED <<database, pings, input, piped>>

\* A volume that a container uses cannot be removed.
RemoveVolume(r) ==
    /\ LET down == engine[PlaceOf[r]] = "down" IN
        /\ Move(r, "rmvolume", IF down THEN "mkvolume" ELSE "failed")
        /\ Becomes(r, IF down THEN None ELSE At(r))
    /\ UNCHANGED <<engine, pings, input, piped>>

\* The image of the database creates an empty database in a new volume (external).
CreateVolume(r) ==
    /\ Move(r, "mkvolume", "up")
    /\ Becomes(r, IF At(r) = None THEN NoTables ELSE At(r))
    /\ UNCHANGED <<engine, pings, input, piped>>

\* docker compose up -d: it also creates a volume that is missing.
ComposeUp(r) ==
    /\ Move(r, "up", "wait")
    /\ engine' = [engine EXCEPT ![PlaceOf[r]] = IF Up(r) THEN "ready" ELSE "starting"]
    /\ Becomes(r, IF At(r) = None THEN NoTables ELSE At(r))
    /\ UNCHANGED <<pings, input, piped>>

AfterWait(r) == IF Of(r).reset = "volume" THEN "load" ELSE "drop"

\* Mutant: wait_ready has no bound.
WaitReady_forever(r) ==
    /\ Move(r, "wait", IF Up(r) THEN AfterWait(r) ELSE "wait")
    /\ pings' = [pings EXCEPT ![r] = (@ + 1) % Attempts]
    /\ UNCHANGED <<engine, database, input, piped>>

\* Mutant: `0..=60` instead of `1..=60`.
WaitReady_onceMore(r) ==
    /\ Move(r, "wait", IF ~Wraps(r) THEN "failed"
                       ELSE IF Up(r) THEN AfterWait(r)
                       ELSE IF pings[r] + 1 > Attempts THEN "failed" ELSE "wait")
    /\ pings' = [pings EXCEPT ![r] = @ + 1]
    /\ UNCHANGED <<engine, database, input, piped>>

\* One ping of wait_ready, which needs the service; the last one that is not answered
\* ends the run.
WaitReady(r) ==
    /\ Move(r, "wait", IF ~Wraps(r) THEN "failed"
                       ELSE IF Up(r) THEN AfterWait(r)
                       ELSE IF pings[r] + 1 = Attempts THEN "failed" ELSE "wait")
    /\ pings' = [pings EXCEPT ![r] = @ + 1]
    /\ UNCHANGED <<engine, database, input, piped>>

\* Mutant: dropdb without --if-exists.
CanDrop_mustExist(r) == Up(r) /\ At(r) # Missing

\* drop_create_command connects to the database that it drops on MySQL; dropdb has
\* --if-exists, and Mongo has nothing to create.
CanDrop(r) == Up(r) /\ (Of(r).local = "mysql" => At(r) # Missing)

Drop(r) ==
    /\ Move(r, "drop", IF ~CanDrop(r) THEN "failed"
                       ELSE IF Of(r).local = "mongo" THEN "load" ELSE "create_db")
    /\ Becomes(r, IF ~CanDrop(r) THEN At(r)
                  ELSE IF Of(r).local = "mongo" THEN NoTables ELSE Missing)
    /\ UNCHANGED <<engine, pings, input, piped>>

Create(r) ==
    /\ Move(r, "create_db", IF Up(r) THEN "load" ELSE "failed")
    /\ Becomes(r, IF Up(r) THEN NoTables ELSE At(r))
    /\ UNCHANGED <<engine, pings, input, piped>>
-------------------------------------------------------------------------------------
(* restore_local.                                                                    *)

\* The shell opens <name> for the restore command (`<`) ...
OpenInput(r) ==
    /\ Move(r, "load", IF Wraps(r) THEN "pipe" ELSE "failed")
    /\ input' = IF Wraps(r) THEN [input EXCEPT ![r] = fileLink[PlaceOf[r]]] ELSE input
    /\ UNCHANGED <<engine, database, pings, piped>>

Unread(r) == piped[r] < Len(localData[input[r]])

\* ... which reads dumps of its own engine into a database that exists, ...
CanLoad(r) == Up(r) /\ Of(r).local = Of(r).remote /\ At(r) # Missing

\* ... and on Mongo only what is of the database of that name (--nsInclude).
Selected(r) == ~(Of(r).local = "mongo" /\ Of(r).renamed)

\* Each table of the dump replaces the one that is there (-c, --add-drop-table, --drop).
LoadTable(r) ==
    /\ CanLoad(r)
    /\ Move(r, "pipe", "pipe")
    /\ Unread(r)
    /\ piped' = [piped EXCEPT ![r] = @ + 1]
    /\ Becomes(r, IF Selected(r)
                  THEN [At(r) EXCEPT ![piped'[r]] = localData[input[r]][piped'[r]]]
                  ELSE At(r))
    /\ UNCHANGED <<engine, pings, input>>

EndLoad(r) ==
    /\ Move(r, "pipe", IF CanLoad(r) THEN "done" ELSE "failed")
    /\ CanLoad(r) => ~Unread(r)
    /\ UNCHANGED <<engine, database, pings, input, piped>>
-------------------------------------------------------------------------------------
\* External: the container has finished starting.
EngineReady(l) ==
    /\ engine[l] = "starting"
    /\ engine' = [engine EXCEPT ![l] = "ready"]
    /\ UNCHANGED <<transfer, project, database, pings, input, piped>>

CloneStep(r) ==
    \/ (TransferStep(r) \/ ShellStep(r)) /\ UNCHANGED data
    \/ Fetch(r) \/ ComposeDown(r) \/ RemoveVolume(r) \/ CreateVolume(r) \/ ComposeUp(r)
    \/ WaitReady(r) \/ Drop(r) \/ Create(r) \/ OpenInput(r) \/ LoadTable(r) \/ EndLoad(r)

Next ==
    \/ \E r \in Runs : CloneStep(r) \/ ((FailDump(r) \/ StopClient(r)) /\ UNCHANGED data)
    \/ \E l \in Places : EngineReady(l)

Spec == Init /\ [][Next]_vars

\* A run is one thread that nothing holds up for good, and the dump command on the
\* server ends.  Whether a container ever gets ready is not assumed.
Fairness == \A r \in Runs : WF_vars(client[r] # "idle" /\ CloneStep(r))

FairSpec == Spec /\ Fairness
-------------------------------------------------------------------------------------
Resetting == {"down", "rmvolume", "mkvolume", "up", "wait", "drop", "create_db"}
Loading   == {"load", "pipe"}

TypeOK ==
    /\ TransferTypeOK
    /\ client \in [Runs -> {"idle", "dump", "open", "create", "copy", "fetched"}
                           \cup Resetting \cup Loading \cup Over]
    /\ project \in [Places -> Projects]
    /\ engine \in [Places -> {"down", "starting", "ready"}]
    /\ database \in [Places -> Contents \cup {Missing, None}]
    /\ \A l \in Places : engine[l] # "down" => database[l] # None
    /\ pings \in [Runs -> 0 .. Attempts]
    /\ input \in [Runs -> Runs \cup {None}]
    /\ piped \in [Runs -> Nat]
    /\ \A r \in Runs : client[r] \in {"fetched"} \cup Loading \cup Resetting =>
                            fileLink[PlaceOf[r]] # None
    /\ \A r \in Runs : client[r] = "pipe" => input[r] # None

\* A clone that reports success has every table of its own dump in the database, and
\* after a reset nothing else, whatever earlier runs left behind when they were stopped:
\* half a remote dump, half a .part, a project that is down, a volume that is gone, a
\* database dropped and not created, half a restore (dsl.rs:836).  A Mongo database of
\* another name is the exception (engine.rs:187).
ClonesItsOwnDump ==
    [][\A r \in Runs \ Backups :
        (client[r] # "done" /\ client'[r] = "done") /\ Selected(r) =>
            /\ \A t \in 1 .. SizeOf[r] : At(r)'[t] = r
            /\ Of(r).reset # "none" => \A t \in Tables \ 1 .. SizeOf[r] : At(r)'[t] = None]_vars

\* A run that nobody stops gets through, wherever earlier runs were stopped, unless its
\* own dump fails, the server does not answer its pings, or the project is one that it
\* cannot restore; the exception is MySQL, where a run that was stopped between DROP and
\* CREATE leaves what no later one repairs (db.rs:184, engine.rs:303).
Hopeless(r) ==
    \/ ~Wraps(r)
    \/ Of(r).local # Of(r).remote
    \/ At(r) = Missing /\ (Of(r).local = "mysql" \/ Of(r).reset = "none")

RecoversFromStoppedRuns ==
    [][\A r \in Runs : client[r] # "failed" /\ client'[r] = "failed" =>
        \/ shell[r] = "error"
        \/ client[r] = "wait" /\ pings'[r] = Attempts
        \/ engine[PlaceOf[r]] = "down" /\ Of(r).reset = "none"
        \/ Hopeless(r)]_vars

\* The run that is at work on the database of a place, and the dump that it has chosen:
\* Hole, if the file that it fetched is not one whole dump.
Chosen(l) ==
    LET at == {r \in Runs : PlaceOf[r] = l /\ client[r] \in Resetting \cup Loading}
        whole == {q \in Runs : localData[fileLink[l]] = Whole(q)}
    IN  IF at = {} THEN None ELSE IF whole = {} THEN Hole ELSE CHOOSE q \in whole : TRUE

Content(l) ==
    IF database[l] \in {None, Missing} THEN {} ELSE {database[l][t] : t \in Tables} \ {None}

Promise == INSTANCE LocalDatabase
            WITH Databases <- Places, Dumps <- Runs, Own <- Local,
                 content <- [l \in Places |-> Content(l)], chosen <- [l \in Places |-> Chosen(l)]

\* The local data are given up only when a whole dump has arrived, and no other data
\* come in: no failure of the server, the connection or the download costs the user a
\* database (dsl.rs:872-925).
ImplementsLocalDatabase == Promise!Spec

\* Every run ends, even when the local database server never answers (db.rs:253).
RunsEnd == \A r \in Runs : client[r] # "idle" ~> client[r] \in Over
=====================================================================================
