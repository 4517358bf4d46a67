------------------------------- MODULE BackupRestore -------------------------------
(***********************************************************************************)
(* `cloner restore` and `cloner verify` (src/src/restore.rs, src/src/main.rs) beside  *)
(* the backup runs of BackupStore, which keep writing and pruning the directories     *)
(* that a restore reads.                                                              *)
(*                                                                                   *)
(* restore.rs:3 names a second way to get at a backup: it is downloaded from          *)
(* somewhere else first.  A copy has the manifest and the dump of its original; the   *)
(* manifest still records the absolute path of the original dump.                     *)
(***********************************************************************************)
EXTENDS BackupStore

CONSTANTS
    Restorers,    \* invocations of `cloner restore` and `cloner verify`
    Away,         \* those that run on a machine other than the backup host
    Copies,       \* directories outside the root that backups are copied to
    EngineOf,     \* EngineOf[r]: manifest.database.engine of run r
    LocalEngine,  \* the engine of the local database
    Local         \* the data in the local database before any restore

\* What a restore or verify is to do: empty the database first ("drop-create" and "volume"
\* of database.reset), not to, because dl.js or --no-reset says so, print commands, verify.
Plans == {"reset", "none", "no-reset", "dry-run", "verify"}

ASSUME AwayAssumption   == Away \subseteq Restorers
ASSUME CopiesAssumption == Copies \cap (Dirs \cup {None}) = {}
ASSUME LocalAssumption  == Local \notin Runs \cup {None}

VARIABLES
    copy,       \* copy[c]: what a copied directory holds, [manifest, dump]
    step,       \* control state of each restore
    plan,       \* what each one was asked to do
    source,     \* --from / --dir: a backup directory, or the dump file in it
    file,       \* is the source the dump file itself?
    relative,   \* is that place relative to a directory the restore command leaves?
    stored,     \* StoredBackup: the manifest read (None for a file) and the dump's place
    database    \* the dumps whose data the local database has

rvars   == <<copy, step, plan, source, file, relative, stored, database>>
allVars == <<vars, rvars>>

\* Past the verification: at work, or broken off by an error or from outside.
AtWork  == {"reset", "emptied", "load", "loaded"}
Over    == {"ok", "refused", "failed", "killed"}

RInit ==
    /\ Init
    /\ copy = [c \in Copies |-> [manifest |-> None, dump |-> None]]
    /\ step = [x \in Restorers |-> "idle"]
    /\ plan = [x \in Restorers |-> None]
    /\ source = [x \in Restorers |-> None]
    /\ file = [x \in Restorers |-> FALSE]
    /\ relative = [x \in Restorers |-> FALSE]
    /\ stored = [x \in Restorers |-> [manifest |-> None, at |-> None]]
    /\ database = {Local}

ManifestIn(d) == IF d \in Copies THEN copy[d].manifest ELSE manifest[d]
DumpIn(d)     == IF d \in Copies THEN copy[d].dump ELSE dump[d]

\* The path that the manifest of run m records is a path of the backup host.
RecordedDump(x, m) == IF x \in Away THEN None ELSE dump[dir[m]]

Sources(x) == IF x \in Away THEN Copies ELSE present \cup Copies
-------------------------------------------------------------------------------------
\* The operator downloads a complete backup directory (external to the program).
CopyBackup(c) ==
    /\ copy[c].manifest = None
    /\ \E d \in present :
        /\ Verifies(d)
        /\ copy' = [copy EXCEPT ![c] = [manifest |-> manifest[d], dump |-> dump[d]]]
    /\ UNCHANGED <<vars, step, plan, source, file, relative, stored, database>>

Proceed(x, where) == step' = [step EXCEPT ![x] = where]

\* Command::Restore, Command::Verify: no dl.js, a dl.js without a database, or the
\* production environment without --force.
Refuse(x) ==
    /\ step[x] = "idle"
    /\ Proceed(x, "refused")
    /\ UNCHANGED <<vars, copy, plan, source, file, relative, stored, database>>

\* StoredBackup::resolve: a dump file stands for itself; for a directory, the path the
\* manifest records if that is a file, else the file of that name in the directory.
Resolve(x) ==
    /\ step[x] = "idle"
    /\ \E p \in Plans, d \in Sources(x), isFile \in BOOLEAN :
        LET m  == IF isFile THEN None ELSE ManifestIn(d)
            at == IF m \in Runs /\ RecordedDump(x, m) # None THEN dir[m] ELSE d
            found == DumpIn(at) # None
                     /\ (~isFile => m \in Runs /\ recorded[m] # None)
        IN  /\ plan' = [plan EXCEPT ![x] = p]
            /\ source' = [source EXCEPT ![x] = d]
            /\ file' = [file EXCEPT ![x] = isFile]
            /\ \E elsewhere \in BOOLEAN : relative' = [relative EXCEPT ![x] = elsewhere]
            /\ stored' = IF found
                         THEN [stored EXCEPT ![x] = [manifest |-> m, at |-> at]]
                         ELSE stored
            /\ Proceed(x, IF found THEN "verify" ELSE "refused")
    /\ UNCHANGED <<vars, copy, database>>

\* backup::verify loads the manifest again and looks at the recorded path only.
DirVerified(x) ==
    LET m == ManifestIn(source[x]) IN
    m \in Runs /\ recorded[m] # None /\ RecordedDump(x, m) = recorded[m]

\* A dump file passes when it is there and not empty.
FileVerified(x) == DumpIn(stored[x].at) # None

Verified(x) == IF file[x] THEN FileVerified(x) ELSE DirVerified(x)

EngineFits(x) == file[x] \/ EngineOf[stored[x].manifest] = LocalEngine

\* Mutant: a backup of any engine passes.
Verify_anyEngine(x) ==
    /\ step[x] = "verify"
    /\ Proceed(x,
         IF ~Verified(x) THEN "refused"
         ELSE IF plan[x] = "verify" THEN "ok"
         ELSE IF plan[x] \in {"reset", "none"} THEN "reset" ELSE "load")
    /\ UNCHANGED <<vars, copy, plan, source, file, relative, stored, database>>

Verify(x) ==
    /\ step[x] = "verify"
    /\ Proceed(x,
         IF ~Verified(x) THEN "refused"
         ELSE IF plan[x] = "verify" THEN "ok"
         ELSE IF ~EngineFits(x) THEN "refused"
         ELSE IF plan[x] \in {"reset", "none"} THEN "reset" ELSE "load")
    /\ UNCHANGED <<vars, copy, plan, source, file, relative, stored, database>>

\* db::reset_local: nothing for `reset: none`; dropdb, DROP DATABASE or the removal of the
\* volume take the data, after which the database is yet to be made again.
Reset(x) ==
    /\ step[x] = "reset"
    /\ IF plan[x] = "none" THEN Proceed(x, "load") /\ UNCHANGED database
       ELSE Proceed(x, "emptied") /\ database' = {}
    /\ UNCHANGED <<vars, copy, plan, source, file, relative, stored>>

\* createdb, CREATE DATABASE; a new volume, the project up, the server ready.
Recreate(x) ==
    /\ step[x] = "emptied"
    /\ Proceed(x, "load")
    /\ UNCHANGED <<vars, copy, plan, source, file, relative, stored, database>>

\* Mutant: a dump that is gone is piped all the same.
Load_unchecked(x) ==
    /\ step[x] = "load"
    /\ IF plan[x] = "dry-run" THEN Proceed(x, "ok") /\ UNCHANGED database
       ELSE /\ Proceed(x, "loaded")
            /\ database' = database \cup {DumpIn(stored[x].at)}
    /\ UNCHANGED <<vars, copy, plan, source, file, relative, stored>>

\* db::restore_local pipes the file that was resolved, as it is now: `cd <compose path>
\* && docker compose ... < <dump>` for a Compose project, which does not find a relative
\* path.  A dump of another engine is none to the restore command.
Loads(x) ==
    LET content == DumpIn(stored[x].at) IN
    ~relative[x] /\ content # None /\ EngineOf[content] = LocalEngine

Load(x) ==
    /\ step[x] = "load"
    /\ IF plan[x] = "dry-run" THEN Proceed(x, "ok") /\ UNCHANGED database
       ELSE IF Loads(x)
       THEN Proceed(x, "loaded") /\ database' = database \cup {DumpIn(stored[x].at)}
       ELSE Proceed(x, "failed") /\ UNCHANGED database
    /\ UNCHANGED <<vars, copy, plan, source, file, relative, stored>>

\* The restore command ends well.
EndLoad(x) ==
    /\ step[x] = "loaded"
    /\ Proceed(x, "ok")
    /\ UNCHANGED <<vars, copy, plan, source, file, relative, stored, database>>

\* An error of reset_local or restore_local that is not about the dump (`?`): a service or
\* a volume is not configured, `docker compose`, `docker volume`, the server or the restore
\* command fails, or wait_ready gives up.  The reset may have emptied the database by then,
\* the restore command may have loaded a part of the dump; `reset: none` runs nothing.
CommandFails(x) ==
    /\ step[x] \in AtWork
    /\ step[x] = "reset" => plan[x] # "none"
    /\ Proceed(x, "failed")
    /\ UNCHANGED <<vars, copy, plan, source, file, relative, stored, database>>

\* The process is ended from outside.  Before it is at work this changes nothing: a
\* restore that takes no further step stands for it.
Kill(x) ==
    /\ step[x] \in AtWork
    /\ Proceed(x, "killed")
    /\ UNCHANGED <<vars, copy, plan, source, file, relative, stored, database>>

RestoreStep(x) ==
    \/ Refuse(x) \/ Resolve(x) \/ Verify(x) \/ Reset(x) \/ Recreate(x)
    \/ Load(x) \/ EndLoad(x) \/ CommandFails(x) \/ Kill(x)

RNext ==
    \/ Next /\ UNCHANGED rvars
    \/ \E c \in Copies : CopyBackup(c)
    \/ \E x \in Restorers : RestoreStep(x)

RSpec == RInit /\ [][RNext]_allVars
-------------------------------------------------------------------------------------
RTypeOK ==
    /\ copy \in [Copies -> [manifest : Runs \cup {None}, dump : Runs \cup {None}]]
    /\ step \in [Restorers -> {"idle", "verify"} \cup AtWork \cup Over]
    /\ plan \in [Restorers -> Plans \cup {None}]
    /\ source \in [Restorers -> Dirs \cup Copies \cup {None}]
    /\ file \in [Restorers -> BOOLEAN] /\ relative \in [Restorers -> BOOLEAN]
    /\ stored \in [Restorers -> [manifest : Runs \cup {None},
                                 at : Dirs \cup Copies \cup {None}]]
    /\ \A x \in Restorers : step[x] \in {"verify"} \cup AtWork =>
                                (file[x] <=> stored[x].manifest = None)
    /\ database \subseteq Runs \cup {Local}

\* A restore that has got past its verification can be repeated from what it was given,
\* at each of its steps and wherever it fails or is killed, above all when it has emptied the
\* database (restore.rs:136-139): its source still passes, unless `keep` backups
\* at least as new have been published and retention may take it.
StaysRepeatable ==
    \A x \in Restorers : step[x] \in AtWork \cup {"failed", "killed"} =>
        \/ Verified(x)
        \/ \E r \in sealed :
                /\ IF file[x] THEN dir[r] = stored[x].at ELSE r = stored[x].manifest
                /\ Outranked(r)

\* The dump that a restore at work has chosen: the one that the manifest describes, or the
\* one that the user has named; Torn, if the manifest is that of another engine.
Picked(x) ==
    LET m == stored[x].manifest
        at == stored[x].at
    IN  IF ~file[x] THEN IF EngineOf[m] = LocalEngine THEN recorded[m] ELSE Torn
        ELSE IF at \in Copies THEN copy[at].dump
        ELSE CHOOSE r \in Runs : dir[r] = at

Chosen ==
    LET atWork == {x \in Restorers : step[x] \in AtWork} IN
    IF atWork = {} THEN None ELSE Picked(CHOOSE x \in atWork : TRUE)

Promise == INSTANCE LocalDatabase
            WITH Databases <- {LocalEngine}, Dumps <- Runs, Own <- Local,
                 content <- [l \in {LocalEngine} |-> database],
                 chosen <- [l \in {LocalEngine} |-> Chosen]

\* A restore keeps the promise of LocalDatabase while backup runs write and prune what it
\* reads between its steps: the data are given up only for a dump that was whole when it
\* was verified and, if a manifest tells, of this engine, and nothing but that dump comes
\* in (restore.rs:119; docs/guides/cli.md:77, "The dump is verified against the manifest
\* (size and SHA-256) before anything is reset").
ImplementsLocalDatabase == Promise!Spec

\* src/src/restore.rs:3: "This is the entry point the RSBackup control plane can call
\* after it has downloaded a backup artifact".  A downloaded directory whose dump is
\* what its manifest describes is then not refused by the verification.
AcceptsDownloadedBackup ==
    \A x \in Restorers :
        step[x] = "refused" /\ source[x] \in Copies /\ stored[x].manifest # None
        /\ EngineOf[stored[x].manifest] = LocalEngine
            => copy[source[x]].dump # recorded[copy[source[x]].manifest]
=====================================================================================
