-------------------------------- MODULE RunPipeline --------------------------------
(***********************************************************************************)
(* One invocation of `cloner run`, `backup` or `validate`: execute_with_extensions in *)
(* src/src/dsl.rs.  The project's JavaScript runs in the middle of it, as top-level    *)
(* code, as hooks or as execute(), and calls back into the program: it may run        *)
(* commands, clone again, catch the errors of what it called, throw, or return a       *)
(* Promise.  Program and script share one RuntimeState behind a RefCell.              *)
(*                                                                                   *)
(* What the database and file steps do is here one step each; DumpTransfer,           *)
(* CloneDatabase, FileSync and BackupStore have their insides.                        *)
(***********************************************************************************)
EXTENDS Integers, Sequences, FiniteSets, SequencesExt

CONSTANTS
    RunModes,    \* which of "clone", "backup", "validate" occur
    Hooks,       \* hooks that a project may define, "extension" standing for the extra ones
    Executes,    \* may the project define execute()?  A subset of BOOLEAN
    MaxEntries,  \* bound: entries of `files`
    MaxCalls     \* bound: calls that one JavaScript function makes

HookNames == {"beforeAll", "beforeDatabase", "beforeRestore", "afterRestore", "afterDatabase",
              "beforeFiles", "afterFiles", "afterAll", "extension"}

ASSUME ModesAssumption   == RunModes \subseteq {"clone", "backup", "validate"}
ASSUME HooksAssumption   == Hooks \subseteq HookNames
ASSUME ExecuteAssumption == Executes \subseteq BOOLEAN
ASSUME BoundsAssumption  == MaxEntries \in Nat /\ MaxCalls \in Nat

VARIABLES
    project,    \* what dl.js exports
    options,    \* RunOptions
    todo,       \* steps to come, the next one first; "js" is a function that runs
    calls,      \* calls that it may still make
    loaded,     \* is the RuntimeState there?
    borrowed,   \* is it borrowed for writing?
    outcome,    \* "running", "ok", "failed", or "panic"
    dump,       \* the local dump file: "none", "old", or "new" when this run fetched it
    database,   \* the data in the local database: "local" and dumps
    batch,      \* entries synced so far by the file step that is running
    synced,     \* entries that this run has synced to the end
    fileStats,  \* RuntimeState.file_stats: entries
    manifest,   \* the manifest written: [dump, files], or NoManifest
    trace       \* history: hooks called, "restore" and "sync" of the default pipeline

control == <<project, options, todo, calls, loaded, borrowed, outcome>>
effects == <<dump, database, batch, synced, fileStats, manifest>>
vars    == <<control, effects, trace>>

NoManifest == [dump |-> "none", files |-> {0}]

\* run_options: what the command line makes of `run`, `backup` and `validate`.
RunOptions ==
    {o \in [mode : RunModes, dry : BOOLEAN, skipDatabase : BOOLEAN, skipFiles : BOOLEAN] :
        o.mode = "validate" => o.dry}

Init ==
    /\ project \in [database : BOOLEAN, remote : BOOLEAN, reset : {"none", "drop-create"},
                    files : 0 .. MaxEntries, hooks : SUBSET Hooks, execute : Executes]
    /\ options \in RunOptions
    /\ todo = <<"js", "build">>
    /\ calls = MaxCalls
    /\ loaded = FALSE
    /\ borrowed = FALSE
    /\ outcome = "running"
    /\ dump \in {"none", "old"}
    /\ database = {"local"}
    /\ batch = 0
    /\ synced = {}
    /\ fileStats = {}
    /\ manifest = NoManifest
    /\ trace = <<>>

At(step) == outcome = "running" /\ todo # <<>> /\ Head(todo) = step
Then(steps) == todo' = steps \o Tail(todo)
InScript    == Contains(todo, "js")
Only(condition, steps) == IF condition THEN steps ELSE <<>>

\* `?`: the guards are dropped.  An error that reaches a running function can be caught
\* there; one that reaches the pipeline ends the run.
Raise ==
    /\ borrowed' = FALSE
    /\ batch' = 0
    /\ \/ outcome' = "failed" /\ todo' = <<>>
       \/ /\ InScript /\ Head(todo) # "js"
          /\ \E i \in 1 .. Len(todo) :
                todo[i] = "js" /\ todo' = SubSeq(todo, i, Len(todo))
          /\ UNCHANGED outcome
-------------------------------------------------------------------------------------
(* The pipeline.                                                                     *)

\* Mutant: the manifest is written first.
Pipeline_manifestFirst ==
    Only(~options.dry, <<"beforeAll">>) \o Only(options.mode = "backup", <<"manifest">>)
    \o Only(~options.skipDatabase, <<"database">>) \o Only(~options.skipFiles, <<"files">>)
    \o Only(~options.dry, <<"afterAll">>) \o <<"extension">>

\* The default pipeline, or execute() in its place.
Pipeline ==
    IF options.mode = "validate" THEN <<>>
    ELSE IF project.execute
    THEN <<"execute">> \o Only(options.mode = "backup", <<"manifest">>) \o <<"extension">>
    ELSE Only(~options.dry, <<"beforeAll">>)
         \o Only(~options.skipDatabase, <<"database">>) \o Only(~options.skipFiles, <<"files">>)
         \o Only(options.mode = "backup", <<"manifest">>)
         \o Only(~options.dry, <<"afterAll">>) \o <<"extension">>

\* build_state, and the backup directory; either may fail.
Build ==
    /\ At("build")
    /\ loaded' = TRUE
    /\ Then(Pipeline)
    /\ UNCHANGED <<project, options, calls, borrowed, outcome, effects, trace>>

\* call_hook, and the call of execute(), which any project that gets here has.
Call(name) ==
    /\ At(name)
    /\ IF name = "execute" \/ name \in project.hooks
       THEN Then(<<"js">>) /\ calls' = MaxCalls /\ trace' = Append(trace, name)
       ELSE Then(<<>>) /\ UNCHANGED <<calls, trace>>
    /\ UNCHANGED <<project, options, loaded, borrowed, outcome, effects>>

\* Mutant: hooks run in a dry run.
DatabaseSteps_hooksWhenDry(hooked) ==
    LET hook(name) == Only(hooked, <<name>>) IN
    IF ~project.database THEN <<>>
    ELSE hook("beforeDatabase") \o <<"dump", "fetch">>
         \o Only(options.mode # "backup",
                 hook("beforeRestore") \o <<"reset", "restore">> \o hook("afterRestore"))
         \o hook("afterDatabase")

\* Mutant: afterRestore before the restore.
DatabaseSteps_migratesFirst(hooked) ==
    LET hook(name) == Only(hooked /\ ~options.dry, <<name>>) IN
    IF ~project.database THEN <<>>
    ELSE hook("beforeDatabase") \o <<"dump", "fetch">>
         \o Only(options.mode # "backup",
                 hook("beforeRestore") \o <<"reset">> \o hook("afterRestore") \o <<"restore">>)
         \o hook("afterDatabase")

\* run_database_core, called by the pipeline with its hooks and by clone_db() without.
DatabaseSteps(hooked) ==
    LET hook(name) == Only(hooked /\ ~options.dry, <<name>>) IN
    IF ~project.database THEN <<>>
    ELSE hook("beforeDatabase") \o <<"dump", "fetch">>
         \o Only(options.mode # "backup",
                 hook("beforeRestore") \o <<"reset", "restore">> \o hook("afterRestore"))
         \o hook("afterDatabase")

\* Mutant: the guard lives to the end of the function.
FilesSteps_guardAroundHook(hooked) ==
    LET hook(name) == Only(hooked /\ ~options.dry, <<name>>) IN
    IF project.files = 0 THEN <<>>
    ELSE hook("beforeFiles") \o [i \in 1 .. project.files |-> "sync"]
         \o hook("afterFiles") \o <<"release">>

\* run_files_core likewise; "release" ends the block that borrows the state.
FilesSteps(hooked) ==
    LET hook(name) == Only(hooked /\ ~options.dry, <<name>>) IN
    IF project.files = 0 THEN <<>>
    ELSE hook("beforeFiles") \o [i \in 1 .. project.files |-> "sync"] \o <<"release">>
         \o hook("afterFiles")

Enter ==
    /\ \/ At("database")    /\ Then(DatabaseSteps(TRUE))
       \/ At("clone_db")    /\ Then(DatabaseSteps(FALSE))
       \/ At("files")       /\ Then(FilesSteps(TRUE))
       \/ At("clone_files") /\ Then(FilesSteps(FALSE))
       \/ At("clone_all")   /\ Then(DatabaseSteps(FALSE) \o FilesSteps(FALSE))
    /\ UNCHANGED <<project, options, calls, loaded, borrowed, outcome, effects, trace>>

\* dump_remote, on a connection that ssh_mut has ready.
Dump ==
    /\ At("dump")
    /\ project.remote
    /\ Then(<<>>)
    /\ UNCHANGED <<project, options, calls, loaded, borrowed, outcome, effects, trace>>

Fetch ==
    /\ At("fetch")
    /\ dump' = IF options.dry THEN dump ELSE "new"
    /\ Then(<<>>)
    /\ UNCHANGED <<project, options, calls, loaded, borrowed, outcome, trace,
                   database, batch, synced, fileStats, manifest>>

\* reset_local, called by run_database_core and by db.reset().
Reset ==
    /\ At("reset")
    /\ database' = IF project.reset = "none" \/ options.dry THEN database ELSE {}
    /\ Then(<<>>)
    /\ UNCHANGED <<project, options, calls, loaded, borrowed, outcome, trace,
                   dump, batch, synced, fileStats, manifest>>

Mark(step) == trace' = IF InScript THEN trace ELSE Append(trace, step)

Restore ==
    /\ At("restore")
    /\ database' = IF options.dry THEN database ELSE database \cup {dump}
    /\ Then(<<>>)
    /\ Mark("restore")
    /\ UNCHANGED <<project, options, calls, loaded, borrowed, outcome,
                   dump, batch, synced, fileStats, manifest>>

\* One entry.  The state stays borrowed from the first to the last.
Sync ==
    /\ At("sync")
    /\ project.remote
    /\ borrowed' = TRUE
    /\ batch' = batch + 1
    /\ synced' = IF options.dry THEN synced ELSE synced \cup {batch'}
    /\ Then(<<>>)
    /\ UNCHANGED <<project, options, calls, loaded, outcome, trace,
                   dump, database, fileStats, manifest>>

\* Mutant: the entries are appended to those of an earlier call.
Release_appends ==
    /\ At("release")
    /\ borrowed' = FALSE
    /\ fileStats' = 1 .. batch
    /\ Then(<<>>)
    /\ Mark("sync")
    /\ UNCHANGED <<project, options, calls, loaded, outcome,
                   dump, database, batch, synced, manifest>>

Release ==
    /\ At("release")
    /\ borrowed' = FALSE
    /\ fileStats' = 1 .. batch
    /\ batch' = 0
    /\ Then(<<>>)
    /\ Mark("sync")
    /\ UNCHANGED <<project, options, calls, loaded, outcome,
                   dump, database, synced, manifest>>

\* write_manifest describes the dump that it finds, if the project has a database.
WriteManifest ==
    /\ At("manifest")
    /\ manifest' = [dump |-> IF project.database /\ project.remote THEN dump ELSE "none",
                    files |-> fileStats]
    /\ Then(<<>>)
    /\ UNCHANGED <<project, options, calls, loaded, borrowed, outcome, trace,
                   dump, database, batch, synced, fileStats>>

\* Any of these can fail, some for want of a remote.
Fail ==
    /\ \E step \in {"build", "dump", "fetch", "reset", "restore", "sync", "manifest"} : At(step)
    /\ Raise
    /\ UNCHANGED <<project, options, calls, loaded, trace,
                   dump, database, synced, fileStats, manifest>>
-------------------------------------------------------------------------------------
(* The script.                                                                       *)

\* "config is not loaded yet" is an error of every call that the script or the command
\* runner of an extension makes too early; a RefCell that is borrowed is a panic.
Free == loaded /\ ~borrowed

Actions == {"clone_db", "clone_files", "clone_all", "reset"}

\* clone_db(), clone_files(), clone_all(), db.reset(): steps of the program itself.
CallBack(action) ==
    /\ At("js")
    /\ calls > 0
    /\ calls' = calls - 1
    /\ Free /\ (action = "reset" => project.database)
    /\ todo' = <<action>> \o todo
    /\ UNCHANGED <<project, options, loaded, borrowed, outcome, effects, trace>>

Commands == {"shell", "remote", "compose", "sync"}

\* compose.local and compose.remote find a project in dl.js, or throw.
Configured(command) == command = "remote" \/ command = "sync" => project.remote

\* shell(), shell.remote(), compose.*(), sync(): run at once, in a dry run as well (all
\* but sync), and what they do to the machines is the script's own.
Command(command) ==
    /\ At("js")
    /\ calls > 0
    /\ calls' = calls - 1
    /\ Free /\ Configured(command)
    /\ UNCHANGED <<project, options, todo, loaded, borrowed, outcome, effects, trace>>

\* Borrowing it while someone else has it is a panic, and so is clone_files() before it
\* is there, where the others fail.  What a script could do after that is left out.
Panic(action) ==
    /\ At("js")
    /\ calls > 0
    /\ IF loaded THEN borrowed ELSE action = "clone_files"
    /\ outcome' = "panic"
    /\ todo' = <<>>
    /\ UNCHANGED <<project, options, calls, loaded, borrowed, effects, trace>>

\* The function returns; or it throws, does not catch, or returns a Promise.
Return ==
    /\ At("js")
    /\ Then(<<>>)
    /\ UNCHANGED <<project, options, calls, loaded, borrowed, outcome, effects, trace>>

Throw ==
    /\ At("js")
    /\ Raise
    /\ UNCHANGED <<project, options, calls, loaded, trace,
                   dump, database, synced, fileStats, manifest>>

Exit ==
    /\ outcome = "running"
    /\ todo = <<>>
    /\ outcome' = "ok"
    /\ UNCHANGED <<project, options, todo, calls, loaded, borrowed, effects, trace>>

Next ==
    \/ Build \/ Enter \/ Dump \/ Fetch \/ Reset \/ Restore \/ Sync \/ Release \/ WriteManifest
    \/ Fail \/ Return \/ Throw \/ Exit
    \/ \E name \in HookNames \cup {"execute"} : Call(name)
    \/ \E action \in Actions : CallBack(action)
    \/ \E command \in Commands : Command(command)
    \/ \E call \in Actions \cup Commands : Panic(call)

Spec == Init /\ [][Next]_vars
-------------------------------------------------------------------------------------
Steps == HookNames \cup Actions \cup
         {"js", "build", "execute", "database", "files", "dump", "fetch", "restore", "sync",
          "release", "manifest"}

TypeOK ==
    /\ todo \in Seq(Steps)
    /\ calls \in 0 .. MaxCalls
    /\ outcome \in {"running", "ok", "failed", "panic"}
    /\ dump \in {"none", "old", "new"}
    /\ database \subseteq {"local", "old", "new"}
    /\ batch \in 0 .. project.files
    /\ synced \subseteq 1 .. project.files
    /\ fileStats \subseteq 1 .. project.files
    /\ Cardinality({i \in 1 .. Len(todo) : todo[i] = "js"}) <= 1
    /\ borrowed <=> batch > 0

\* A hook or execute() can always call back: whatever failed before it, and whatever it
\* caught, nobody else has the state borrowed (dsl.rs:957-972, the block in
\* run_files_core).
ScriptNeverPanics == loaded => outcome # "panic"

\* The diagram of docs/guides/dsl.md:298, with the extensions' hooks after it (dsl.rs:158).
Diagram == <<"beforeAll", "beforeDatabase", "beforeRestore", "restore", "afterRestore",
             "afterDatabase", "beforeFiles", "sync", "afterFiles", "afterAll", "extension">>

\* What of it the options and the project leave, in the words of cli.md:29-31, dsl.md:310
\* ("In backup mode the restore-related hooks are skipped") and dsl.rs:858.
Applies(step) ==
    /\ step \in HookNames => step \in project.hooks /\ (options.dry => step = "extension")
    /\ step \in {"beforeDatabase", "beforeRestore", "restore", "afterRestore", "afterDatabase"} =>
            project.database /\ ~options.skipDatabase
    /\ step \in {"beforeRestore", "restore", "afterRestore"} => options.mode # "backup"
    /\ step \in {"beforeFiles", "sync", "afterFiles"} => project.files > 0 /\ ~options.skipFiles

\* What of the diagram is to be done before its p-th step.
Ahead(p) == {Diagram[q] : q \in {q \in 1 .. p - 1 : Applies(Diagram[q])}}

\* The default pipeline follows the diagram: a run never leaves out a step that applies,
\* swaps two, or goes on after a failure, and success means that it did all of them.
FollowsTheDiagram ==
    ~project.execute /\ options.mode # "validate" =>
        /\ \A k \in 1 .. Len(trace) : \E p \in 1 .. Len(Diagram) :
              /\ trace[k] = Diagram[p] /\ Applies(trace[k])
              /\ {trace[l] : l \in 1 .. k - 1} = Ahead(p)
        /\ outcome = "ok" => Range(trace) = Ahead(Len(Diagram) + 1)

\* When afterRestore runs, the local database holds the dump that this run has fetched,
\* and after a reset nothing else: whatever the hooks before it did (dsl.md:284-287).
MigratesWhatWasRestored ==
    [][trace' # trace /\ trace'[Len(trace')] = "afterRestore" =>
        /\ "new" \in database
        /\ project.reset # "none" => database = {"new"}]_vars

\* The manifest of a backup that ran the default pipeline describes what this very run
\* has brought home, and never more files than it synced (dsl.rs:529, 979).
ManifestIsOfThisRun ==
    manifest # NoManifest /\ ~options.dry =>
        /\ manifest.files \subseteq synced
        /\ ~project.execute =>
            /\ ~options.skipFiles => manifest.files = 1 .. project.files
            /\ ~options.skipDatabase /\ project.database => manifest.dump = "new"

=====================================================================================
