# cloner: a TLA+ model

`cloner` (the Rust program in `src/src/`) copies a database and directories from a
server to the machine it runs on, runs a project's JavaScript hooks on the way, keeps
timestamped backups and restores them, and creates, resets and drops databases. This
directory models the parts of it that are stateful: TLA+ modules, TLC configurations that
check them on small instances, and TLAPS proofs, for every value of the constants, of all
that TLC checks there but liveness.

Paths such as `backup.rs:205` are below `src/src/`, `dsl.md`, `cli.md` below
`src/docs/guides/`.

    tlc -workers 2 -config BackupStore_retention.cfg MCBackupStore.tla
    for M in *Proofs.tla; do tlapm $M; done

`PROJECT.json` lists the runs with their modules, maps every definition to the lines it
translates, and names for every property a mutant of the code (an operator such as
`RankEntries_keepsOneMore`, unused in the specifications) that breaks it.

## 1. The system

| Component | Source | State | Operations |
|---|---|---|---|
| Backup store | `backup.rs`, `dsl.rs` 254-305, 465-490, 979-1034 | directories below a backup root, each with a dump, files, `manifest.json` | choose a directory, write dump and manifest, prune, verify |
| Restore | `restore.rs`, `main.rs` 321-361 | what one restore has resolved; the local database | resolve, verify, reset, load |
| SSH session | `ssh.rs`, `dsl.rs` 343-370 | the one connection of a run, the credentials left to try | connect, log in, read what to dump |
| Dump transfer | `db.rs` 27-143, `ssh.rs` 182-297 | the remote dump file, `<name>.part`, `<name>` | dump on the server, download, rename |
| Local database | `db.rs` 145-262, `engine.rs` | the database, its container and volume | reset (three modes, three engines), wait, load |
| File sync | `sync.rs` | a remote and a local tree | list, filter, copy, link, stamp, delete |
| Run pipeline | `dsl.rs` | the RuntimeState behind a `RefCell`, steps to come | steps, hooks, `execute()`, call-backs |
| Database administration | `admin.rs`, `main.rs` 544-668 | roles and databases of a server, its container | start, create, reset, drop, migrate |
| Database inference | `compose.rs`, `dsl.rs` 562-830, `util.rs`, `config.rs` | what has been read of one side | read `.env`, pod, Compose file, `env_file` files; infer |
| Kubernetes CronJob | `k8s.rs` 120-281, `main.rs` 380-475 | the rendered job, its pods, volume and bucket | render; run night by night |
| Command lines, targets, shell, CLI | `engine.rs`, `runtime.rs`, `shell.rs`, `main.rs` | none | text, dispatch |
| Legacy Ruby gem, installers | `lib/`, `install.*` | | replaced by the Rust program; packaging |

How they interact. `cloner run` and `cloner backup` are one call of
`execute_with_extensions`: it loads `dl.js`, builds the RuntimeState and takes the
database step (dump transfer, then, unless it is a backup, local reset and load), the file
step (one sync per `files` entry) and for a backup the manifest and pruning, with hooks in
between. The hooks run in the same thread and call back into the same steps through the
shared RuntimeState. `cloner restore` works on what `cloner backup` has left on disk.
`cloner k8s cronjob` only renders a manifest, but what it renders is a program of its own,
which Kubernetes starts, retries and ends.
Nothing else connects processes: they share files (backup root, remote dump, part files),
a server and a local database, and **there is no lock anywhere**.

What is hard about it:

* *Concurrency between processes.* Scheduled and manual backups prune one root; restores
  read what is being pruned; developers clone through one remote dump file; two
  `cloner db` commands interleave between their statements.
* *Partial work.* Nothing is transactional. Every step may fail or the program may be
  killed there, and the next run has to cope with the rest: a torn manifest, a half
  removed directory, a part file, a project that is down, a schema that is gone.
* *Stale reads.* `prune` ranks manifests it read earlier, `sync` copies what a listing
  named, `pg_create` acts on an answer, `restore` loads what it verified a moment ago.
* *Lost connections.* A run has one SSH connection and never makes a second; a command whose
  connection goes ends like one that succeeded, with the output it had so far.
* *Re-entrance.* JavaScript runs inside the steps and calls them.
* *Time.* Creation times come from a wall clock, files are compared by size and time,
  waiting is bounded by a number of pings, a nightly job by a deadline.

What makes each component correct:

* *store*: the newest backups survive anything; retention holds up to failures; a
  manifest describes the dump beside it.
* *restore* and *clone*: local data are given up only for one dump that was whole and, if a
  manifest tells, of this engine; nothing but that dump comes in; a restore that
  breaks off can be repeated.
* *transfer and local database*: a file under its final name is whole; a clone that
  succeeds has replaced the database by the dump it made, and repairs what stopped runs
  left; every run ends.
* *session*: it logs in when one of its credentials works; half a read never leads to a dump.
* *file sync*: after success both sides agree on what held still; only what is gone is
  deleted; a failed sync can be repeated.
* *pipeline*: the documented order whatever the options; a manifest of this run; nobody
  borrows twice; dry runs and loading leave data alone.
* *inference*: engine, service and credentials belong together, and the sources have the
  documented precedence, whatever could not be read.
* *administration*: create is idempotent and delivers; what a killed command leaves can be
  repeated.
* *CronJob*: a job that is complete has put a whole dump of its night into the bucket; no
  night is skipped; no object is overwritten.

## 2. Modules

    BackupCatalog                        what a store of backups promises (abstract)
      ^ refines
    BackupStore ------ BackupRestore     directories, manifests, pruning; restores beside it
                           | refines
                           v
                       LocalDatabase     what a command promises the local data (abstract)
                           ^ refines
    DumpTransfer ----- CloneDatabase     bytes of one dump; the local database
    SshSession                           the connection of one run
    FileSync                             one `files` entry
    RunPipeline                          steps and scripts of one invocation
    DbAdmin                              `cloner db`
    DbInfer                              which database a side has
    CronBackup                           the rendered CronJob
    MC*                                  instances (constants, symmetry)
    *Proofs                              theorems about the module they are named after

`BackupProofs` (the store, and the restores beside it), `CloneDatabaseProofs`, `SshSessionProofs`,
`FileSyncProofs`, `RunPipelineProofs`, `DbAdminProofs`, `DbInferProofs` and `CronBackupProofs`
hold the theorems of section 5.

**BackupStore** has one control state `pc[r]` per backup run and the root as three
variables: `present`, `dump[d]` (the run whose download is there), `manifest[d]` (the run
that wrote it, `None`, or `Torn`). `Start` is `resolve_backup_dir` and `prepare_dir`,
`FetchDump` the rename at the end of a download, `BuildManifest` takes the clock and
describes the dump it finds, `TruncateManifest`/`SealManifest` are the two halves of
`fs::write`, `ListRoot`, `LoadEntry`, `RankEntries` the loop and sort of `prune`,
`BeginRemove`/`FinishRemove` the first unlink and the rest of `remove_dir_all` (either file
may go first), `RemoveMissing` its failure when another run was faster, `Abort` an error
or a kill at any point. `holding` says whose open manifest is still the file in the directory,
because a prune may unlink it between truncate and write. `sealed` is history.

**BackupCatalog** only knows published backups with a time, and that one may expire when
`Keep` others at least as new are published. `BackupStore!Catalog` maps the store to it.

**LocalDatabase** is the promise to the owner of a local database: data stay until one whole
dump is chosen (`Choose`), from then on any of them may go and only that dump comes in
(`Replace`), until the command ends (`Leave`). Two modules implement it, `CloneDatabase!Promise`
and `BackupRestore!Promise` being the mappings; a file that is not one whole dump maps to a
value that `Choose` does not know.

**BackupRestore** extends `BackupStore` by restores and verifications: `Refuse` (no `dl.js`, no
database, production), `Resolve` (directory or dump file, recorded path or the file beside it),
`Verify` (reads the manifest again, checks the recorded path, then the engine), `Reset` (up to
the drop or the removal of the volume; nothing for `reset: none`), `Recreate` (the database made
again, the server ready), `Load` (opens the path again; a relative one is not found after `cd`)
and `EndLoad`. From `Reset` on a restore is `AtWork`: any of its commands may fail
(`CommandFails`: "failed"; wait_ready that gives up is one of them) and the process may be ended
(`Kill`: "killed"), with the database as it is then: untouched, empty or half loaded. What
the checks before it turn down is "refused". `CopyBackup`
is the operator or service that downloads a backup directory; `Away` restores run on another
machine, where recorded absolute paths name nothing.

**DumpTransfer** takes files as inodes and paths as links to them. `StartDump` to
`TestDump` are the `mkdir && rm -f && (...) > && test -s && wc -c` chain of
`dump_remote`; `OpenRemote` to `RenamePart` are `Ssh::download`. The chunks of a dump are named
by the run whose dump it is, so a mixture shows. **CloneDatabase** extends it with the
project of each place (reset mode, engine on either side, equal or different name, Compose service
known or not), with `reset_local` (volume: `ComposeDown`, `RemoveVolume`, `CreateVolume`,
`ComposeUp`; drop-create: `ComposeUp`, `WaitReady`, `Drop`, `Create`) and `restore_local`
(`OpenInput`, `LoadTable`, `EndLoad`). `CanDrop`, `CanLoad` and `Selected` are what
the commands of `engine.rs` need on each engine, `Wraps` what `CommandTarget::wrap` needs.

**SshSession** is the life of the connection: `Connect` (host key), `OfferIdentity`, `OfferFile`,
`OfferPassword` in the order of `Ssh::connect`, then the three reads before a dump (`.env`,
Compose file, `env_file`; or `.env`, pod, its environment), `Dump`, `RestoreLocal` and `SyncFiles`.
`Lose` is the network, `Timeout` the `inactivity_timeout`, `CutRead` a read that the loss ends.
`After` says which reads a run needs and which count as empty.

**FileSync** walks a tree with a stack (`todo`) as `sync_dir` recurses: `ListDir`,
then per entry `SkipFiltered`, `EnterDir`, `MakeLink`, `SkipFile` or `OpenFile`, then
`RenamePart`, `StampFile`; `LeaveDir` pops, and after the last one `DeleteExtra` removes
what is not in `expected`. `ServerWrites`, `ServerLinks`, `ServerMakesDir`, `ServerRemoves`
happen at any moment. A read may return the old content, the new one or a mixture.

**RunPipeline** keeps the steps still to do in `todo`, the head being next; `"js"` stands for a
JavaScript function that runs, so a hook that calls `clone_db()` has the steps of that call in
front of its own. `RunOptions` is what the command line makes of `run`, `backup` and `validate`.
`CallBack` is `clone_db`, `clone_files`, `clone_all` and `db.reset`, `Command` the calls that run
at once (`shell`, `shell.remote`, `compose.*`, `sync`). An error (`Raise`) unwinds to the innermost
caller that catches it. `borrowed` is the write guard of the `RefCell`. What database and file
steps do is reduced to which dump is where; the other modules have their insides.

**DbAdmin** has the server (`password`, `there`, `schema`, `rows`, `grants`, `hstore`) and one
action per statement. `Start` picks the options of a command; `Refused` are the refusals
before the first statement. `Up`, `Ping` and `ServerReady` are the Compose service that
`ensure_started` starts and waits for. `Finish` is the extension and the migration. All three
engines are in it; the engine is chosen in `Init`.

**DbInfer** resolves one side: `ReadEnv` and `ReadPod` are the reads of `build_state`,
`ReadCompose` and `ReadServiceFiles` those of `resolve_remote_db` and `resolve_local_db`,
`Infer` is `infer_db`, `Wrap` the first command for the result. The third side, `"command"`, is
`load_local_context`, which reads no pod. A value is the name of its source, so that the result
says where it comes from. `Score` and `Detect` are `detect_service`, `Expand` is what `${...}`
yields, `Merged` and `PickKey` the precedence. A read that fails silently yields nothing.

**CronBackup** is the manifest that `BackupCronJob::render` makes, as Kubernetes runs it.
`Render` has the refusals of `k8s_cronjob`; `BeginDump`, `EndDump`, `DumpError`, `Check` are the
script of the init container, `Upload` and `Complete` the container after it, `Schedule`,
`StartPod`, `FailPod` and `EndLate` what the fields of the manifest (schedule, `Forbid`,
`backoffLimit`, `restartPolicy`, `activeDeadlineSeconds`) make Kubernetes do. `StoreObject` and
`LoseUpload` are the storage. Kubernetes and the storage are external, modelled from the fields
that the code sets.

## 3. Runs

TLC finishes each passing run; "violation" runs end with a counterexample, which section 7
explains.

| Run | Checks | States |
|---|---|---|
| `BackupStore_retention` | `TypeOK`, `NewestAreRestorable`, `RetentionBound`, `ImplementsCatalog` | 1.35 M |
| `BackupRestore_races` | `RTypeOK`, `StaysRepeatable`, `ImplementsLocalDatabase` | 5.21 M |
| `CloneDatabase_sequence` | `TypeOK`, `FileIsWhole`, `ClonesItsOwnDump`, `RecoversFromStoppedRuns`, `ImplementsLocalDatabase` | 2.31 M |
| `CloneDatabase_machines` | `NoOlderData`, `RunsEnd` (liveness) | 0.31 M |
| `SshSession_run` | `TypeOK`, `DumpsOnWhatItRead`, `ConnectsWhenItCan` and `RunsEnd` (liveness) | 0.36 M |
| `FileSync_live` | `TypeOK`, `UpToDate`, `UndisturbedSucceeds`, `KeepsWhatIsThere` | 2.43 M |
| `DbAdmin_commands` | `TypeOK`, `CreateDelivers`, `CreateKeepsExisting`, `FailsOnlyWhenMissing` | 6.21 M |
| `RunPipeline_script` | `TypeOK`, `ScriptNeverPanics`, `FollowsTheDiagram`, `ManifestIsOfThisRun`, `MigratesWhatWasRestored` | 1.25 M |
| `DbInfer_sides` | `TypeOK`, `EngineFitsService`, `FilesOfTheService`, `ServiceDecides` | 2.68 M |
| `CronBackup_nights` | `TypeOK`, `UploadsWholeDumps`, `CompleteIsUploaded`, `NoNightIsSkipped`, `NeverOverwrites` | 4.57 M |
| `BackupStore_dryrun` | violation of `DryRunRemovesNothing` | |
| `BackupRestore_download` | violation of `AcceptsDownloadedBackup` | |

What they show:

* **BackupStore_retention**: three runs in any mode, into two timestamped directories and one
  that an operator named, with `keep = 1`. Three is the least number at which one prune is
  overtaken by another while a third publishes: pruning passes that list, rank and remove at
  different times still never touch the newest backup, because a victim is outranked by
  something published, and that never ceases to be so. A clock that steps back is included;
  "newest" is by `created_at`, as in the code. `keep = 1` is the tightest retention;
  a larger one is covered by the theorems. `Timestamps` and `Runs` are interchangeable, and
  `SYMMETRY` is used for the safety properties and `ImplementsCatalog`, a
  safety property too (the catalog has no fairness).
* **BackupRestore_races**: one restore or verify beside two backups of two engines, with
  `keep = 1`, so that the backup that is being restored may be removed at each of its steps. The
  local data go only for a dump that was verified. The commands of reset and restore may fail,
  and the process may be ended, at each step, and the database is then left empty or half
  loaded; the code does not prevent that, with or without retention. What holds
  (`StaysRepeatable`) is that the same restore passes its verification again, at every one of these
  points, unless `keep` backups at least as new have been published meanwhile. A restore that failed
  for a reason of its own, a relative path say, fails in the same way again.
* **CloneDatabase_sequence**: three clones, one after the other, on one machine, dumps of
  different length (so that a remainder of a longer one would show), each stopped anywhere.
  Three let one clone inherit from two that broke off in different places. Every
  reset mode on every engine occurs, with a project that cannot work (other engine on the other
  side, unknown service) among them.
* **CloneDatabase_machines**: two machines at once, and remote commands that survive their
  connection. One of the runs is a backup. Liveness is checked here, without symmetry.
  In both clone runs `Overlap = FALSE`: a run starts when the earlier ones on its machine have
  ended. Runs on different machines overlap as they like.
* **SshSession_run**: any agent with up to two identities, any identity file, password and
  `authorized_keys`, a server that hangs up after two refusals (six in OpenSSH; two are enough for
  the agent alone to reach the limit), and a network that fails at any step.
* **FileSync_live**: two syncs, three changes on the server, a tree of a file or link, a
  directory (that may also be a file) with one file, and a file that the patterns filter; contents come in
  two lengths, so a change may keep the size. Any local tree at the start, which stands for
  what earlier syncs have left. Two syncs are enough for one that broke off and one that
  must repair it.
* **DbAdmin_commands**: any two commands with any switches on any engine, from any server, up or
  not yet started, killed between any two statements; one database and a system database, one
  owner. The second command is either a rival or a retry; the two are interchangeable.
* **RunPipeline_script**: all modes and options, hooks before and after restore and files and
  extension hooks, `execute()` or the default pipeline, up to two `files` entries and two
  calls per function; other hooks take the same path in the code (`call_hook`).
* **DbInfer_sides**: one side of a run, or the local side of a command without one, on the host,
  in Compose or in a pod; two services, of which one is
  called `db`, two engines, each service with one variable written in every way that an expression
  takes, and every read failing or not. Two services and engines are what it takes
  for the wrong one to be chosen; the third engine takes the same branches.
* **CronBackup_nights**: two whole nights, the second to its deadline, with up to three pods each, a
  pod or an upload failing at any step. The deadline is one tick short of the
  period, the tightest that the assumption allows.

Bounds that cut off behaviour: `MaxWrites`, `MaxSyncs` (FileSync), `MaxEntries`, `MaxCalls`
(RunPipeline), `Attempts` (2 pings for the 60 of `wait_ready`), `Pings` (1 for the 60 of
`ensure_started`), `SizeOf` (one or two chunks per dump), `Limit` (SshSession), `MaxClock`
(CronBackup). Everything else is a finite set of participants, each of which acts once.
`CHECK_DEADLOCK FALSE` stands in every configuration, because all of these systems end.

`Gap = 2` in FileSync says that writes of the server are two seconds apart: a file of
equal size whose time differs by less is taken for unchanged (`sync.rs:340`), so
`UpToDate` does not hold without it. `suspect` exempts files that a killed sync has
renamed but not yet stamped (`sync.rs:254`).

## 4. Fairness

Two specifications are fair.

`CloneDatabase!FairSpec` has weak fairness of the steps of each run that has
started. A run is a single thread that awaits one operation at a time, remote
dump and copy make progress, and their ends and errors are reported to it. Not assumed: that a run
starts, that the container ever becomes ready (`EngineReady` has no fairness), or that a failure
happens. `RunsEnd` then says that nobody waits for ever, and its mutant is a `wait_ready`
without a bound.

`SshSession!Spec` has weak fairness of `Run` and of `Timeout`: the server, the agent (and whoever
confirms its prompts) and the commands answer while the connection is up, and the client's own timer
runs. On a silent connection no step of `Run` is enabled that needs an answer, so only the timer is
left. `Lose` and `CutRead` have no fairness: nothing makes the network fail or spares the run.

The other specifications state no fairness, and their properties are safety properties.

## 5. Proofs

Each proof module adds to the property an invariant that is inductive, shows `Init => Inv` and that
each action keeps it, and then the property. TLC has checked the invariants on the instances of
section 3 before. All constants are arbitrary, under the named assumptions of the modules; in
addition some theorems assume, in their statements, what the table names.

| Module | Theorems | Assumed besides |
|---|---|---|
| `BackupProofs` | `TypeInvariant`, `RetentionIsBounded`, `RestoreTypes` | |
| | `Retention`, `Refinement`, `Repeatable` | `~SharedDirs` |
| | `RestoreRefinement` | `~SharedDirs`, `OneRestorer` |
| `CloneDatabaseProofs` | `CloneTypes` | |
| | `FetchesNothingOlder` | `~Overlap` |
| | `FilesAreWhole`, `SuccessIsOwnDump`, `RunsRecover`, `CloneRefinement` | `Undisturbed` |
| `SshSessionProofs` | `SessionTypes`, `DumpsOnWholeReads` | |
| `FileSyncProofs` | `SyncTypes`, `KeepsFiles` | |
| | `SyncsUpToDate` | `Gap >= 2`, `~Follow` |
| | `SyncsRecover` | `~Follow` |
| `RunPipelineProofs` | `PipelineTypes`, `HooksFindTheStateFree`, `FollowsDiagram`, `ManifestsAreOwn`, `MigratesRestored` | |
| `DbAdminProofs` | `AdminTypes`, `CreatesDeliver`, `CreatesKeep`, `FailuresAreMissing` | |
| `DbInferProofs` | `InferTypes`, `EngineAndService`, `FilesAndService`, `NameAndService` | |
| `CronBackupProofs` | `TypeInvariant`, `NoSkippedNights`, `WholeDumps`, `CompleteJobs`, `KeepsObjects` | |

None of these is there for the proof's sake; without it the code does break the property.
`SharedDirs`: two runs in one second share a directory (section 7). `OneRestorer`: two restores into one
database empty it under each other. `Overlap`: overlapping clones on one machine mix their bytes in
`<name>.part`. `Undisturbed` (`~Overlap`, `~Orphans`, `OwnServer`): two machines, or a dump command that
outlives its connection, write the remote file that another run is downloading. `Gap`: `sync` takes files of
equal size and nearly equal time for equal. `Follow`: the copy of a link to a directory fails the sync.
`CloneRefinement` also wants `Runs # {}`, because the mapping names a run.

**The store.** `TypeOK` is inductive only together with `Progress` (what
a run has built and published by each control state; a pruning run has `Keep > 0`; a manifest in
place was sealed). `StoreInv` is the conjunction. `Retention` and `Refinement` go by
`Exclusive`: directories of distinct runs are
distinct (`OwnDirs`); a run under way finds in its directory what it put there
(`UnderWay`); a published backup is as its run left it or on its way out (`Published`);
every victim of every pruning pass is outranked by `Keep` published backups at least as new
(`Outdated`); and what is not outranked is in place and untouched (`NewestInPlace`).
`VictimsAreOutranked` gets `Outdated` from the ranking, by cardinalities: with
more than `Keep` entries, the kept ones are `Keep` published backups at least as new.
`OutrankedStays` is why a stale scan does no harm: `sealed` only grows and
`created` never changes once sealed, so outranking is for ever. So the removal of a victim disturbs
only directories that neither `NewestInPlace` nor the catalog still promises anything about.
For the refinement, `SealPublishes` maps a seal to `Publish`, `RemovalExpires` the first unlink of a
removal to `Expire`, and `OthersStutter` the rest.

`RetentionIsBounded` needs none of this and holds for shared directories too. Of the runs that got to
the end of their pruning, one has seen everything that the others have left (`LastKnowsAll`: the last
one to list the root), and it leaves at most `Keep` of what it has seen (`KeptBound`). What it has
not seen belongs to runs that have not ended.

**Restores.** `RestoreInv` is that a restore goes by the manifest of a published backup and a
place that this backup, or a copy of it, has filled (`Sound`). With `Exclusive` it follows that what it
verified is whole and stays so until a pass has it as a victim, hence outranked, and that each
step is one of `LocalDatabase` or a stutter. For `Repeatable`, `AllGiven` says that what a
restore past its verification was given still holds the manifest it goes by, until that backup is
outranked: a dump goes only with a victim (`DumpGoes`), outranking is for ever
(`SupersededStays`), and neither the other restores nor its own failing steps touch the source
(`GivenBeside`, `GivenSteps`). What is not outranked is in place (`NewestInPlace`), and
verifies again (`GivenPasses`). Nothing depends on what has become of the database, so
this theorem needs no `OneRestorer`.

**Clones.** `OlderInv` ties every inode to the run that made it and says that nothing on the way to a run
is of a dump begun before it (`FromSource`); this holds although other machines unlink and rewrite
the same remote file. For undisturbed runs `WholeInv` adds that a dump under way is a first
part of one dump (`Part`), on the server, in `<name>.part` and then under the final name. `RunInv` says
what reset and restore have made of server and database before each step; `RunsRecover` is that none of
what stopped runs leave contradicts it. `ChosenInv` is the mapping to `LocalDatabase`. The proof of
`Drop` found that its `CASE` had overlapping arms, of which TLC took the first; it is now an `IF`.

**Session.** A read that broke off is over with the connection, and the one connection of a run never
comes back (`BrokenForGood`), so nothing that follows reaches the server.

**File sync.** Trees may have any depth: `WalkInv` says that each path which is to be reached is accounted
for (expected, missing, in an entry still to come, below a directory not yet expected, or in the
listing about to be made), and that nothing is both accounted for and lost follows from the topmost path that
is not (`TreeAssumption`: every set of paths has a topmost one). `UpToDate` needs the times:
whatever has a time of the server, the tree, a listing or a copy on its way, has it two seconds
apart from all others (`TimesInv`), so that a file of equal time is the server's (`SameIfDatedSame`), and what
is expected and did not change agrees (`AgreeInv`). The proof of `KeepsFiles` found the first definition of
`Reached` too weak for deep trees, which the instance of one level did not show.

**Pipeline.** The steps to come are a stack, and `PipeInv` is mostly about it: what stands
directly before what (`Shaped`: a restore after a reset, a release after the entries of its block), that only the
program's own steps are in front of a running function (`OneScript`), that the step which will do
what the manifest claims is still due (`Owed`). `ShapedThen` and its like say that putting steps in place of
the first one, and dropping steps when an error unwinds, keep these. So no function runs while the state
is borrowed, whatever a script calls and catches.

For `FollowsTheDiagram` a place is a position in the diagram, and `Fills` says which places a step still
stands for: `build` all of them, `database` the second to the sixth, a hook its own. Only steps that no running
function has in hand count (`Own`); what a script calls may do anything, at any time, and is not part of
the promise. `Diagrammed` then says that the own steps fill later and later places (`Queued`), that the
trace goes through the diagram and leaves out none of this run's places before its last (`Traces`), that all of it is before
whatever is left, and that while nothing has failed each wanted place is either done or left. `Stands` is what
has to hold of the steps put in place of another one, and a lemma each shows it of what `Pipeline`, `DatabaseSteps`
and `FilesSteps` yield under any options; `OwnPushed` and `OwnDropped` are why call-backs and unwinding change none of it.

**Administration.** The invariant gives each command what its statement rests on: `Belongs` (statement,
action and engine), `Made` (what a create has made, which others spare as long as they create), `Finds`
and `Lonely` (what a command that nobody has overlapped still finds as it left it). `Spares` is what one command's
step leaves to the others: it takes no role away, and only a reset or a drop takes a database or grants.
`CreateDelivers` therefore needs no assumption on how many commands interleave.

**Inference.** `World` is what the run finds and does not change, `Stages` what has been read by each control
state, `Asked` the service whose `env_file` files were read. The properties are about a result that exists after one
step, `Infer`, so the proof is about its operators: `First` yields the first option that is given (`FirstIs`), `Detect` a
service of the highest positive score (a set of numbers has a least element, `LeastOf`, so a highest score exists
however many services there are), and the score exceeds 100 just when the service shows the engine that is asked for.
`FilesOfTheService` compares two such searches: they rank by the same score unless only the `.env` file
named the engine, which is the case it excepts. Of the constants it uses that `Order` and `Names` are finite sequences.

**CronJob.** `CronInv` adds to `TypeOK` and `CompleteIsUploaded`: `Nights`
(an active job started exactly one period before the next night, so with `Late` blocking the clock
it is over by then, and `Schedule` never meets it); `Stored` (what has left a pod is
whole, has a name not after the last date that was read, and no two have the same name); and `InPod`
(the volume of a pod has one dump, under the date the pod read, of this job, whole once `writing` is over,
and nothing stored has that name before it is sent). `UploadsWholeDumps` is not inductive
without `InPod`, because `Upload` sends whatever is in the volume; `NeverOverwrites` is not without the
uniqueness in `Stored`, because an upload may arrive long after its pod. `InitInv` and `StepInv`
are the two halves, `PodEnds` the failure of a pod, which three actions share.

Only model-checked: liveness (`RunsEnd` of clones and sessions, `ConnectsWhenItCan`), because the prover reasons
neither about fairness nor about `ENABLED`. `FollowsTheDiagram` is stated by positions, not by filtering the
diagram with `SelectSeq`, because a proof about the latter would be an induction over sequences.

## 6. Not modelled, and why

* The text of `.env` and Compose files and of `${...}`; user, password, host and port, which
  are picked as the database name is, and the second names of a variable
  (`PGDATABASE`, `DB_DATABASE`). `EngineFitsService` is about the variables that
  `detect_service` and `engine_from_env` both know.
* `engine.rs`, `runtime.rs`, `shell.rs`, the commands of `k8s.rs`: they build command lines; what the
  commands do and need is modelled where they run, their text and quoting is not. The same holds for the
  YAML of the CronJob. The contents of the host-key files are reduced to "trusted" or "unknown".
* Permissions and statistics of `sync`; a `files` entry that is a single file; `dump_to_path` and
  `db.query`; schemas other than `public`. `db seed` and `--postgis` take the same path as
  `db migrate` and `--hstore`, which stand for them.
* Two runs in one backup directory (`SharedDirs = TRUE` in BackupStore): the model has them, the runs
  and the proof exclude them, see below. Two restores at once.
* `config.rs` (defaults and validation of one JSON document) and the search for `dl.js`: functions
  of one input without state.
* The Ruby gem (`lib/`), which the Rust program replaces, and the installers.

## 7. Where code and documentation part

Shown by runs:

* `BackupStore_dryrun`: `backup --dry-run` creates a directory, writes a manifest and prunes
  (`dsl.rs:551`): with `keep = 1` it removes the only real backup. `cli.md:61` promises "Print
  commands only".
* `BackupRestore_download`: the manifest records an absolute path and `verify` looks only there
  (`backup.rs:240`), so a backup directory that was moved to another machine never verifies, although
  `resolve` would find the dump; `restore.rs:3` names that very use.

Met while modelling, visible in the definitions, without a run of their own. Documentation:

* With `delete: true` an excluded file that exists on both sides is removed locally
  (`sync.rs:159`); `dsl.md:239` speaks of files "that no longer exist remotely". `DeleteExtra`
  in FileSync: filtered files are never in `expected`.
* `merged` starts with the `env_file` files of the service and is extended by the `.env` file
  (`compose.rs:248`), which therefore wins; the comment above it and `dsl.md:188` have it the other
  way round. `Merged` in DbInfer.
* `cloner restore`, `cloner db` and `cloner k8s` resolve the local side without its pod
  (`dsl.rs:317`): the environment of a named pod is not read, so the `.env` file alone names the
  database, and a pod known by its selector only ends in an error at the first command. `dsl.md:158-161` and
  `operations.md:53` describe it for every side.
* MySQL and MongoDB resets ignore `--no-drop` (`admin.rs:389`); `cli.md:183`: "Do not drop the
  schema/database first".
* `execute()` and its `shell(...)` run in a dry run (`dsl.rs:509`); `cli.md:23`: "print commands, do
  not change anything". So do the hooks of extensions (`dsl.rs:532`, `dsl.rs:557`), where the
  comment at `dsl.rs:858` has it that hooks "may change the machine [...], so a dry run must not
  execute them".
* When only the `.env` file names the engine, `infer_db` looks for the service with that engine
  and the search for `env_file` files without it (`dsl.rs:743`, `dsl.rs:808`): the credentials may be those of
  another service. `FilesOfTheService` excepts the case.
* A `${DB_NAME:?...}` that has no value is kept as text (`compose.rs:48`), which can become the name of the
  database; Compose itself would stop.
* A backup made with `--to` directly below the root takes part in retention (`backup.rs:186`);
  `dsl.md:275`: "Explicit `--to` directories are never pruned automatically."
* Two runs in the same second, or in the hour that local time repeats, share a directory
  (`backup.rs:150`). A pruning pass that ranked the earlier manifest then removes the later
  backup (`backup.rs:205`). The same reuse leaves an old manifest beside a new dump when
  the second run stops between the two; verification refuses it.
* `created_at` is the wall clock: after a step back the most recent backup may be the one removed.
* Include patterns are applied to directories too (`sync.rs:159`): `include: ["*.jpg"]` copies
  nothing below a directory, while the test at `sync.rs:498` allows `nested/photo.jpg`.
* With `followSymlinks` a link to a directory, or a dangling one, is opened as a file and fails the whole
  sync (`sync.rs:205`); `UndisturbedSucceeds` is checked without it.
* `mysql_create` always runs `ALTER USER` (`admin.rs:376`), against `cli.md:196` ("existing
  roles/databases are kept"); MongoDB ignores `--set-password` for a user that exists
  (`admin.rs:425`). `CreateKeepsExisting` excepts MySQL by name.
* A project's own environment wins over `--env production`, so that refusal does not take place
  (`main.rs:564`, `cli.md:251`).
* Extension hooks run after a custom `execute()` too (`dsl.rs:532`); `dsl.rs:158` says they run
  "when the default pipeline runs".
* `clone_files()` at the top level of `dl.js` panics (`dsl.rs:941` unwraps) where `clone_db()` reports
  "runtime state missing" (`dsl.rs:845`). `ScriptNeverPanics` starts when the state is loaded.
* Overlapping clones on one machine share `<name>.part` (`ssh.rs:276`) and can publish a
  mixture; clones on two machines share the remote file (`db.rs:47`) and can download
  the beginning of a newer dump. `NoOlderData` is what remains true.

Hazards that stay open in the code, and that the properties except by name:

* Any command that fails after the reset leaves the local database empty (`restore.rs:136-139`,
  `db.rs:196-262`), for a full disk as for a server that is not ready within 60 seconds.
  `StaysRepeatable` is what remains true.
* With `--from` and a plain dump file nothing tells the engine (`restore.rs:76`): the file of another
  engine passes, and fails to load when the database has been reset. `ImplementsLocalDatabase` speaks of
  the engine for backup directories only.
* With `--skip-database` into a `--to` directory that holds an older dump, the manifest records
  that dump as of now (`dsl.rs:1005`). `ManifestIsOfThisRun` excepts the option.
* Nothing compares the engine of the server with the local one (`dsl.rs:924`): the local
  database is reset first, and the restore command fails then. `Hopeless` in CloneDatabase.
* MySQL's drop-create connects to the database that it drops (`engine.rs:303`): after a run that was
  stopped between `DROP` and `CREATE` no later run can connect, until someone creates it by hand.
* `mongorestore --nsInclude <local name>.*` (`engine.rs:187`) selects nothing from the dump of a
  database of another name, and succeeds. `Selected`.
* `volume_reset` needs no service, the wait after it does (`db.rs:225-244`, `runtime.rs:44`): an
  unknown service is reported when the volume is gone.
* A relative `--from` is verified from the working directory and loaded after `cd <compose path>`
  (`runtime.rs:46`), where it names nothing; by then the database has been reset.
* A remote command that a signal ends counts as success, with the output it had (`ssh.rs:205-213`), and
  `read_pod_env` looks at no exit code at all (`dsl.rs:694`): half an environment can name another
  database. `DumpsOnWhatItRead` shows that a lost connection at least never gets as far as a dump.
* A command that prints nothing for an hour is cut by `inactivity_timeout`, although it
  works; and a connection that was lost during a long local restore is not made again for the files
  (`dsl.rs:349`).
* Every identity of the agent uses up an attempt before `identityFile` is tried (`ssh.rs:108`): an agent
  with more refused ones than the server allows makes it unreachable.
* `cloner k8s cronjob` takes the local database of `dl.js` for the one in the cluster (`main.rs:387`).
* A schedule more often than `activeDeadlineSeconds` (1800 s, `k8s.rs:221`) can skip nights; the
  assumption of CronBackup excludes it.
* `ensure_started` starts the Compose project before the name of the database is looked at
  (`admin.rs:72`), so a refused command has done that much.

## 8. Plan

Done: the store with its refinement and proofs, restores, transfer and clone with the abstract
local database, the SSH session, file sync, pipeline, administration with the start of its
service, inference for runs and commands, the CronJob; proofs of every safety property of all of them. The
order was by what an error would cost: backups, local data, files, then the rest. Left:

1. `DbInfer` with both sides of a run, the other values and the second names of variables;
   `${VAR:-default}` over words of abstract characters (`util.rs`), as recursive functions.
2. A restore beside a clone on one database; two `files` entries whose names collide
   (`backup.rs:159`); backup directories that two runs share.
3. Parts left out of `FileSync` (single file entries) and `DbAdmin` (other schemas).
