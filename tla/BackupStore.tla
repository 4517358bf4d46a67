-------------------------------- MODULE BackupStore --------------------------------
(***********************************************************************************)
(* The backup root of one project, shared by the `cloner backup` processes that a    *)
(* scheduler and an operator start: src/src/backup.rs, and the parts of              *)
(* src/src/dsl.rs that choose the directory, write the manifest and prune.           *)
(*                                                                                   *)
(* A run creates its directory, downloads the dump, writes manifest.json and then    *)
(* removes all but the `keep` newest directories that have a readable manifest.      *)
(* Nothing locks the root: every step below interleaves with the steps of every      *)
(* other run, and a run may stop at any of them (error, crash, kill).                *)
(*                                                                                   *)
(* The content of a dump is named by the run that downloaded it, and a manifest by   *)
(* the run that wrote it.  How the bytes of one dump get there is DumpTransfer.      *)
(***********************************************************************************)
EXTENDS Integers, FiniteSets

CONSTANTS
    Runs,        \* invocations of `cloner backup`; each runs once
    Modes,       \* which of "full", "files" (--skip-database), "dry" (--dry-run) occur
    Timestamps,  \* names that backup::timestamp() produces (one per second)
    Manual,      \* directories under the root that an operator names with --to
    Keep,        \* backup.keep; 0 when it is not set
    SharedDirs,  \* may two runs use one directory (same second, or the same --to)?
    ClockSteps,  \* may the wall clock step back between two manifests?
    None,        \* no file, no directory yet
    Torn         \* a manifest.json that is truncated or half written

Dirs == Timestamps \cup Manual

ASSUME RunsAssumption  == IsFiniteSet(Runs)
ASSUME ModesAssumption == Modes \subseteq {"full", "files", "dry"}
ASSUME KeepAssumption  == Keep \in Nat
ASSUME SwitchAssumption == SharedDirs \in BOOLEAN /\ ClockSteps \in BOOLEAN
ASSUME MarksAssumption ==
    None \notin Runs \cup Dirs /\ Torn \notin Runs \cup Dirs /\ None # Torn

VARIABLES
    present,     \* directories that exist under the root
    dump,        \* dump[d]: the run whose download <d>/dump/<name> holds, or None
    manifest,    \* manifest[d]: None, Torn, or the run whose manifest it is
    pc,          \* control state of each run
    mode,        \* RunOptions of each run
    dir,         \* options.backup_dir of each run
    created,     \* created_at in the manifest of each run, 0 before it is built
    recorded,    \* the dump (by content) that the manifest of a run records
    holding,     \* runs whose open manifest.json is still the file in the directory
    unread,      \* prune: directory entries not yet looked at
    entries,     \* prune: manifests read so far
    victims,     \* prune: entries after the first `keep`, still to be removed
    target,      \* prune: the victim being removed
    sealed       \* history: runs whose complete manifest has reached the disk

store    == <<present, dump, manifest>>
runState == <<mode, dir, created, recorded>>
scan     == <<unread, entries, victims, target>>
vars     == <<store, pc, runState, holding, scan, sealed>>

Ended == {"done", "failed"}

Init ==
    /\ present = {}
    /\ dump = [d \in Dirs |-> None]
    /\ manifest = [d \in Dirs |-> None]
    /\ pc = [r \in Runs |-> "idle"]
    /\ mode = [r \in Runs |-> None]
    /\ dir = [r \in Runs |-> None]
    /\ created = [r \in Runs |-> 0]
    /\ recorded = [r \in Runs |-> None]
    /\ holding = {}
    /\ unread = [r \in Runs |-> {}]
    /\ entries = [r \in Runs |-> {}]
    /\ victims = [r \in Runs |-> {}]
    /\ target = [r \in Runs |-> None]
    /\ sealed = {}

Goto(r, where) == pc' = [pc EXCEPT ![r] = where]
-------------------------------------------------------------------------------------
(* The directory and the dump.                                                       *)

UsedDirs == {dir[q] : q \in Runs}

\* Mutant: the manifest is described before the dump has been downloaded.
Start_manifestFirst(r) ==
    /\ pc[r] = "idle"
    /\ \E m \in Modes, d \in Dirs :
        /\ SharedDirs \/ d \notin UsedDirs
        /\ present' = present \cup {d}
        /\ mode' = [mode EXCEPT ![r] = m]
        /\ dir' = [dir EXCEPT ![r] = d]
        /\ Goto(r, "record")
    /\ UNCHANGED <<dump, manifest, created, recorded, holding, scan, sealed>>

\* resolve_backup_dir and prepare_dir, with whatever options.  --dry-run comes this
\* way too.  Directory names repeat when two runs start in one second, or in the
\* hour that the local clock shows twice: create_dir_all does not mind.
Start(r) ==
    /\ pc[r] = "idle"
    /\ \E m \in Modes, d \in Dirs :
        /\ SharedDirs \/ d \notin UsedDirs
        /\ present' = present \cup {d}
        /\ mode' = [mode EXCEPT ![r] = m]
        /\ dir' = [dir EXCEPT ![r] = d]
        /\ Goto(r, IF m = "full" THEN "fetch" ELSE "record")
    /\ UNCHANGED <<dump, manifest, created, recorded, holding, scan, sealed>>

\* fetch_dump ends with the rename of the .part file over <dir>/dump/<name>.
FetchDump(r) ==
    /\ pc[r] = "fetch"
    /\ present' = present \cup {dir[r]}
    /\ dump' = [dump EXCEPT ![dir[r]] = r]
    /\ Goto(r, "record")
    /\ UNCHANGED <<manifest, runState, holding, scan, sealed>>
-------------------------------------------------------------------------------------
(* write_manifest.                                                                   *)

Built == {q \in Runs : created[q] # 0}

\* Manifest::default reads the clock (no two manifests share a nanosecond), then
\* set_dump describes whatever dump is at the path, whoever put it there.
BuildManifest(r) ==
    /\ pc[r] = "record"
    /\ \E t \in 1 .. Cardinality(Runs) :
        /\ \A q \in Built : created[q] # t
        /\ ClockSteps \/ t = Cardinality(Built) + 1
        /\ created' = [created EXCEPT ![r] = t]
    /\ recorded' = [recorded EXCEPT ![r] = dump[dir[r]]]
    /\ Goto(r, "write")
    /\ UNCHANGED <<store, mode, dir, holding, scan, sealed>>

\* Manifest::write: create_dir_all, then fs::write truncates the file ...
TruncateManifest(r) ==
    /\ pc[r] = "write"
    /\ present' = present \cup {dir[r]}
    /\ manifest' = [manifest EXCEPT ![dir[r]] = Torn]
    /\ holding' = holding \cup {r}
    /\ Goto(r, "seal")
    /\ UNCHANGED <<dump, runState, scan, sealed>>

Prunes(r) == Keep > 0 /\ dir[r] \notin Manual

\* ... and fills it.  The bytes go nowhere when the file was removed in between.
SealManifest(r) ==
    /\ pc[r] = "seal"
    /\ IF r \in holding
       THEN /\ manifest' = [manifest EXCEPT ![dir[r]] = r]
            /\ sealed' = sealed \cup {r}
       ELSE UNCHANGED <<manifest, sealed>>
    /\ holding' = holding \ {r}
    /\ Goto(r, IF Prunes(r) THEN "list" ELSE "done")
    /\ UNCHANGED <<present, dump, runState, scan>>
-------------------------------------------------------------------------------------
(* prune.                                                                            *)

ListRoot(r) ==
    /\ pc[r] = "list"
    /\ unread' = [unread EXCEPT ![r] = present]
    /\ Goto(r, "load")
    /\ UNCHANGED <<store, runState, holding, entries, victims, target, sealed>>

\* A directory that is gone, or whose manifest does not parse, is passed over.
LoadEntry(r) ==
    /\ pc[r] = "load"
    /\ \E d \in unread[r] :
        /\ unread' = [unread EXCEPT ![r] = @ \ {d}]
        /\ entries' = [entries EXCEPT ![r] =
                IF d \in present THEN @ \cup ({manifest[d]} \cap Runs) ELSE @]
    /\ UNCHANGED <<store, pc, runState, holding, victims, target, sealed>>

\* Mutant: `index + 1 < keep`.
RankEntries_keepsOneLess(r) ==
    /\ pc[r] = "load"
    /\ unread[r] = {}
    /\ \E kept \in SUBSET entries[r] :
        /\ \/ Cardinality(kept) = Keep - 1
           \/ kept = entries[r] /\ Cardinality(kept) < Keep - 1
        /\ \A k \in kept, e \in entries[r] \ kept : created[k] >= created[e]
        /\ victims' = [victims EXCEPT ![r] = entries[r] \ kept]
    /\ Goto(r, "prune")
    /\ UNCHANGED <<store, runState, holding, unread, entries, target, sealed>>

\* Mutant: `index <= keep`.
RankEntries_keepsOneMore(r) ==
    /\ pc[r] = "load"
    /\ unread[r] = {}
    /\ \E kept \in SUBSET entries[r] :
        /\ \/ Cardinality(kept) = Keep + 1
           \/ kept = entries[r] /\ Cardinality(kept) < Keep + 1
        /\ \A k \in kept, e \in entries[r] \ kept : created[k] >= created[e]
        /\ victims' = [victims EXCEPT ![r] = entries[r] \ kept]
    /\ Goto(r, "prune")
    /\ UNCHANGED <<store, runState, holding, unread, entries, target, sealed>>

\* Mutant: `a.0.cmp(&b.0)` instead of `b.0.cmp(&a.0)`.
RankEntries_oldestFirst(r) ==
    /\ pc[r] = "load"
    /\ unread[r] = {}
    /\ \E kept \in SUBSET entries[r] :
        /\ \/ Cardinality(kept) = Keep
           \/ kept = entries[r] /\ Cardinality(kept) < Keep
        /\ \A k \in kept, e \in entries[r] \ kept : created[k] <= created[e]
        /\ victims' = [victims EXCEPT ![r] = entries[r] \ kept]
    /\ Goto(r, "prune")
    /\ UNCHANGED <<store, runState, holding, unread, entries, target, sealed>>

\* entries.sort_by(newest first); the first `keep` stay.
RankEntries(r) ==
    /\ pc[r] = "load"
    /\ unread[r] = {}
    /\ \E kept \in SUBSET entries[r] :
        /\ \/ Cardinality(kept) = Keep
           \/ kept = entries[r] /\ Cardinality(kept) < Keep
        /\ \A k \in kept, e \in entries[r] \ kept : created[k] >= created[e]
        /\ victims' = [victims EXCEPT ![r] = entries[r] \ kept]
    /\ Goto(r, "prune")
    /\ UNCHANGED <<store, runState, holding, unread, entries, target, sealed>>

NextVictims(r) ==
    {v \in victims[r] : \A w \in victims[r] : created[v] >= created[w]}

\* remove_dir_all unlinks the files of the directory one by one, in any order ...
BeginRemove(r) ==
    /\ pc[r] = "prune"
    /\ \E v \in NextVictims(r) :
        /\ dir[v] \in present
        /\ target' = [target EXCEPT ![r] = v]
        /\ \/ dump' = [dump EXCEPT ![dir[v]] = None] /\ UNCHANGED manifest
           \/ manifest' = [manifest EXCEPT ![dir[v]] = None] /\ UNCHANGED dump
        /\ holding' = IF manifest' = manifest THEN holding
                      ELSE {h \in holding : dir[h] # dir[v]}
    /\ Goto(r, "unlink")
    /\ UNCHANGED <<present, runState, unread, entries, victims, sealed>>

\* ... and the directory last.
FinishRemove(r) ==
    /\ pc[r] = "unlink"
    /\ LET d == dir[target[r]] IN
        /\ present' = present \ {d}
        /\ dump' = [dump EXCEPT ![d] = None]
        /\ manifest' = [manifest EXCEPT ![d] = None]
        /\ holding' = {h \in holding : dir[h] # d}
    /\ victims' = [victims EXCEPT ![r] = @ \ {target[r]}]
    /\ target' = [target EXCEPT ![r] = None]
    /\ Goto(r, "prune")
    /\ UNCHANGED <<runState, unread, entries, sealed>>

\* Another run removed it first: remove_dir_all fails, and with it the whole run.
RemoveMissing(r) ==
    /\ pc[r] = "prune"
    /\ \E v \in NextVictims(r) : dir[v] \notin present
    /\ Goto(r, "failed")
    /\ UNCHANGED <<store, runState, holding, scan, sealed>>

EndPrune(r) ==
    /\ pc[r] = "prune"
    /\ victims[r] = {}
    /\ Goto(r, "done")
    /\ UNCHANGED <<store, runState, holding, scan, sealed>>
-------------------------------------------------------------------------------------
\* Mutant: the failing run is still taken to hold its manifest open.
Abort_keepsHandle(r) ==
    /\ pc[r] \notin {"idle"} \cup Ended
    /\ Goto(r, "failed")
    /\ UNCHANGED <<store, runState, holding, scan, sealed>>

\* An error returned by any step (`?`), or the end of the process: what is on disk
\* stays as it is, nothing is undone and nobody finishes the job.
Abort(r) ==
    /\ pc[r] \notin {"idle"} \cup Ended
    /\ Goto(r, "failed")
    /\ holding' = holding \ {r}
    /\ UNCHANGED <<store, runState, scan, sealed>>

Next ==
    \E r \in Runs :
        \/ Start(r) \/ FetchDump(r)
        \/ BuildManifest(r) \/ TruncateManifest(r) \/ SealManifest(r)
        \/ ListRoot(r) \/ LoadEntry(r) \/ RankEntries(r)
        \/ BeginRemove(r) \/ FinishRemove(r) \/ RemoveMissing(r) \/ EndPrune(r)
        \/ Abort(r)

Spec == Init /\ [][Next]_vars
-------------------------------------------------------------------------------------
(* Properties.                                                                       *)

\* Type correctness, with the two facts about handles that the actions rely on: only
\* a run between truncate and write has manifest.json open, and only a run inside
\* remove_dir_all has a directory in hand (backup.rs, Manifest::write and prune).
TypeOK ==
    /\ present \subseteq Dirs
    /\ dump \in [Dirs -> Runs \cup {None}]
    /\ manifest \in [Dirs -> Runs \cup {None, Torn}]
    /\ pc \in [Runs -> {"idle", "fetch", "record", "write", "seal", "list", "load",
                         "prune", "unlink"} \cup Ended]
    /\ mode \in [Runs -> Modes \cup {None}]
    /\ dir \in [Runs -> Dirs \cup {None}]
    /\ \A r \in Runs : dir[r] = None <=> pc[r] = "idle"
    /\ created \in [Runs -> 0 .. Cardinality(Runs)]
    /\ recorded \in [Runs -> Runs \cup {None}]
    /\ holding \subseteq {r \in Runs : pc[r] = "seal"}
    /\ unread \in [Runs -> SUBSET Dirs]
    /\ entries \in [Runs -> SUBSET sealed]
    /\ victims \in [Runs -> SUBSET sealed]
    /\ target \in [Runs -> Runs \cup {None}]
    /\ \A r \in Runs : pc[r] = "unlink" => target[r] \in victims[r]
    /\ sealed \subseteq Built

\* As many published backups as backup.keep asks for are at least as new as that of r.
Outranked(r) ==
    Cardinality({q \in sealed \ {r} : created[q] >= created[r]}) >= Keep

\* `cloner verify <d>` passes: the manifest parses, it records a dump, and the file
\* still is what it records (backup.rs, verify).
Verifies(d) ==
    /\ manifest[d] \in Runs
    /\ recorded[manifest[d]] # None
    /\ dump[d] = recorded[manifest[d]]

\* The backups a user finds under the root.
Stored == {r \in sealed : manifest[dir[r]] = r}

\* Whatever other runs prune, crash in the middle of, or write, one of the `keep`
\* newest published backups is never lost: its manifest is in place, and if it took a
\* dump it still passes verification (backup.rs:176, "Keep the `keep` newest").
NewestAreRestorable ==
    \A r \in sealed : ~Outranked(r) =>
        /\ dir[r] \in present
        /\ manifest[dir[r]] = r
        /\ mode[r] = "full" => Verifies(dir[r])

\* Retention holds up to its failures: beyond `keep`, the root has at most one backup
\* for each run that did not get to the end of its own pruning (dsl.md:273).
RetentionBound ==
    Keep > 0 =>
        Cardinality(Stored) <=
            Keep + Cardinality({r \in sealed : pc[r] # "done" \/ ~Prunes(r)})

\* The store keeps the promise of BackupCatalog: what is published stays restorable
\* and unchanged until `keep` others as new are published.
Catalog == INSTANCE BackupCatalog WITH
    stamp     <- [r \in Runs |-> IF r \in sealed THEN created[r] ELSE 0],
    published <- sealed,
    available <- {r \in Stored : dump[dir[r]] = recorded[r]}

ImplementsCatalog == Catalog!Spec

\* docs/guides/cli.md:61 says of `backup --dry-run`: "Print commands only".  A dry run
\* then removes no stored backup.
DryRunRemovesNothing ==
    [][\A r \in Runs : mode[r] = "dry" /\ pc'[r] # pc[r] => Stored \subseteq Stored']_vars
=====================================================================================
