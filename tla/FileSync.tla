---------------------------------- MODULE FileSync ----------------------------------
(***********************************************************************************)
(* One `files` entry of a project, synced again and again from a server that goes on *)
(* writing: src/src/sync.rs.  A sync lists the remote directories one by one, acts   *)
(* on each entry by what the listing said of it, reads a file some time later, and    *)
(* in the end deletes the local paths that no listing had (`delete: true`).           *)
(*                                                                                   *)
(* A file's content is a number; SizeOf gives its length, so that contents may agree  *)
(* in size.  Times are in seconds.  Removing a local file that resists is a warning   *)
(* in the code and is left out, and so are permissions and statistics.                *)
(***********************************************************************************)
EXTENDS Integers, Sequences, FiniteSets

CONSTANTS
    Paths,      \* paths below spec.from, and as well below spec.to
    ParentOf,   \* ParentOf[p]: the directory of p, a path or Root
    Root,       \* spec.from and spec.to
    KindsOf,    \* KindsOf[p]: what the server may have at p, of "file", "dir", "link"
    Allowed,    \* paths that the include and exclude patterns let through
    Delete,     \* spec.delete
    Follow,     \* spec.follow_symlinks
    MaxSize,    \* spec.max_size
    SizeOf,     \* SizeOf[c]: the length of content c
    LinkSize,   \* the length that the server reports of a link itself
    Gap,        \* seconds between two writes of the server
    MaxWrites,  \* bound: changes on the server
    MaxSyncs    \* bound: syncs

ASSUME PathsAssumption == ParentOf \in [Paths -> Paths \cup {Root}] /\ Root \notin Paths
\* Every path is below Root: going up from any of them leaves any set of paths.
ASSUME TreeAssumption ==
    \A S \in SUBSET Paths : S # {} => \E p \in S : ParentOf[p] \notin S
\* What is below a local link to a directory is not modelled, so no path is first a
\* link and then a directory.
ASSUME KindsAssumption ==
    /\ KindsOf \in [Paths -> SUBSET {"file", "dir", "link"}]
    /\ \A p \in Paths : ~({"dir", "link"} \subseteq KindsOf[p])
ASSUME SizesAssumption ==
    MaxWrites \in Nat /\ SizeOf \in [1 .. MaxWrites -> Nat] /\ LinkSize \in Nat /\ Gap \in Nat
ASSUME SpecAssumption  == Allowed \subseteq Paths /\ Delete \in BOOLEAN /\ Follow \in BOOLEAN

VARIABLES
    remote,     \* remote[p]: what the server has at p
    writes,     \* changes on the server so far
    clock,      \* the time of the last one
    local,      \* local[p]: what the local machine has at p
    parts,      \* paths p with a file .<p>.cloner-part beside them
    pc,         \* control state of the sync
    dry,        \* dry_run
    syncs,      \* syncs begun
    listing,    \* the directory that sync_dir lists next
    todo,       \* entries not yet acted on, a set for each directory on the call stack
    item,       \* the entry that is being downloaded
    got,        \* the content that was there when its download began
    expected,   \* local paths that the listings account for
    changed,    \* history: paths that the server changed since the sync began
    missing,    \* history: paths that the server lacked at some moment since then
    unstamped,  \* history: files that have been renamed but not stamped
    suspect     \* history: those that the sync found when it began

server == <<remote, writes, clock>>
tree   == <<local, parts>>
walk   == <<dry, syncs, listing, todo, item, got, expected>>
past   == <<changed, missing, unstamped, suspect>>
vars   == <<server, tree, pc, walk, past>>

\* data: the content of a file or the target of a link.
Node(kind, data, size, mtime) == [kind |-> kind, data |-> data, size |-> size, mtime |-> mtime]
Absent == Node("none", 0, 0, 0)
Folder == Node("dir", 0, 0, 0)
Other  == 0    \* content the server never had: a mixture of two, or a local file's own

Children(d) == {p \in Paths : ParentOf[p] = d}

Init ==
    /\ remote = [p \in Paths |-> Absent]
    /\ writes = 0
    /\ clock = 0
    /\ local \in [Paths -> {Absent, Folder, Node("file", Other, 1, 0)}]
    /\ \A p \in Paths :
        local[p] # Absent /\ ParentOf[p] # Root => local[ParentOf[p]] = Folder
    /\ parts = {}
    /\ pc = "idle"
    /\ dry = FALSE
    /\ syncs = 0
    /\ listing = Root
    /\ todo = <<>>
    /\ item = [path |-> Root, meta |-> Absent]
    /\ got = Other
    /\ expected = {}
    /\ changed = {}
    /\ missing = {}
    /\ unstamped = {}
    /\ suspect = {}

Stopped == {"idle", "done", "failed", "killed"}
-------------------------------------------------------------------------------------
(* The server (external): one change at a time, at least Gap seconds apart.          *)

Exists(p) == remote[p].kind # "none"

Change(p, node) ==
    /\ writes < MaxWrites
    /\ ParentOf[p] # Root => remote[ParentOf[p]].kind = "dir"
    /\ \A q \in Children(p) : ~Exists(q)
    /\ remote' = [remote EXCEPT ![p] = node]
    /\ writes' = writes + 1
    /\ clock' = clock + Gap
    /\ changed' = changed \cup {p}
    /\ missing' = IF node = Absent THEN missing \cup {p} ELSE missing
    /\ UNCHANGED <<tree, pc, walk, unstamped, suspect>>

ServerWrites(p) ==
    /\ "file" \in KindsOf[p]
    /\ Change(p, Node("file", writes + 1, SizeOf[writes + 1], clock + Gap))

ServerLinks(p) ==
    /\ "link" \in KindsOf[p]
    /\ \E t \in Paths \ {p} : Change(p, Node("link", t, LinkSize, clock + Gap))

ServerMakesDir(p) ==
    /\ "dir" \in KindsOf[p]
    /\ ~Exists(p)
    /\ Change(p, Folder)

ServerRemoves(p) == Exists(p) /\ Change(p, Absent)
-------------------------------------------------------------------------------------
(* sync and sync_dir.                                                                *)

Begin ==
    /\ pc \in Stopped
    /\ syncs < MaxSyncs
    /\ syncs' = syncs + 1
    /\ dry' \in BOOLEAN
    /\ listing' = Root
    /\ todo' = <<>>
    /\ expected' = {}
    /\ pc' = "list"
    /\ changed' = {}
    /\ missing' = {p \in Paths : ~Exists(p)}
    /\ suspect' = unstamped
    /\ UNCHANGED <<server, tree, item, got, unstamped>>

\* read_dir.  The directory may be gone since its own entry was listed.
ListDir ==
    /\ pc = "list"
    /\ IF listing # Root /\ remote[listing].kind # "dir"
       THEN pc' = "failed" /\ UNCHANGED todo
       ELSE /\ pc' = "walk"
            /\ todo' = Append(todo, {[path |-> p, meta |-> remote[p]] :
                                        p \in {q \in Children(listing) : Exists(q)}})
    /\ UNCHANGED <<server, tree, dry, syncs, listing, item, got, expected, past>>

\* The next entry of the directory on top of the stack, in any order.
TakeEntry(e) ==
    /\ pc = "walk"
    /\ todo # <<>>
    /\ e \in todo[Len(todo)]
    /\ todo' = [todo EXCEPT ![Len(todo)] = @ \ {e}]

SkipFiltered(e) ==
    /\ TakeEntry(e)
    /\ e.path \notin Allowed
    /\ UNCHANGED <<server, tree, pc, dry, syncs, listing, item, got, expected, past>>

\* Mutant: create_dir instead of create_dir_all, which fails on a directory as well.
EnterDir_createDir(e) ==
    /\ TakeEntry(e)
    /\ e.path \in Allowed
    /\ e.meta.kind = "dir"
    /\ expected' = expected \cup {e.path}
    /\ listing' = e.path
    /\ IF ~dry /\ local[e.path].kind # "none"
       THEN pc' = "failed" /\ UNCHANGED local
       ELSE /\ pc' = "list"
            /\ local' = IF dry THEN local ELSE [local EXCEPT ![e.path] = Folder]
    /\ UNCHANGED <<server, parts, dry, syncs, item, got, past>>

\* create_dir_all fails on a local file.
EnterDir(e) ==
    /\ TakeEntry(e)
    /\ e.path \in Allowed
    /\ e.meta.kind = "dir"
    /\ expected' = expected \cup {e.path}
    /\ listing' = e.path
    /\ IF ~dry /\ local[e.path].kind \notin {"none", "dir"}
       THEN pc' = "failed" /\ UNCHANGED local
       ELSE /\ pc' = "list"
            /\ local' = IF dry THEN local ELSE [local EXCEPT ![e.path] = Folder]
    /\ UNCHANGED <<server, parts, dry, syncs, item, got, past>>

\* download_symlink: read_link as it is now.  A local file or link gives way; a local
\* directory stays, with a warning.
MakeLink(e) ==
    /\ TakeEntry(e)
    /\ e.path \in Allowed
    /\ e.meta.kind = "link" /\ ~Follow
    /\ IF remote[e.path].kind # "link"
       THEN pc' = "failed" /\ UNCHANGED <<local, expected>>
       ELSE /\ expected' = expected \cup {e.path}
            /\ local' = IF dry \/ local[e.path].kind = "dir" THEN local
                        ELSE [local EXCEPT ![e.path] = Node("link", remote[e.path].data, 0, 0)]
            /\ UNCHANGED pc
    /\ UNCHANGED <<server, parts, dry, syncs, listing, item, got, past>>

IsFile(e) == e.path \in Allowed /\ (e.meta.kind = "file" \/ (e.meta.kind = "link" /\ Follow))

\* Mutant: `diff <= 2`.
Close_twoSeconds(s, t) == s - t \in -2 .. 2

\* Less than two seconds apart.
Close(s, t) == s - t \in -1 .. 1

\* local_is_current: by size and time only, and through a local link.
LocalIsCurrent(e) ==
    LET here == local[e.path]
        node == IF here.kind = "link" THEN local[here.data] ELSE here
    IN  node.kind = "file" /\ node.size = e.meta.size /\ Close(node.mtime, e.meta.mtime)

\* Mutant: a file that needs no download is not noted in `expected`.
SkipFile_notExpected(e) ==
    /\ TakeEntry(e)
    /\ IsFile(e)
    /\ e.meta.size > MaxSize \/ LocalIsCurrent(e) \/ dry
    /\ UNCHANGED <<server, tree, pc, dry, syncs, listing, item, got, expected, past>>

SkipFile(e) ==
    /\ TakeEntry(e)
    /\ IsFile(e)
    /\ e.meta.size > MaxSize \/ LocalIsCurrent(e) \/ dry
    /\ expected' = expected \cup {e.path}
    /\ UNCHANGED <<server, tree, pc, dry, syncs, listing, item, got, past>>

Content(p) == IF remote[p].kind = "link" THEN remote[remote[p].data] ELSE remote[p]

\* download_file opens the remote file, then creates the part file.
OpenFile(e) ==
    /\ TakeEntry(e)
    /\ IsFile(e)
    /\ ~(e.meta.size > MaxSize \/ LocalIsCurrent(e) \/ dry)
    /\ expected' = expected \cup {e.path}
    /\ IF Content(e.path).kind # "file"
       THEN pc' = "failed" /\ UNCHANGED <<item, got, parts>>
       ELSE /\ pc' = "copy"
            /\ item' = e
            /\ got' = Content(e.path).data
            /\ parts' = parts \cup {e.path}
    /\ UNCHANGED <<server, local, dry, syncs, listing, past>>

\* What a read from open to end of file can return: the server may have put a new file
\* in place, or overwritten the one that is being read.
Reads ==
    LET now == Content(item.path) IN
    {[data |-> got, size |-> SizeOf[got]]} \cup
        IF now.kind = "file" /\ now.data # got
        THEN {[data |-> now.data, size |-> now.size], [data |-> Other, size |-> now.size]}
        ELSE {}

\* The copy ends, and the part file is renamed over the file.  Its modification time
\* is the local time.
RenamePart ==
    /\ pc = "copy"
    /\ IF local[item.path].kind = "dir"
       THEN pc' = "failed" /\ UNCHANGED <<tree, unstamped>>
       ELSE /\ pc' = "stamp"
            /\ \E r \in Reads :
                local' = [local EXCEPT ![item.path] = Node("file", r.data, r.size, clock)]
            /\ parts' = parts \ {item.path}
            /\ unstamped' = unstamped \cup {item.path}
    /\ UNCHANGED <<server, walk, changed, missing, suspect>>

\* apply_times: the time that the listing gave.
StampFile ==
    /\ pc = "stamp"
    /\ local' = [local EXCEPT ![item.path].mtime = item.meta.mtime]
    /\ unstamped' = unstamped \ {item.path}
    /\ pc' = "walk"
    /\ UNCHANGED <<server, parts, walk, changed, missing, suspect>>

LeaveDir ==
    /\ pc = "walk"
    /\ todo # <<>> /\ todo[Len(todo)] = {}
    /\ todo' = SubSeq(todo, 1, Len(todo) - 1)
    /\ pc' = IF todo' # <<>> THEN "walk" ELSE IF Delete /\ ~dry THEN "delete" ELSE "done"
    /\ UNCHANGED <<server, tree, dry, syncs, listing, item, got, expected, past>>
-------------------------------------------------------------------------------------
(* delete_extra: what no listing accounts for, part files too; children first.       *)

Extra == {p \in Paths : local[p].kind # "none" /\ p \notin expected}

\* Mutant: parents first.
DeleteExtra_parentsFirst(p) ==
    /\ pc = "delete"
    /\ p \in Extra
    /\ local' = [local EXCEPT ![p] = Absent]
    /\ UNCHANGED <<server, parts, pc, walk, past>>

DeleteExtra(p) ==
    /\ pc = "delete"
    /\ p \in Extra \cup parts
    /\ IF p \in parts
       THEN parts' = parts \ {p} /\ UNCHANGED local
       ELSE /\ \A q \in Children(p) : local[q].kind = "none" /\ q \notin parts
            /\ local' = [local EXCEPT ![p] = Absent]
            /\ UNCHANGED parts
    /\ UNCHANGED <<server, pc, walk, past>>

EndDelete ==
    /\ pc = "delete"
    /\ Extra = {} /\ parts = {}
    /\ pc' = "done"
    /\ UNCHANGED <<server, tree, walk, past>>

\* The connection or the program breaks off.
Kill ==
    /\ pc \notin Stopped
    /\ pc' = "killed"
    /\ UNCHANGED <<server, tree, walk, past>>

Next ==
    \/ \E p \in Paths : ServerWrites(p) \/ ServerLinks(p) \/ ServerMakesDir(p) \/ ServerRemoves(p)
    \/ Begin \/ ListDir \/ LeaveDir \/ RenamePart \/ StampFile
    \/ todo # <<>> /\ \E e \in todo[Len(todo)] :
        SkipFiltered(e) \/ EnterDir(e) \/ MakeLink(e) \/ SkipFile(e) \/ OpenFile(e)
    \/ \E p \in Paths : DeleteExtra(p)
    \/ EndDelete \/ Kill

Spec == Init /\ [][Next]_vars
-------------------------------------------------------------------------------------
Contents == 0 .. MaxWrites
Nodes == [kind : {"none", "file", "dir", "link"}, data : Contents \cup Paths,
          size : Nat, mtime : Nat]

TypeOK ==
    /\ remote \in [Paths -> Nodes]
    /\ local \in [Paths -> Nodes]
    /\ parts \subseteq Paths
    /\ pc \in {"list", "walk", "copy", "stamp", "delete"} \cup Stopped
    /\ listing \in Paths \cup {Root}
    /\ todo \in Seq(SUBSET [path : Paths, meta : Nodes])
    /\ item.meta \in Nodes
    /\ got \in Contents
    /\ expected \subseteq Paths
    /\ pc = "walk" => todo # <<>>
    /\ pc \in {"delete", "done"} => todo = <<>>
    /\ \A p \in Paths : local[p].kind # "none" => ParentOf[p] = Root \/ local[ParentOf[p]].kind = "dir"

\* A local directory in the place of a link stays, with a warning (sync.rs:315).
Agrees(p) ==
    CASE remote[p].kind = "file" ->
            \/ local[p].kind = "file" /\ local[p].data = remote[p].data
            \/ remote[p].size > MaxSize
      [] remote[p].kind = "link" ->
            \/ local[p].kind = "link" /\ local[p].data = remote[p].data
            \/ local[p].kind = "dir"
      [] remote[p].kind = "dir"  -> local[p].kind = "dir"
      [] OTHER -> Delete => local[p].kind = "none"

\* Paths that the patterns let through, with every directory above them.
Reached == UNION {S \in SUBSET Allowed : \A p \in S : ParentOf[p] \in S \cup {Root}}

Synced == pc = "done" /\ ~dry

\* After a sync that succeeds, everything that the server did not change meanwhile is
\* the same on both sides: what the server did change while an earlier sync was reading
\* it, and what an earlier sync left half done, has been noticed by its size or time.
\* Not for a file that a killed sync has renamed but not stamped (sync.rs:254): it
\* has the time of the download, which may be that of a later change.
UpToDate ==
    Synced /\ suspect = {} => \A p \in Reached \ changed : Agrees(p)

Deleted(p) == local[p].kind = "file" /\ local'[p].kind = "none"

\* A sync that deletes removes a file that the patterns let through only if the server
\* did not have it at some moment of that same sync, however files move on the server
\* while the directories are listed one after the other.
KeepsWhatIsThere == [][\A p \in Reached : Deleted(p) => p \in missing]_vars

\* A directory stands where the other side has a file or a link.
Clash(p) == Exists(p) /\ local[p].kind # "none" /\ ((local[p].kind = "dir") # (remote[p].kind = "dir"))

\* A sync that nothing disturbs succeeds, whatever earlier ones that broke off left
\* behind, unless a file became a directory or the reverse (dsl.md:243, "Follow
\* symlinks instead of recreating them", promises it for links as well, but a link to
\* a directory is opened as a file then, sync.rs:241).
UndisturbedSucceeds == pc = "failed" => changed # {} \/ \E p \in Paths : Clash(p)
=====================================================================================
