-------------------------------- MODULE DumpTransfer --------------------------------
(***********************************************************************************)
(* How the bytes of one dump travel: db::dump_remote has the server's shell write the *)
(* dump to a file of fixed name; db::fetch_dump and Ssh::download copy that file over *)
(* SFTP to <name>.part and rename it.  All runs of a project use the same remote     *)
(* file, whatever machine they run on, and all runs on one machine the same .part.   *)
(*                                                                                   *)
(* Files are inodes with contents and paths are links to inodes, because that decides *)
(* who reads what: `rm -f` unlinks, `>` truncates the inode that is linked, and an   *)
(* open handle outlives both.  An inode is named by the run that creates it, a chunk  *)
(* of a dump by the run whose dump it is part of.                                    *)
(***********************************************************************************)
EXTENDS Integers, Sequences, SequencesExt

CONSTANTS
    Runs,        \* invocations of `cloner`; each runs once
    RemotePaths, \* files <remote dump path>/<dump name> on the server
    Places,      \* directories on local machines that dumps are downloaded to
    RemoteOf,    \* RemoteOf[r]: the remote file of run r
    PlaceOf,     \* PlaceOf[r]: the local directory of run r
    SizeOf,      \* SizeOf[r]: the chunks in the dump of run r
    Overlap,     \* may a run start before the earlier ones on its machine have ended?
    Orphans,     \* does the remote command survive the end of its SSH session?
    None,        \* no inode
    Hole         \* bytes of a file that nobody has written

ASSUME PathsAssumption == /\ RemoteOf \in [Runs -> RemotePaths]
                          /\ PlaceOf \in [Runs -> Places]
ASSUME SizeAssumption == SizeOf \in [Runs -> Nat \ {0}]
ASSUME OverlapAssumption == Overlap \in BOOLEAN /\ Orphans \in BOOLEAN
ASSUME InodeAssumption == None \notin Runs /\ Hole \notin Runs

VARIABLES
    remoteLink,  \* remoteLink[f]: the inode at a remote path
    remoteData,  \* contents of the inodes on the server
    shell,       \* control state of the remote command of each run
    redirect,    \* the inode that its `> file` has open
    written,     \* chunks it has written
    partLink,    \* partLink[l]: the inode at <name>.part
    fileLink,    \* fileLink[l]: the inode at <name>
    localData,   \* contents of the inodes on the local machines
    client,      \* control state of each run
    source,      \* the remote inode that its SFTP handle has open
    sink,        \* the local inode it copies to
    copied,      \* chunks it has copied
    older        \* history: the dumps already begun when the run began

server   == <<remoteLink, remoteData, shell, redirect, written>>
disk     == <<partLink, fileLink, localData>>
handles  == <<source, sink, copied>>
transfer == <<server, disk, client, handles, older>>

TransferInit ==
    /\ remoteLink = [f \in RemotePaths |-> None]
    /\ remoteData = [r \in Runs |-> <<>>]
    /\ shell = [r \in Runs |-> "none"]
    /\ redirect = [r \in Runs |-> None]
    /\ written = [r \in Runs |-> 0]
    /\ partLink = [l \in Places |-> None]
    /\ fileLink = [l \in Places |-> None]
    /\ localData = [r \in Runs |-> <<>>]
    /\ client = [r \in Runs |-> "idle"]
    /\ source = [r \in Runs |-> None]
    /\ sink = [r \in Runs |-> None]
    /\ copied = [r \in Runs |-> 0]
    /\ older = [r \in Runs |-> {}]

Whole(r) == [i \in 1 .. SizeOf[r] |-> r]

\* write(2) at an offset: what lies between the old end of the file and it is a hole.
WriteAt(contents, offset, chunk) ==
    [i \in 1 .. (IF offset > Len(contents) THEN offset ELSE Len(contents)) |->
        IF i = offset THEN chunk ELSE IF i <= Len(contents) THEN contents[i] ELSE Hole]

ShellAt(r, where)  == shell' = [shell EXCEPT ![r] = where]
ClientAt(r, where) == client' = [client EXCEPT ![r] = where]

Over == {"done", "failed", "stopped"}
Idle == {q \in Runs : client[q] \in {"idle"} \cup Over}
-------------------------------------------------------------------------------------
(* dump_remote: one `&&` chain, executed by the remote shell.                        *)

Begin(r, first) ==
    /\ client[r] = "idle"
    /\ Overlap \/ \A q \in Runs : PlaceOf[q] = PlaceOf[r] => q \in Idle
    /\ ClientAt(r, "dump")
    /\ ShellAt(r, first)
    /\ older' = [older EXCEPT ![r] = {q \in Runs : redirect[q] # None}]
    /\ UNCHANGED <<remoteLink, remoteData, redirect, written, disk, handles>>

\* Mutant: without `rm -f`, as `>` truncates the file anyway.
StartDump_withoutRemove(r) == Begin(r, "open")

StartDump(r) == Begin(r, "remove")

\* rm -f <file>
RemoveOldDump(r) ==
    /\ shell[r] = "remove"
    /\ remoteLink' = [remoteLink EXCEPT ![RemoteOf[r]] = None]
    /\ ShellAt(r, "open")
    /\ UNCHANGED <<remoteData, redirect, written, disk, client, handles, older>>

\* ( ... ) > <file>
OpenRedirect(r) ==
    /\ shell[r] = "open"
    /\ LET old == remoteLink[RemoteOf[r]]
           inode == IF old = None THEN r ELSE old
       IN  /\ remoteLink' = [remoteLink EXCEPT ![RemoteOf[r]] = inode]
           /\ remoteData' = [remoteData EXCEPT ![inode] = <<>>]
           /\ redirect' = [redirect EXCEPT ![r] = inode]
    /\ ShellAt(r, "write")
    /\ UNCHANGED <<written, disk, client, handles, older>>

WriteDump(r) ==
    /\ shell[r] = "write"
    /\ written[r] < SizeOf[r]
    /\ written' = [written EXCEPT ![r] = @ + 1]
    /\ remoteData' = [remoteData EXCEPT ![redirect[r]] = WriteAt(@, written'[r], r)]
    /\ UNCHANGED <<remoteLink, shell, redirect, disk, client, handles, older>>

\* test -s <file> && wc -c < <file>, after the dump command has ended well.
TestDump(r) ==
    /\ shell[r] = "write"
    /\ written[r] = SizeOf[r]
    /\ LET inode == remoteLink[RemoteOf[r]] IN
        ShellAt(r, IF inode # None /\ remoteData[inode] # <<>> THEN "ok" ELSE "error")
    /\ UNCHANGED <<remoteLink, remoteData, redirect, written, disk, client, handles, older>>

\* A command of the chain fails; what has been written stays.
FailDump(r) ==
    /\ shell[r] \in {"remove", "open", "write"}
    /\ ShellAt(r, "error")
    /\ UNCHANGED <<remoteLink, remoteData, redirect, written, disk, client, handles, older>>

\* Mutant: any exit status is taken for success.
FinishDump_ignoresStatus(r) ==
    /\ client[r] = "dump"
    /\ shell[r] \in {"ok", "error"}
    /\ ClientAt(r, "open")
    /\ UNCHANGED <<server, disk, handles, older>>

\* exec_checked: the exit status and a size that is not zero.
FinishDump(r) ==
    /\ client[r] = "dump"
    /\ shell[r] \in {"ok", "error"}
    /\ ClientAt(r, IF shell[r] = "ok" THEN "open" ELSE "failed")
    /\ UNCHANGED <<server, disk, handles, older>>
-------------------------------------------------------------------------------------
(* fetch_dump and Ssh::download.                                                     *)

\* Mutant: a remote file that is missing is not an error.
OpenRemote_unchecked(r) ==
    /\ client[r] = "open"
    /\ source' = [source EXCEPT ![r] = remoteLink[RemoteOf[r]]]
    /\ ClientAt(r, "create")
    /\ UNCHANGED <<server, disk, sink, copied, older>>

\* stat and open.
OpenRemote(r) ==
    /\ client[r] = "open"
    /\ source' = [source EXCEPT ![r] = remoteLink[RemoteOf[r]]]
    /\ ClientAt(r, IF source'[r] = None THEN "failed" ELSE "create")
    /\ UNCHANGED <<server, disk, sink, copied, older>>

PartInode(r) ==
    IF partLink[PlaceOf[r]] = None THEN r ELSE partLink[PlaceOf[r]]

\* Mutant: the part file is opened without truncating it.
CreatePart_keepsOldBytes(r) ==
    /\ client[r] = "create"
    /\ sink' = [sink EXCEPT ![r] = PartInode(r)]
    /\ partLink' = [partLink EXCEPT ![PlaceOf[r]] = PartInode(r)]
    /\ ClientAt(r, "copy")
    /\ UNCHANGED <<server, fileLink, localData, source, copied, older>>

\* File::create creates <name>.part or truncates the one that is there.
CreatePart(r) ==
    /\ client[r] = "create"
    /\ sink' = [sink EXCEPT ![r] = PartInode(r)]
    /\ partLink' = [partLink EXCEPT ![PlaceOf[r]] = PartInode(r)]
    /\ localData' = [localData EXCEPT ![PartInode(r)] = <<>>]
    /\ ClientAt(r, "copy")
    /\ UNCHANGED <<server, fileLink, source, copied, older>>

Left(r) == copied[r] < Len(remoteData[source[r]])

CopyChunk(r) ==
    /\ client[r] = "copy"
    /\ Left(r)
    /\ copied' = [copied EXCEPT ![r] = @ + 1]
    /\ localData' = [localData EXCEPT ![sink[r]] =
                        WriteAt(@, copied'[r], remoteData[source[r]][copied'[r]])]
    /\ UNCHANGED <<server, partLink, fileLink, client, source, sink, older>>

\* At the end of the remote file, as long as it is now, <name>.part becomes <name>.
RenamePart(r) ==
    /\ client[r] = "copy"
    /\ ~Left(r)
    /\ LET l == PlaceOf[r] IN
        IF partLink[l] = None
        THEN ClientAt(r, "failed") /\ UNCHANGED disk
        ELSE /\ fileLink' = [fileLink EXCEPT ![l] = partLink[l]]
             /\ partLink' = [partLink EXCEPT ![l] = None]
             /\ ClientAt(r, "fetched")
             /\ UNCHANGED localData
    /\ UNCHANGED <<server, handles, older>>

\* The program is stopped, or a step of it fails for a reason of its own (disk,
\* connection, signal).  The server notices or does not.
StopClient(r) ==
    /\ r \notin Idle
    /\ ClientAt(r, "stopped")
    /\ IF Orphans THEN UNCHANGED shell
       ELSE ShellAt(r, IF shell[r] = "ok" THEN "ok" ELSE "error")
    /\ UNCHANGED <<remoteLink, remoteData, redirect, written, disk, handles, older>>

ShellStep(r) == RemoveOldDump(r) \/ OpenRedirect(r) \/ WriteDump(r) \/ TestDump(r)

TransferStep(r) ==
    StartDump(r) \/ FinishDump(r) \/ OpenRemote(r) \/ CreatePart(r) \/ CopyChunk(r)
        \/ RenamePart(r)
-------------------------------------------------------------------------------------
Chunks == Runs \cup {Hole}

TransferTypeOK ==
    /\ remoteLink \in [RemotePaths -> Runs \cup {None}]
    /\ remoteData \in [Runs -> Seq(Chunks)]
    /\ shell \in [Runs -> {"none", "remove", "open", "write", "ok", "error"}]
    /\ redirect \in [Runs -> Runs \cup {None}]
    /\ written \in [Runs -> Nat] /\ \A r \in Runs : written[r] <= SizeOf[r]
    /\ partLink \in [Places -> Runs \cup {None}]
    /\ fileLink \in [Places -> Runs \cup {None}]
    /\ localData \in [Runs -> Seq(Chunks)]
    /\ source \in [Runs -> Runs \cup {None}]
    /\ sink \in [Runs -> Runs \cup {None}]
    /\ copied \in [Runs -> Nat]
    /\ older \in [Runs -> SUBSET Runs]
    /\ \A r \in Runs : client[r] \in {"create", "copy"} => source[r] # None
    /\ \A r \in Runs : client[r] = "copy" => sink[r] # None

\* The file that a run has fetched, as it is on disk.
Fetched(r) == localData[fileLink[PlaceOf[r]]]

\* When two machines clone at once they share the remote dump file, and nothing locks
\* it.  Whatever they take from each other, none of it is older than the run that
\* fetched it: `rm -f` unlinks what earlier dumps may still be writing (db.rs:47).
NoOlderData ==
    \A r \in Runs : client[r] = "fetched" => \A q \in older[r] : ~Contains(Fetched(r), q)

\* <name> is never a part of a dump, a mixture of two or a remainder of an earlier
\* one, whatever runs were killed at whatever point (dependencies-and-design.md:53,
\* "temporary file + atomic rename on download").
FileIsWhole ==
    \A l \in Places : fileLink[l] # None => \E r \in Runs : localData[fileLink[l]] = Whole(r)
=====================================================================================
