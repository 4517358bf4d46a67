----------------------------- MODULE CloneDatabaseProofs -----------------------------
(***********************************************************************************)
(* Theorems about CloneDatabase for any number of runs and machines, dumps of any     *)
(* length and every project.  The first part is about runs that overlap on different   *)
(* machines, with commands on the server that outlive them: the types, and what the    *)
(* file that a run fetches holds.  The second part is about the case that the tool is  *)
(* made for: one clone at a time on a machine, a dump file on the server that no other *)
(* machine uses, and dump commands that end with their session; each run may be        *)
(* stopped anywhere.                                                                 *)
(***********************************************************************************)
EXTENDS CloneDatabase, SequenceTheorems, TLAPS

BeforePing == {"idle", "dump", "open", "create", "copy", "fetched", "down", "rmvolume", "mkvolume", "up"}

\* A run pings only while it waits, and gives up at the last attempt.
Pinging ==
    /\ \A r \in Runs : client[r] \in BeforePing => pings[r] = 0
    /\ \A r \in Runs : client[r] = "wait" => pings[r] < Attempts

TypeInv == TypeOK /\ Pinging
-------------------------------------------------------------------------------------
(* Files.                                                                            *)

\* Writing one chunk makes a file of chunks, with that chunk at its place.
LEMMA WriteAtProperties ==
    ASSUME NEW s \in Seq(Chunks), NEW k \in Nat \ {0}, NEW c \in Chunks
    PROVE  /\ WriteAt(s, k, c) \in Seq(Chunks)
           /\ Len(WriteAt(s, k, c)) = IF k > Len(s) THEN k ELSE Len(s)
           /\ \A i \in 1 .. Len(WriteAt(s, k, c)) :
                WriteAt(s, k, c)[i] = IF i = k THEN c ELSE IF i <= Len(s) THEN s[i] ELSE Hole
<1> DEFINE n == IF k > Len(s) THEN k ELSE Len(s)
           e(i) == IF i = k THEN c ELSE IF i <= Len(s) THEN s[i] ELSE Hole
<1>1. Len(s) \in Nat /\ n \in Nat
    BY LenProperties
<1>2. \A i \in 1..n : e(i) \in Chunks
    BY <1>1, LenProperties DEF Chunks
<1>3. WriteAt(s, k, c) = [i \in 1..n |-> e(i)]
    BY DEF WriteAt
<1> HIDE DEF n, e
<1>4. [i \in 1..n |-> e(i)] \in Seq(Chunks)
    BY <1>1, <1>2, IsASeq
<1>5. Len([i \in 1..n |-> e(i)]) = n
    BY <1>1, <1>4, LenProperties
<1> QED
    BY <1>3, <1>4, <1>5 DEF n, e

\* A chunk that is there is a chunk.
LEMMA ChunkOf ==
    ASSUME NEW s \in Seq(Chunks), NEW k \in Nat, k < Len(s)
    PROVE  s[k + 1] \in Chunks
    BY LenProperties
-------------------------------------------------------------------------------------
(* Type correctness.                                                                 *)

LEMMA TypeInvInit == Init => TypeInv
<1> SUFFICES ASSUME Init PROVE TypeInv
    OBVIOUS
<1>1. <<>> \in Seq(Chunks)
    OBVIOUS
<1>2. TransferTypeOK
    BY <1>1, SizeAssumption DEF Init, TransferInit, TransferTypeOK
<1>3. [t \in Tables |-> Local] \in Contents
    BY DEF Contents
<1> QED
    BY <1>2, <1>3, AttemptsAssumption, MarksAssumption
    DEF Init, TransferInit, TypeInv, TypeOK, Pinging, BeforePing, Over, Loading, Resetting

ShellStates == {"none", "remove", "open", "write", "ok", "error"}

\* What each variable of the transfer may hold, for use without the rest of TypeInv.
LEMMA TypeFacts ==
    ASSUME TypeInv
    PROVE  /\ remoteLink \in [RemotePaths -> Runs \cup {None}]
           /\ remoteData \in [Runs -> Seq(Chunks)]
           /\ shell \in [Runs -> ShellStates]
           /\ redirect \in [Runs -> Runs \cup {None}]
           /\ written \in [Runs -> Nat] /\ \A q \in Runs : written[q] <= SizeOf[q]
           /\ partLink \in [Places -> Runs \cup {None}]
           /\ fileLink \in [Places -> Runs \cup {None}]
           /\ localData \in [Runs -> Seq(Chunks)]
           /\ source \in [Runs -> Runs \cup {None}]
           /\ sink \in [Runs -> Runs \cup {None}]
           /\ copied \in [Runs -> Nat]
           /\ older \in [Runs -> SUBSET Runs]
           /\ \A q \in Runs : client[q] \in {"create", "copy"} => source[q] \in Runs
           /\ \A q \in Runs : client[q] = "copy" => sink[q] \in Runs
    BY DEF TypeInv, TypeOK, TransferTypeOK, ShellStates

\* A step of the chain on the server.
LEMMA ServerTypes ==
    ASSUME TypeInv, UNCHANGED <<client, disk, handles, older, data>>,
           remoteLink' \in [RemotePaths -> Runs \cup {None}],
           remoteData' \in [Runs -> Seq(Chunks)],
           shell' \in [Runs -> ShellStates],
           redirect' \in [Runs -> Runs \cup {None}],
           written' \in [Runs -> Nat], \A q \in Runs : written'[q] <= SizeOf[q]
    PROVE  TypeInv'
    BY DEF TypeInv, TypeOK, TransferTypeOK, Pinging, disk, handles, data, ShellStates

\* A step of the client that moves it from one state before the restore to another, or
\* ends it.
LEMMA ClientTypes ==
    ASSUME TypeInv, NEW r \in Runs, UNCHANGED data,
           NEW where \in {"dump", "open", "create", "copy", "fetched"} \cup Over,
           client' = [client EXCEPT ![r] = where],
           where \in Over \/ client[r] \in {"idle", "dump", "open", "create", "copy"},
           UNCHANGED <<remoteLink, remoteData, redirect, written>>,
           shell' \in [Runs -> ShellStates], older' \in [Runs -> SUBSET Runs],
           partLink' \in [Places -> Runs \cup {None}],
           fileLink' \in [Places -> Runs \cup {None}],
           \A l \in Places : fileLink[l] # None => fileLink'[l] # None,
           localData' \in [Runs -> Seq(Chunks)], copied' \in [Runs -> Nat],
           source' \in [Runs -> Runs \cup {None}], sink' \in [Runs -> Runs \cup {None}],
           \A q \in Runs \ {r} : source'[q] = source[q] /\ sink'[q] = sink[q],
           where \in {"create", "copy"} => source'[r] # None,
           where = "copy" => sink'[r] # None,
           where = "fetched" => fileLink'[PlaceOf[r]] # None
    PROVE  TypeInv'
<1> USE PathsAssumption DEF TypeInv
<1>1. TransferTypeOK'
    <2>1. /\ \A q \in Runs \ {r} : client'[q] = client[q]
          /\ client'[r] = where
        BY DEF TypeOK
    <2>2. \A q \in Runs : client'[q] \in {"create", "copy"} => source'[q] # None
        BY <2>1 DEF TypeOK, TransferTypeOK
    <2>3. \A q \in Runs : client'[q] = "copy" => sink'[q] # None
        BY <2>1 DEF TypeOK, TransferTypeOK
    <2> QED
        BY <2>2, <2>3 DEF TypeOK, TransferTypeOK, ShellStates
<1>2. TypeOK'
    <2>1. /\ \A q \in Runs \ {r} : client'[q] = client[q]
          /\ client'[r] = where /\ where \notin Loading \cup Resetting
        BY DEF TypeOK, Loading, Resetting, Over
    <2>2. client' \in [Runs -> {"idle", "dump", "open", "create", "copy", "fetched"}
                                \cup Resetting \cup Loading \cup Over]
        BY DEF TypeOK
    <2>3. \A q \in Runs : client'[q] \in {"fetched"} \cup Loading \cup Resetting =>
                                fileLink'[PlaceOf[q]] # None
        BY <2>1 DEF TypeOK
    <2>4. \A q \in Runs : client'[q] = "pipe" => input'[q] # None
        BY <2>1 DEF TypeOK, data, Loading
    <2> QED
        BY <1>1, <2>2, <2>3, <2>4 DEF TypeOK, data
<1>3. Pinging'
    BY DEF TypeOK, Pinging, BeforePing, data, Over
<1> QED
    BY <1>2, <1>3

\* The steps of dump_remote and fetch_dump.
LEMMA TransferTypes ==
    ASSUME TypeInv, NEW r \in Runs, UNCHANGED data,
           TransferStep(r) \/ ShellStep(r) \/ FailDump(r) \/ StopClient(r)
    PROVE  TypeInv'
<1> USE PathsAssumption, SizeAssumption, InodeAssumption, TypeFacts
    DEF server, disk, handles, ClientAt, ShellAt
<1>0. /\ client \in [Runs -> {"idle", "dump", "open", "create", "copy", "fetched"}
                             \cup Resetting \cup Loading \cup Over]
      /\ <<>> \in Seq(Chunks)
    BY DEF TypeInv, TypeOK
<1> DEFINE Moves(where) ==
        /\ client' = [client EXCEPT ![r] = where]
        /\ UNCHANGED <<remoteLink, remoteData, redirect, written>>
<1>1. CASE StartDump(r)
    <2>1. /\ Moves("dump") /\ shell' = [shell EXCEPT ![r] = "remove"] /\ client[r] = "idle"
          /\ older' = [older EXCEPT ![r] = {q \in Runs : redirect[q] # None}]
          /\ UNCHANGED <<disk, handles>>
        BY <1>1 DEF StartDump, Begin
    <2>2. shell' \in [Runs -> ShellStates] /\ older' \in [Runs -> SUBSET Runs]
        BY <2>1 DEF ShellStates
    <2> QED
        BY <2>1, <2>2, ClientTypes
<1>2. CASE RemoveOldDump(r) \/ TestDump(r) \/ FailDump(r)
    <2>1. /\ UNCHANGED <<remoteData, redirect, written, client, disk, handles, older>>
          /\ \/ remoteLink' = remoteLink
             \/ remoteLink' = [remoteLink EXCEPT ![RemoteOf[r]] = None]
          /\ \/ shell' = [shell EXCEPT ![r] = "open"]
             \/ shell' = [shell EXCEPT ![r] = "ok"]
             \/ shell' = [shell EXCEPT ![r] = "error"]
        BY <1>2 DEF RemoveOldDump, TestDump, FailDump
    <2> QED
        BY <2>1, ServerTypes DEF ShellStates
<1>3. CASE OpenRedirect(r)
    <2>1. PICK inode \in Runs :
            /\ remoteLink' = [remoteLink EXCEPT ![RemoteOf[r]] = inode]
            /\ remoteData' = [remoteData EXCEPT ![inode] = <<>>]
            /\ redirect' = [redirect EXCEPT ![r] = inode]
        BY <1>3 DEF OpenRedirect
    <2>2. /\ shell' = [shell EXCEPT ![r] = "write"]
          /\ UNCHANGED <<written, client, disk, handles, older>>
        BY <1>3 DEF OpenRedirect
    <2> QED
        BY <1>0, <2>1, <2>2, ServerTypes DEF ShellStates
<1>4. CASE WriteDump(r)
    <2>1. /\ written[r] < SizeOf[r]
          /\ written' = [written EXCEPT ![r] = written[r] + 1]
          /\ remoteData' = [remoteData EXCEPT ![redirect[r]] =
                                WriteAt(remoteData[redirect[r]], written[r] + 1, r)]
          /\ UNCHANGED <<remoteLink, shell, redirect, disk, client, handles, older>>
        BY <1>4 DEF WriteDump
    <2>2. remoteData' \in [Runs -> Seq(Chunks)]
        <3>1. CASE redirect[r] \in Runs
            <4>1. remoteData[redirect[r]] \in Seq(Chunks) /\ r \in Chunks
                  /\ written[r] + 1 \in Nat \ {0}
                BY <3>1 DEF Chunks
            <4>2. WriteAt(remoteData[redirect[r]], written[r] + 1, r) \in Seq(Chunks)
                BY ONLY <4>1, WriteAtProperties
            <4> QED
                BY <2>1, <4>2
        <3>2. CASE redirect[r] \notin Runs
            BY <2>1, <3>2
        <3> QED
            BY <3>1, <3>2
    <2>3. written' \in [Runs -> Nat] /\ \A q \in Runs : written'[q] <= SizeOf[q]
        BY <2>1
    <2> QED
        BY <2>1, <2>2, <2>3, ServerTypes
<1>5. CASE FinishDump(r)
    <2>1. /\ client[r] = "dump"
          /\ \E where \in {"open", "failed"} : Moves(where)
          /\ UNCHANGED <<shell, disk, handles, older>>
        BY <1>5 DEF FinishDump
    <2> QED
        BY <2>1, ClientTypes DEF Over
<1>6. CASE OpenRemote(r)
    <2>1. /\ client[r] = "open"
          /\ source' = [source EXCEPT ![r] = remoteLink[RemoteOf[r]]]
          /\ Moves("failed") \/ (Moves("create") /\ source'[r] # None)
          /\ UNCHANGED <<shell, disk, sink, copied, older>>
        BY <1>6 DEF OpenRemote
    <2> QED
        BY <2>1, ClientTypes DEF Over
<1>7. CASE CreatePart(r)
    <2>1. PICK inode \in Runs :
            /\ sink' = [sink EXCEPT ![r] = inode]
            /\ partLink' = [partLink EXCEPT ![PlaceOf[r]] = inode]
            /\ localData' = [localData EXCEPT ![inode] = <<>>]
        BY <1>7 DEF CreatePart, PartInode
    <2>2. /\ client[r] = "create" /\ Moves("copy")
          /\ UNCHANGED <<shell, fileLink, source, copied, older>>
        BY <1>7 DEF CreatePart
    <2>3. /\ sink' \in [Runs -> Runs \cup {None}] /\ sink'[r] # None
          /\ partLink' \in [Places -> Runs \cup {None}]
          /\ localData' \in [Runs -> Seq(Chunks)]
          /\ \A q \in Runs \ {r} : sink'[q] = sink[q]
          /\ source'[r] # None
        <3>1. sink' \in [Runs -> Runs \cup {None}] /\ sink'[r] # None /\ \A q \in Runs \ {r} : sink'[q] = sink[q]
            BY <1>0, <2>1
        <3>2. partLink' \in [Places -> Runs \cup {None}]
            BY <2>1
        <3>3. localData' \in [Runs -> Seq(Chunks)]
            BY <2>1
        <3>4. source'[r] # None
            BY <2>2
        <3> QED
            BY <3>1, <3>2, <3>3, <3>4
    <2> QED
        BY <2>2, <2>3, ClientTypes
<1>8. CASE CopyChunk(r)
    <2>1. /\ client[r] = "copy" /\ sink[r] \in Runs /\ source[r] \in Runs
          /\ copied[r] < Len(remoteData[source[r]])
          /\ copied' = [copied EXCEPT ![r] = copied[r] + 1]
          /\ localData' = [localData EXCEPT ![sink[r]] =
                WriteAt(localData[sink[r]], copied[r] + 1, remoteData[source[r]][copied[r] + 1])]
          /\ UNCHANGED <<server, partLink, fileLink, client, source, sink, older>>
        BY <1>8 DEF CopyChunk, Left
    <2>2. remoteData[source[r]][copied[r] + 1] \in Chunks
        BY <2>1, ChunkOf
    <2>3. localData[sink[r]] \in Seq(Chunks) /\ copied[r] + 1 \in Nat \ {0}
        <3>1. localData[sink[r]] \in Seq(Chunks)
            BY <2>1
        <3>2. copied[r] \in Nat
            OBVIOUS
        <3> QED
            BY <3>1, <3>2
    <2>4. WriteAt(localData[sink[r]], copied[r] + 1, remoteData[source[r]][copied[r] + 1]) \in Seq(Chunks)
        BY ONLY <2>2, <2>3, WriteAtProperties
    <2>5. localData' \in [Runs -> Seq(Chunks)] /\ copied' \in [Runs -> Nat]
        <3>1. localData' \in [Runs -> Seq(Chunks)]
            BY <2>1, <2>4
        <3>2. copied \in [Runs -> Nat] /\ copied[r] + 1 \in Nat
            BY <2>3
        <3>3. copied' \in [Runs -> Nat]
            BY <2>1, <3>2
        <3> QED
            BY <3>1, <3>3
    <2>6. client' = [client EXCEPT ![r] = "copy"]
        BY <1>0, <2>1
    <2> QED
        BY <2>1, <2>5, <2>6, ClientTypes
<1>9. CASE RenamePart(r)
    <2>1. client[r] = "copy" /\ UNCHANGED <<shell, handles, older>>
        BY <1>9 DEF RenamePart
    <2>2. CASE partLink[PlaceOf[r]] = None
        <3>1. Moves("failed") /\ UNCHANGED disk
            BY <1>9, <2>2 DEF RenamePart
        <3> QED
            BY <2>1, <3>1, ClientTypes DEF Over
    <2>3. CASE partLink[PlaceOf[r]] # None
        <3>1. /\ fileLink' = [fileLink EXCEPT ![PlaceOf[r]] = partLink[PlaceOf[r]]]
              /\ partLink' = [partLink EXCEPT ![PlaceOf[r]] = None]
              /\ Moves("fetched") /\ UNCHANGED localData
            BY <1>9, <2>3 DEF RenamePart
        <3>2. /\ fileLink' \in [Places -> Runs \cup {None}]
              /\ partLink' \in [Places -> Runs \cup {None}]
              /\ \A l \in Places : fileLink[l] # None => fileLink'[l] # None
              /\ fileLink'[PlaceOf[r]] # None
            BY <2>3, <3>1
        <3> QED
            BY <2>1, <3>1, <3>2, ClientTypes
    <2> QED
        BY <2>2, <2>3
<1>10. CASE StopClient(r)
    <2>1. /\ Moves("stopped") /\ UNCHANGED <<disk, handles, older>>
          /\ \/ shell' = shell
             \/ shell' = [shell EXCEPT ![r] = "ok"]
             \/ shell' = [shell EXCEPT ![r] = "error"]
        BY <1>10 DEF StopClient
    <2>2. shell' \in [Runs -> ShellStates]
        BY <2>1 DEF ShellStates
    <2> QED
        BY <2>1, <2>2, ClientTypes DEF Over
<1> QED
    BY <1>1, <1>2, <1>3, <1>4, <1>5, <1>6, <1>7, <1>8, <1>9, <1>10
    DEF TransferStep, ShellStep

\* A step of reset_local that leaves the files alone.
LEMMA ResetTypes ==
    ASSUME TypeInv, NEW r \in Runs,
           NEW where \in Resetting \cup Loading \cup Over, where # "pipe",
           \/ client[r] \in {"fetched", "down", "rmvolume", "mkvolume", "up"}
           \/ client[r] \in {"drop", "create_db"} /\ where \in {"create_db", "load", "failed"},
           client' = [client EXCEPT ![r] = where],
           UNCHANGED <<server, disk, handles, older, project, pings, input, piped>>,
           engine' \in [Places -> {"down", "starting", "ready"}],
           database' \in [Places -> Contents \cup {Missing, None}],
           \A l \in Places : engine'[l] # "down" => database'[l] # None
    PROVE  TypeInv'
<1> USE PathsAssumption, AttemptsAssumption DEF TypeInv
<1>0. \A q \in Runs : client'[q] \in {"create", "copy"} => client[q] = client'[q]
    BY DEF TypeOK, TransferTypeOK, Resetting, Loading, Over
<1>1. TransferTypeOK'
    BY <1>0 DEF TypeOK, TransferTypeOK, server, disk, handles
<1>2. client' \in [Runs -> {"idle", "dump", "open", "create", "copy", "fetched"}
                            \cup Resetting \cup Loading \cup Over]
    BY DEF TypeOK
<1>3. fileLink[PlaceOf[r]] # None
    BY DEF TypeOK, Resetting
<1>4. \A q \in Runs : client'[q] \in {"fetched"} \cup Loading \cup Resetting =>
                            fileLink'[PlaceOf[q]] # None
    BY <1>3 DEF TypeOK, disk
<1>5. \A q \in Runs : client'[q] = "pipe" => input'[q] # None
    BY DEF TypeOK
<1>6. TypeOK'
    BY <1>1, <1>2, <1>4, <1>5 DEF TypeOK
<1>7. where \in BeforePing \cup {"wait"} => pings[r] = 0
    BY DEF Pinging, BeforePing
<1>8. Pinging'
    BY <1>7 DEF TypeOK, Pinging
<1> QED
    BY <1>6, <1>8

\* The steps of reset_local and restore_local.
LEMMA RestoreTypes ==
    ASSUME TypeInv, NEW r \in Runs,
           \/ Fetch(r) \/ ComposeDown(r) \/ RemoveVolume(r) \/ CreateVolume(r) \/ ComposeUp(r)
           \/ WaitReady(r) \/ Drop(r) \/ Create(r) \/ OpenInput(r) \/ LoadTable(r) \/ EndLoad(r)
    PROVE  TypeInv'
<1> USE PathsAssumption, InodeAssumption, AttemptsAssumption, MarksAssumption
    DEF TypeInv, TypeOK, TransferTypeOK, Pinging, BeforePing, Over, Loading, Resetting,
        server, disk, handles, ClientAt, Move, Becomes, Of, Up, At
<1>0. NoTables \in Contents
    BY DEF NoTables, Contents
<1>1. CASE Fetch(r)
    <2>1. /\ client[r] = "fetched"
          /\ UNCHANGED <<server, disk, handles, older, project, engine, database, pings, input, piped>>
        BY <1>1 DEF Fetch
    <2>2. PICK where \in {"done", "load", "down", "up", "drop"} : client' = [client EXCEPT ![r] = where]
        BY <1>1 DEF Fetch
    <2> QED
        BY <2>1, <2>2, ResetTypes
<1>2. CASE ComposeDown(r)
    <2>1. /\ client[r] = "down" /\ client' = [client EXCEPT ![r] = "rmvolume"]
          /\ engine' = [engine EXCEPT ![PlaceOf[r]] = "down"]
          /\ UNCHANGED <<server, disk, handles, older, project, database, pings, input, piped>>
        BY <1>2 DEF ComposeDown
    <2>2. /\ engine' \in [Places -> {"down", "starting", "ready"}]
          /\ \A l \in Places : engine'[l] # "down" => database'[l] # None
        BY <2>1
    <2> QED
        BY <2>1, <2>2, ResetTypes
<1>3. CASE RemoveVolume(r)
    <2>1. /\ client[r] = "rmvolume"
          /\ UNCHANGED <<server, disk, handles, older, project, engine, pings, input, piped>>
        BY <1>3 DEF RemoveVolume
    <2>2. PICK where \in {"mkvolume", "failed"} : client' = [client EXCEPT ![r] = where]
        BY <1>3 DEF RemoveVolume
    <2>3. PICK what \in Contents \cup {Missing, None} :
            /\ database' = [database EXCEPT ![PlaceOf[r]] = what]
            /\ engine[PlaceOf[r]] = "down" \/ what = database[PlaceOf[r]]
        BY <1>3 DEF RemoveVolume
    <2>4. database' \in [Places -> Contents \cup {Missing, None}]
        BY <2>3
    <2>5. \A l \in Places : engine'[l] # "down" => database'[l] # None
        BY <2>1, <2>3
    <2> QED
        BY <2>1, <2>2, <2>4, <2>5, ResetTypes
<1>4. CASE CreateVolume(r)
    <2>1. /\ client[r] = "mkvolume" /\ client' = [client EXCEPT ![r] = "up"]
          /\ UNCHANGED <<server, disk, handles, older, project, engine, pings, input, piped>>
        BY <1>4 DEF CreateVolume
    <2>2. PICK what \in Contents \cup {Missing} : database' = [database EXCEPT ![PlaceOf[r]] = what]
        BY <1>0, <1>4 DEF CreateVolume
    <2>3. None \notin Contents \cup {Missing}
        BY <2>2 DEF Contents
    <2>4. database' \in [Places -> Contents \cup {Missing, None}]
        BY <2>2
    <2>5. \A l \in Places : engine'[l] # "down" => database'[l] # None
        BY <2>1, <2>2, <2>3
    <2> QED
        BY <2>1, <2>4, <2>5, ResetTypes
<1>5. CASE ComposeUp(r)
    <2>1. /\ client[r] = "up" /\ client' = [client EXCEPT ![r] = "wait"]
          /\ UNCHANGED <<server, disk, handles, older, project, pings, input, piped>>
        BY <1>5 DEF ComposeUp
    <2>2. PICK state \in {"starting", "ready"} : engine' = [engine EXCEPT ![PlaceOf[r]] = state]
        BY <1>5 DEF ComposeUp
    <2>3. PICK what \in Contents \cup {Missing} : database' = [database EXCEPT ![PlaceOf[r]] = what]
        BY <1>0, <1>5 DEF ComposeUp
    <2>4. None \notin Contents \cup {Missing}
        BY <2>3 DEF Contents
    <2>5. /\ database' \in [Places -> Contents \cup {Missing, None}]
          /\ engine' \in [Places -> {"down", "starting", "ready"}]
        BY <2>2, <2>3
    <2>6. \A l \in Places : engine'[l] # "down" => database'[l] # None
        BY <2>2, <2>3, <2>4
    <2> QED
        BY <2>1, <2>5, <2>6, ResetTypes
<1>6. CASE WaitReady(r)
    <2>1. PICK where \in {"failed", "load", "drop", "wait"} :
            /\ client[r] = "wait" /\ client' = [client EXCEPT ![r] = where]
            /\ where = "wait" => pings[r] + 1 # Attempts
            /\ pings' = [pings EXCEPT ![r] = pings[r] + 1]
            /\ UNCHANGED <<server, disk, handles, older, project, engine, database, input, piped>>
        <3> DEFINE next == IF ~Wraps(r) THEN "failed"
                           ELSE IF Up(r) THEN AfterWait(r)
                           ELSE IF pings[r] + 1 = Attempts THEN "failed" ELSE "wait"
        <3>1. /\ client[r] = "wait" /\ client' = [client EXCEPT ![r] = next]
              /\ pings' = [pings EXCEPT ![r] = pings[r] + 1]
              /\ UNCHANGED <<server, disk, handles, older, project, engine, database, input, piped>>
            BY <1>6 DEF WaitReady
        <3>2. next \in {"failed", "load", "drop", "wait"} /\ (next = "wait" => pings[r] + 1 # Attempts)
            BY DEF AfterWait
        <3> QED
            BY <3>1, <3>2
    <2>2. pings' \in [Runs -> 0 .. Attempts] /\ (where = "wait" => pings'[r] < Attempts)
        BY <2>1
    <2>3. Pinging'
        BY <2>1, <2>2
    <2>4. TypeOK'
        BY <2>1, <2>2
    <2> QED
        BY <2>3, <2>4
<1>7. CASE Drop(r) \/ Create(r)
    <2>1. /\ UNCHANGED <<server, disk, handles, older, project, engine, pings, input, piped>>
          /\ client[r] \in {"drop", "create_db"}
        BY <1>7 DEF Drop, Create
    <2>2. PICK where \in {"failed", "load", "create_db"} : client' = [client EXCEPT ![r] = where]
        BY <1>7 DEF Drop, Create
    <2>3. PICK what \in {At(r), NoTables, Missing} :
            database' = [database EXCEPT ![PlaceOf[r]] = what]
        BY <1>7 DEF Drop, Create
    <2>4. None \notin Contents \cup {Missing}
        BY DEF Contents
    <2>5. database' \in [Places -> Contents \cup {Missing, None}]
        BY <1>0, <2>3
    <2>6. \A l \in Places : engine'[l] # "down" => database'[l] # None
        BY <1>0, <2>1, <2>3, <2>4
    <2> QED
        BY ONLY TypeInv, <2>1, <2>2, <2>5, <2>6, ResetTypes DEF TypeInv, TypeOK, Resetting, Loading, Over
<1>8. CASE OpenInput(r)
    BY <1>8 DEF OpenInput
<1>9. CASE LoadTable(r)
    <2>1. /\ client[r] = "pipe" /\ client' = [client EXCEPT ![r] = "pipe"]
          /\ input[r] \in Runs /\ piped[r] < Len(localData[input[r]])
          /\ piped' = [piped EXCEPT ![r] = piped[r] + 1]
          /\ UNCHANGED <<server, disk, handles, older, project, engine, pings, input>>
        BY <1>9 DEF LoadTable, Unread
    <2>2. localData[input[r]][piped[r] + 1] \in Chunks
        BY <2>1, ChunkOf
    <2>3. database[PlaceOf[r]] \in Contents
        BY <1>9 DEF LoadTable, CanLoad
    <2>4. PICK what \in Contents : database' = [database EXCEPT ![PlaceOf[r]] = what]
        <3> DEFINE loaded == [database[PlaceOf[r]] EXCEPT ![piped[r] + 1] = localData[input[r]][piped[r] + 1]]
        <3>1. loaded \in Contents
            BY <2>2, <2>3 DEF Contents
        <3>2. database' = [database EXCEPT ![PlaceOf[r]] = IF Selected(r) THEN loaded ELSE database[PlaceOf[r]]]
            BY <1>9, <2>1 DEF LoadTable
        <3> QED
            BY <2>3, <3>1, <3>2
    <2>5. /\ database \in [Places -> Contents \cup {Missing, None}] /\ what # None
          /\ \A l \in Places : engine[l] # "down" => database[l] # None
          /\ piped \in [Runs -> Nat] /\ PlaceOf[r] \in Places
        BY <2>4
    <2>6. database' \in [Places -> Contents \cup {Missing, None}]
        BY <2>4, <2>5
    <2>7. \A l \in Places : engine'[l] # "down" => database'[l] # None
        BY <2>1, <2>4, <2>5
    <2>8. piped' \in [Runs -> Nat]
        <3>1. piped[r] + 1 \in Nat
            BY <2>5
        <3> QED
            BY <2>1, <2>5, <3>1
    <2>9. client' = client
        BY <2>1
    <2> QED
        BY <2>1, <2>6, <2>7, <2>8, <2>9
<1>10. CASE EndLoad(r)
    BY <1>10 DEF EndLoad
<1> QED
    BY <1>1, <1>2, <1>3, <1>4, <1>5, <1>6, <1>7, <1>8, <1>9, <1>10

LEMMA TypeInvNext == TypeInv /\ [Next]_vars => TypeInv'
<1> SUFFICES ASSUME TypeInv, [Next]_vars PROVE TypeInv'
    OBVIOUS
<1>1. ASSUME NEW l \in Places, EngineReady(l) PROVE TypeInv'
    BY <1>1 DEF EngineReady, TypeInv, TypeOK, TransferTypeOK, Pinging, transfer, server, disk, handles
<1>2. CASE UNCHANGED vars
    BY <1>2 DEF vars, data, TypeInv, TypeOK, TransferTypeOK, Pinging, transfer, server, disk, handles
<1> QED
    BY <1>1, <1>2, TransferTypes, RestoreTypes DEF Next, CloneStep

\* Every reachable state has the types that the module states.
THEOREM CloneTypes == Spec => []TypeOK
<1>1. TypeInv => TypeOK
    BY DEF TypeInv
<1> QED
    BY <1>1, TypeInvInit, TypeInvNext, PTL DEF Spec
-------------------------------------------------------------------------------------
(* The dump file on the server, whoever overlaps with whom.                          *)

\* An inode on the server is named by the run that created it, at its own path.
Created ==
    /\ \A r \in Runs : shell[r] \in {"none", "remove", "open"} => redirect[r] = None
    /\ \A r \in Runs : client[r] = "idle" => shell[r] = "none"
    /\ \A r \in Runs : client[r] \in {"open", "create", "copy", "fetched"} => shell[r] = "ok"
    /\ \A f \in RemotePaths : remoteLink[f] # None =>
            redirect[remoteLink[f]] = remoteLink[f] /\ RemoteOf[remoteLink[f]] = f
    /\ \A q \in Runs : redirect[q] # None =>
            redirect[redirect[q]] = redirect[q] /\ RemoteOf[redirect[q]] = RemoteOf[q]

ChunksFrom(contents, n) ==
    \A i \in 1 .. Len(contents) : contents[i] # Hole => redirect[contents[i]] = n

\* A file holds only chunks of the runs that have it open.
Written == \A n \in Runs : ChunksFrom(remoteData[n], n)

\* Once a run has removed the dump that it found, what its path links to is no file that
\* an earlier run has open, and neither is what it reads.
Unlinked ==
    /\ \A r \in Runs : \A q \in older[r] : redirect[q] # None
    /\ \A r \in Runs : shell[r] \in {"open", "write", "ok"} =>
            \A q \in older[r] : remoteLink[RemoteOf[r]] # redirect[q]
    /\ \A r \in Runs : client[r] \in {"create", "copy", "fetched"} =>
            source[r] # None /\ \A q \in older[r] : source[r] # redirect[q]

ServerInv == Created /\ Written /\ Unlinked

\* What the runs have open stays open.
Kept == \A q \in Runs : redirect[q] # None => redirect'[q] = redirect[q]

LEMMA ServerInvInit == Init => ServerInv
    BY DEF Init, TransferInit, ServerInv, Created, Written, ChunksFrom, Unlinked

\* Writing to a file that a run has open keeps it a file of such runs.
LEMMA ChunksFromWriteAt ==
    ASSUME NEW s \in Seq(Chunks), NEW k \in Nat \ {0}, NEW c \in Chunks, NEW n,
           ChunksFrom(s, n), c # Hole => redirect[c] = n
    PROVE  ChunksFrom(WriteAt(s, k, c), n)
<1> SUFFICES ASSUME NEW i \in 1 .. Len(WriteAt(s, k, c)), WriteAt(s, k, c)[i] # Hole
             PROVE  redirect[WriteAt(s, k, c)[i]] = n
    BY DEF ChunksFrom
<1>1. /\ WriteAt(s, k, c)[i] = IF i = k THEN c ELSE IF i <= Len(s) THEN s[i] ELSE Hole
      /\ Len(WriteAt(s, k, c)) \in Nat /\ Len(s) \in Nat
    BY WriteAtProperties, LenProperties
<1> QED
    BY <1>1 DEF ChunksFrom

\* A step of one run that opens, writes and removes nothing on the server.
LEMMA ServerQuiet ==
    ASSUME ServerInv, NEW r \in Runs,
           UNCHANGED <<remoteLink, remoteData, redirect, older>>,
           \A q \in Runs \ {r} : shell'[q] = shell[q] /\ client'[q] = client[q] /\ source'[q] = source[q],
           \/ shell'[r] \in {shell[r], "error"}
           \/ shell'[r] = "ok" /\ shell[r] = "write",
           client'[r] # "idle",
           client'[r] \in {"open", "create", "copy", "fetched"} => shell'[r] = "ok",
           client'[r] \in {"create", "copy", "fetched"} =>
                source'[r] # None /\ \A q \in older[r] : source'[r] # redirect[q]
    PROVE  ServerInv'
<1>1. Created'
    BY DEF ServerInv, Created
<1>2. Written'
    BY DEF ServerInv, Written, ChunksFrom
<1>3. Unlinked'
    BY DEF ServerInv, Unlinked
<1> QED
    BY <1>1, <1>2, <1>3 DEF ServerInv

LEMMA OpenRedirectKeeps ==
    ASSUME TypeInv, ServerInv, NEW r \in Runs, OpenRedirect(r)
    PROVE  ServerInv' /\ Kept
<1>0. /\ remoteLink \in [RemotePaths -> Runs \cup {None}] /\ remoteData \in [Runs -> Seq(Chunks)]
      /\ redirect \in [Runs -> Runs \cup {None}] /\ shell \in [Runs -> ShellStates]
      /\ RemoteOf \in [Runs -> RemotePaths] /\ older \in [Runs -> SUBSET Runs]
    BY TypeFacts, PathsAssumption
<1>1. shell[r] = "open" /\ redirect[r] = None
    BY DEF OpenRedirect, ServerInv, Created
<1>2. PICK inode \in Runs :
        /\ (remoteLink[RemoteOf[r]] = None /\ inode = r) \/ remoteLink[RemoteOf[r]] = inode
        /\ remoteLink' = [remoteLink EXCEPT ![RemoteOf[r]] = inode]
        /\ remoteData' = [remoteData EXCEPT ![inode] = <<>>]
        /\ redirect' = [redirect EXCEPT ![r] = inode]
    BY <1>0 DEF OpenRedirect
<1>3. shell' = [shell EXCEPT ![r] = "write"] /\ UNCHANGED <<client, source, older>>
    BY DEF OpenRedirect, ShellAt, handles
<1>4. Kept
    BY <1>0, <1>1, <1>2 DEF Kept
<1>5. redirect'[inode] = inode /\ RemoteOf[inode] = RemoteOf[r]
    BY <1>0, <1>1, <1>2, InodeAssumption DEF ServerInv, Created
<1>6. Created'
    <2>1. \A q \in Runs : shell'[q] \in {"none", "remove", "open"} => redirect'[q] = None
        BY <1>0, <1>1, <1>2, <1>3 DEF ServerInv, Created
    <2>2. \A q \in Runs : /\ client'[q] = "idle" => shell'[q] = "none"
                          /\ client'[q] \in {"open", "create", "copy", "fetched"} => shell'[q] = "ok"
        BY <1>0, <1>1, <1>3 DEF ServerInv, Created
    <2>3. \A f \in RemotePaths : remoteLink'[f] # None =>
                redirect'[remoteLink'[f]] = remoteLink'[f] /\ RemoteOf[remoteLink'[f]] = f
        BY <1>0, <1>2, <1>4, <1>5, InodeAssumption DEF ServerInv, Created, Kept
    <2>4. \A q \in Runs : redirect'[q] # None =>
                redirect'[redirect'[q]] = redirect'[q] /\ RemoteOf[redirect'[q]] = RemoteOf[q]
        BY <1>0, <1>2, <1>4, <1>5, InodeAssumption DEF ServerInv, Created, Kept
    <2> QED
        BY <2>1, <2>2, <2>3, <2>4 DEF Created
<1>7. Written'
    <2> SUFFICES ASSUME NEW n \in Runs, NEW i \in 1 .. Len(remoteData'[n]), remoteData'[n][i] # Hole
                 PROVE  redirect'[remoteData'[n][i]] = n
        BY DEF Written, ChunksFrom
    <2>1. n # inode /\ remoteData'[n] = remoteData[n]
        BY <1>0, <1>2
    <2>2. remoteData[n][i] \in Runs
        BY <1>0, <2>1, LenProperties DEF Chunks
    <2>3. redirect[remoteData[n][i]] = n
        BY <2>1 DEF ServerInv, Written, ChunksFrom
    <2> QED
        BY <1>4, <2>1, <2>2, <2>3, InodeAssumption DEF Kept
<1>8. Unlinked'
    <2>1. \A q \in Runs : \A p \in older[q] : redirect'[p] = redirect[p] /\ redirect[p] # None
        BY <1>0, <1>4 DEF ServerInv, Unlinked, Kept
    <2>2. \A q \in Runs : shell'[q] \in {"open", "write", "ok"} =>
            \A p \in older[q] : remoteLink'[RemoteOf[q]] # redirect[p]
        <3> SUFFICES ASSUME NEW q \in Runs, shell'[q] \in {"open", "write", "ok"}, NEW p \in older[q]
                     PROVE  remoteLink'[RemoteOf[q]] # redirect[p]
            OBVIOUS
        <3>1. shell[q] \in {"open", "write", "ok"}
            BY <1>0, <1>1, <1>3
        <3>2. remoteLink[RemoteOf[q]] # redirect[p]
            BY <3>1 DEF ServerInv, Unlinked
        <3>3. redirect[p] # r \/ redirect[redirect[p]] = None
            BY <1>1
        <3>4. redirect[p] # r
            BY <1>0, <2>1, <3>3 DEF ServerInv, Created
        <3> QED
            BY <1>0, <1>2, <3>2, <3>4
    <2> QED
        BY <1>0, <1>3, <2>1, <2>2 DEF ServerInv, Unlinked
<1> QED
    BY <1>4, <1>6, <1>7, <1>8 DEF ServerInv

LEMMA WriteDumpKeeps ==
    ASSUME TypeInv, ServerInv, NEW r \in Runs, WriteDump(r)
    PROVE  ServerInv'
<1>1. UNCHANGED <<remoteLink, shell, redirect, client, source, older>>
    BY DEF WriteDump, handles
<1>2. /\ remoteData' = [remoteData EXCEPT ![redirect[r]] =
                            WriteAt(remoteData[redirect[r]], written[r] + 1, r)]
      /\ written[r] + 1 \in Nat \ {0} /\ r \in Chunks
    BY TypeFacts DEF WriteDump, Chunks
<1>3. ASSUME NEW n \in Runs PROVE ChunksFrom(remoteData'[n], n)
    <2>1. ChunksFrom(remoteData[n], n) /\ remoteData[n] \in Seq(Chunks)
        BY TypeFacts DEF ServerInv, Written
    <2>2. CASE n = redirect[r]
        <3>1. ChunksFrom(WriteAt(remoteData[n], written[r] + 1, r), n)
            BY ONLY <1>2, <2>1, <2>2, ChunksFromWriteAt
        <3>2. remoteData'[n] = WriteAt(remoteData[n], written[r] + 1, r)
            BY <1>2, <2>2, TypeFacts
        <3> QED
            BY <3>1, <3>2
    <2>3. CASE n # redirect[r]
        BY <1>2, <2>1, <2>3, TypeFacts
    <2> QED
        BY <2>2, <2>3
<1>4. Written'
    BY <1>1, <1>3 DEF Written, ChunksFrom
<1>5. Created' /\ Unlinked'
    BY <1>1 DEF ServerInv, Created, Unlinked
<1> QED
    BY <1>4, <1>5 DEF ServerInv

LEMMA TransferKeepsServer ==
    ASSUME TypeInv, ServerInv, NEW r \in Runs,
           TransferStep(r) \/ ShellStep(r) \/ FailDump(r) \/ StopClient(r)
    PROVE  ServerInv' /\ Kept
<1>0. /\ client \in [Runs -> {"idle", "dump", "open", "create", "copy", "fetched"}
                             \cup Resetting \cup Loading \cup Over]
      /\ shell \in [Runs -> ShellStates] /\ source \in [Runs -> Runs \cup {None}]
      /\ redirect \in [Runs -> Runs \cup {None}] /\ older \in [Runs -> SUBSET Runs]
      /\ remoteLink \in [RemotePaths -> Runs \cup {None}] /\ RemoteOf \in [Runs -> RemotePaths]
    BY TypeFacts, PathsAssumption DEF TypeInv, TypeOK
<1> USE DEF ClientAt, ShellAt, server, handles
<1>1. CASE StartDump(r)
    <2>1. /\ client[r] = "idle" /\ shell[r] = "none"
          /\ client' = [client EXCEPT ![r] = "dump"] /\ shell' = [shell EXCEPT ![r] = "remove"]
          /\ older' = [older EXCEPT ![r] = {q \in Runs : redirect[q] # None}]
          /\ UNCHANGED <<remoteLink, remoteData, redirect, source>>
        BY <1>1 DEF StartDump, Begin, ServerInv, Created
    <2>2. Created'
        BY <1>0, <2>1 DEF ServerInv, Created
    <2>3. Written' /\ Kept
        BY <2>1 DEF ServerInv, Written, ChunksFrom, Kept
    <2>4. Unlinked'
        BY <1>0, <2>1 DEF ServerInv, Unlinked
    <2> QED
        BY <2>2, <2>3, <2>4 DEF ServerInv
<1>2. CASE RemoveOldDump(r)
    <2>1. /\ shell[r] = "remove"
          /\ remoteLink' = [remoteLink EXCEPT ![RemoteOf[r]] = None]
          /\ shell' = [shell EXCEPT ![r] = "open"]
          /\ UNCHANGED <<remoteData, redirect, client, source, older>>
        BY <1>2 DEF RemoveOldDump
    <2>2. Created'
        BY <1>0, <2>1 DEF ServerInv, Created
    <2>3. Written' /\ Kept
        BY <2>1 DEF ServerInv, Written, ChunksFrom, Kept
    <2>4. Unlinked'
        BY <1>0, <2>1 DEF ServerInv, Unlinked
    <2> QED
        BY <2>2, <2>3, <2>4 DEF ServerInv
<1>3. CASE OpenRedirect(r)
    BY <1>3, OpenRedirectKeeps
<1>4. CASE WriteDump(r)
    BY <1>4, WriteDumpKeeps DEF WriteDump, Kept
<1>5. ASSUME UNCHANGED redirect, ServerInv' PROVE ServerInv' /\ Kept
    BY <1>5 DEF Kept
<1>6. CASE TestDump(r) \/ FailDump(r)
    <2>1. /\ shell[r] \in {"remove", "open", "write"}
          /\ \/ shell' = [shell EXCEPT ![r] = "error"]
             \/ shell' = [shell EXCEPT ![r] = "ok"] /\ shell[r] = "write"
          /\ UNCHANGED <<remoteLink, remoteData, redirect, client, source, older>>
        BY <1>6 DEF TestDump, FailDump
    <2>2. client[r] \notin {"idle", "open", "create", "copy", "fetched"}
        BY <2>1 DEF ServerInv, Created
    <2> QED
        BY <1>0, <1>5, <2>1, <2>2, ServerQuiet
<1>7. CASE FinishDump(r)
    <2>1. /\ UNCHANGED <<remoteLink, remoteData, shell, redirect, source, older>>
          /\ \/ client' = [client EXCEPT ![r] = "failed"]
             \/ client' = [client EXCEPT ![r] = "open"] /\ shell[r] = "ok"
        BY <1>7 DEF FinishDump
    <2> QED
        BY <1>0, <1>5, <2>1, ServerQuiet
<1>8. CASE OpenRemote(r)
    <2>1. /\ UNCHANGED <<remoteLink, remoteData, shell, redirect, older>>
          /\ source' = [source EXCEPT ![r] = remoteLink[RemoteOf[r]]]
          /\ \/ client' = [client EXCEPT ![r] = "failed"]
             \/ client' = [client EXCEPT ![r] = "create"] /\ source'[r] # None
          /\ client[r] = "open"
        BY <1>8 DEF OpenRemote
    <2>2. shell[r] = "ok" /\ \A q \in older[r] : source'[r] # redirect[q]
        BY <1>0, <2>1 DEF ServerInv, Created, Unlinked
    <2> QED
        BY <1>0, <1>5, <2>1, <2>2, ServerQuiet
<1>9. CASE CreatePart(r) \/ CopyChunk(r) \/ RenamePart(r)
    <2>1. /\ client[r] \in {"create", "copy"}
          /\ \E where \in {"copy", "fetched", "failed"} : client' = [client EXCEPT ![r] = where]
          /\ UNCHANGED <<remoteLink, remoteData, shell, redirect, source, older>>
        BY <1>0, <1>9 DEF CreatePart, CopyChunk, RenamePart
    <2>2. /\ shell[r] = "ok" /\ source[r] # None
          /\ \A q \in older[r] : source[r] # redirect[q]
        BY <2>1 DEF ServerInv, Created, Unlinked
    <2> QED
        BY <1>0, <1>5, <2>1, <2>2, ServerQuiet
<1>10. CASE StopClient(r)
    <2>1. /\ \/ shell' = shell \/ shell' = [shell EXCEPT ![r] = "error"]
             \/ shell' = [shell EXCEPT ![r] = "ok"] /\ shell[r] = "ok"
          /\ client' = [client EXCEPT ![r] = "stopped"]
          /\ UNCHANGED <<remoteLink, remoteData, redirect, source, older>>
        BY <1>10 DEF StopClient
    <2> QED
        BY <1>0, <1>5, <2>1, ServerQuiet
<1> QED
    BY <1>1, <1>2, <1>3, <1>4, <1>6, <1>7, <1>8, <1>9, <1>10 DEF TransferStep, ShellStep
-------------------------------------------------------------------------------------
(* The files of a machine that runs one clone at a time.                             *)

RestoreStep(r) ==
    \/ Fetch(r) \/ ComposeDown(r) \/ RemoveVolume(r) \/ CreateVolume(r) \/ ComposeUp(r)
    \/ WaitReady(r) \/ Drop(r) \/ Create(r) \/ OpenInput(r) \/ LoadTable(r) \/ EndLoad(r)

\* What a step of the reset or the restore does to the rest.
LEMMA RestoreMoves ==
    ASSUME TypeInv, NEW r \in Runs, RestoreStep(r)
    PROVE  /\ client[r] \in {"fetched"} \cup Resetting \cup Loading
           /\ \E where \in Resetting \cup Loading \cup {"done", "failed"} :
                client' = [client EXCEPT ![r] = where]
           /\ UNCHANGED <<remoteLink, remoteData, shell, redirect, written, partLink, fileLink,
                          localData, source, sink, copied, older, project>>
<1> USE DEF Move, ClientAt, server, disk, handles, Resetting, Loading
<1>1. CASE Fetch(r) \/ ComposeDown(r) \/ RemoveVolume(r) \/ CreateVolume(r) \/ ComposeUp(r)
    BY <1>1 DEF Fetch, ComposeDown, RemoveVolume, CreateVolume, ComposeUp
<1>2. CASE WaitReady(r) \/ Create(r)
    BY <1>2 DEF WaitReady, AfterWait, Create
<1>3. CASE Drop(r)
    BY <1>3 DEF Drop
<1>4. CASE OpenInput(r)
    BY <1>4 DEF OpenInput
<1>5. CASE LoadTable(r) \/ EndLoad(r)
    <2>1. \E where \in {"pipe", "done", "failed"} : Move(r, "pipe", where)
        BY <1>5 DEF LoadTable, EndLoad
    <2> QED
        BY <2>1
<1> QED
    BY <1>1, <1>2, <1>3, <1>4, <1>5 DEF RestoreStep

LEMMA RestoreKeepsServer ==
    ASSUME TypeInv, ServerInv, NEW r \in Runs, RestoreStep(r)
    PROVE  ServerInv' /\ Kept
<1>1. PICK where \in Resetting \cup Loading \cup {"done", "failed"} :
        client' = [client EXCEPT ![r] = where]
    BY RestoreMoves
<1>2. UNCHANGED <<remoteLink, remoteData, shell, redirect, source, older>>
    BY RestoreMoves
<1>3. client \in [Runs -> {"idle", "dump", "open", "create", "copy", "fetched"}
                         \cup Resetting \cup Loading \cup Over]
    BY DEF TypeInv, TypeOK
<1> QED
    BY <1>1, <1>2, <1>3, ServerQuiet DEF Kept, Resetting, Loading

\* No two runs of one machine are under way.
Alone == \A p, q \in Runs : p # q /\ PlaceOf[p] = PlaceOf[q] => p \in Idle \/ q \in Idle

BeforePart == {"idle", "dump", "open", "create"}

\* An inode on a machine is named by the run of that machine that created it.
Owned(link) == \A l \in Places : link[l] # None =>
    PlaceOf[link[l]] = l /\ client[link[l]] \notin BeforePart

Linked ==
    /\ Owned(partLink) /\ Owned(fileLink)
    /\ \A l \in Places : partLink[l] # None => partLink[l] # fileLink[l]
    /\ \A r \in Runs : client[r] = "copy" => partLink[PlaceOf[r]] = sink[r]

\* What a run has copied comes from the one file that it reads.
FromSource ==
    /\ \A r \in Runs : client[r] = "copy" => ChunksFrom(localData[sink[r]], source[r])
    /\ \A r \in Runs : client[r] = "fetched" =>
            fileLink[PlaceOf[r]] # None /\ ChunksFrom(Fetched(r), source[r])

OlderInv == TypeInv /\ ServerInv /\ Alone /\ Linked /\ FromSource

LEMMA OlderInvInit == Init => OlderInv
<1>1. Init => Alone /\ Linked /\ FromSource
    BY DEF Init, TransferInit, Alone, Idle, Linked, Owned, FromSource
<1> QED
    BY <1>1, TypeInvInit, ServerInvInit DEF OlderInv

\* Which run a step moves.
LEMMA TransferMoves ==
    ASSUME NEW r \in Runs, TransferStep(r) \/ ShellStep(r) \/ FailDump(r) \/ StopClient(r)
    PROVE  \/ client' = client
           \/ StartDump(r)
           \/ r \notin Idle /\ \E where : client' = [client EXCEPT ![r] = where]
<1>1. CASE RemoveOldDump(r) \/ OpenRedirect(r) \/ WriteDump(r) \/ TestDump(r) \/ FailDump(r)
           \/ CopyChunk(r)
    BY <1>1 DEF RemoveOldDump, OpenRedirect, WriteDump, TestDump, FailDump, CopyChunk
<1>2. CASE StopClient(r)
    BY <1>2 DEF StopClient, ClientAt
<1>3. CASE FinishDump(r) \/ OpenRemote(r) \/ CreatePart(r) \/ RenamePart(r)
    BY <1>3 DEF FinishDump, OpenRemote, CreatePart, RenamePart, ClientAt, Idle, Over
<1> QED
    BY <1>1, <1>2, <1>3 DEF TransferStep, ShellStep

LEMMA AloneNext ==
    ASSUME ~Overlap, TypeInv, Alone, [Next]_vars
    PROVE  Alone'
<1>0. client \in [Runs -> {"idle", "dump", "open", "create", "copy", "fetched"}
                         \cup Resetting \cup Loading \cup Over]
    BY DEF TypeInv, TypeOK
<1>1. CASE client' = client
    BY <1>1 DEF Alone, Idle
<1>2. ASSUME NEW r \in Runs, StartDump(r) PROVE Alone'
    <2>1. \A q \in Runs : PlaceOf[q] = PlaceOf[r] => q \in Idle
        BY <1>2 DEF StartDump, Begin
    <2>2. client' = [client EXCEPT ![r] = "dump"]
        BY <1>2 DEF StartDump, Begin, ClientAt
    <2> QED
        BY <1>0, <2>1, <2>2 DEF Alone, Idle, Over
<1>3. ASSUME NEW r \in Runs, r \notin Idle, NEW where, client' = [client EXCEPT ![r] = where]
      PROVE  Alone'
    BY <1>0, <1>3 DEF Alone, Idle, Over
<1>4. ASSUME NEW r \in Runs, RestoreStep(r) PROVE Alone'
    <2>1. PICK where : client' = [client EXCEPT ![r] = where]
        BY <1>4, RestoreMoves
    <2>2. r \notin Idle
        BY <1>4, RestoreMoves DEF Idle, Over, Resetting, Loading
    <2> QED
        BY <1>3, <2>1, <2>2
<1>5. CASE (\E l \in Places : EngineReady(l)) \/ UNCHANGED vars
    <2>1. client' = client
        BY <1>5 DEF EngineReady, vars, transfer
    <2> QED
        BY <1>1, <2>1
<1> QED
    BY <1>1, <1>2, <1>3, <1>4, <1>5, TransferMoves DEF Next, CloneStep, RestoreStep

\* A step that touches no file of a machine.
LEMMA MachineQuiet ==
    ASSUME TypeInv, Linked, FromSource, Kept, UNCHANGED <<partLink, fileLink, localData>>,
           \A q \in Runs : client[q] \notin BeforePart => client'[q] \notin BeforePart,
           \A q \in Runs : client'[q] \in {"copy", "fetched"} =>
                client'[q] = client[q] /\ source'[q] = source[q] /\ sink'[q] = sink[q],
           \A q \in Runs : client[q] \in {"copy", "fetched"} => source[q] \in Runs
    PROVE  Linked' /\ FromSource'
<1>0. /\ partLink \in [Places -> Runs \cup {None}] /\ fileLink \in [Places -> Runs \cup {None}]
      /\ localData \in [Runs -> Seq(Chunks)] /\ PlaceOf \in [Runs -> Places]
      /\ \A q \in Runs : client[q] = "copy" => sink[q] \in Runs
    BY TypeFacts, PathsAssumption
<1>1. Linked'
    BY <1>0 DEF Linked, Owned
<1>2. ASSUME NEW n \in Runs, NEW m \in Runs, ChunksFrom(localData[n], m)
      PROVE  \A i \in 1 .. Len(localData'[n]) :
                localData'[n][i] # Hole => redirect'[localData'[n][i]] = m
    <2> SUFFICES ASSUME NEW i \in 1 .. Len(localData[n]), localData[n][i] # Hole
                 PROVE  redirect'[localData[n][i]] = m
        OBVIOUS
    <2>1. localData[n][i] \in Runs
        BY <1>0, LenProperties DEF Chunks
    <2>2. redirect[localData[n][i]] = m
        BY <1>2 DEF ChunksFrom
    <2> QED
        BY <2>1, <2>2, InodeAssumption DEF Kept
<1>3. ASSUME NEW q \in Runs, client'[q] = "copy"
      PROVE  ChunksFrom(localData[sink[q]], source[q])'
    <2>1. /\ client[q] = "copy" /\ source'[q] = source[q] /\ sink'[q] = sink[q]
          /\ source[q] \in Runs /\ sink[q] \in Runs
        BY <1>0, <1>3
    <2>2. ChunksFrom(localData[sink[q]], source[q])
        BY <2>1 DEF FromSource
    <2> QED
        BY <1>2, <2>1, <2>2 DEF ChunksFrom
<1>4. ASSUME NEW q \in Runs, client'[q] = "fetched"
      PROVE  fileLink'[PlaceOf[q]] # None /\ ChunksFrom(Fetched(q), source[q])'
    <2>1. /\ client[q] = "fetched" /\ source'[q] = source[q] /\ source[q] \in Runs
        BY <1>4
    <2>2. /\ fileLink[PlaceOf[q]] # None /\ fileLink[PlaceOf[q]] \in Runs
          /\ ChunksFrom(localData[fileLink[PlaceOf[q]]], source[q])
        BY <1>0, <2>1 DEF FromSource, Fetched
    <2> QED
        BY <1>2, <2>1, <2>2 DEF ChunksFrom, Fetched
<1> QED
    BY <1>1, <1>3, <1>4 DEF FromSource

\* What a run that is creating or filling its .part shares with another: nothing.
LEMMA OwnFiles ==
    ASSUME OlderInv, NEW r \in Runs, client[r] \in {"create", "copy"},
           NEW q \in Runs, q # r, client[q] \in {"copy", "fetched"}
    PROVE  PlaceOf[q] # PlaceOf[r]
    BY DEF OlderInv, Alone, Idle, Over

LEMMA CreatePartKeeps ==
    ASSUME OlderInv, NEW r \in Runs, CreatePart(r)
    PROVE  Linked' /\ FromSource'
<1>0. /\ partLink \in [Places -> Runs \cup {None}] /\ fileLink \in [Places -> Runs \cup {None}]
      /\ localData \in [Runs -> Seq(Chunks)] /\ PlaceOf \in [Runs -> Places]
      /\ source \in [Runs -> Runs \cup {None}] /\ sink \in [Runs -> Runs \cup {None}]
      /\ client \in [Runs -> {"idle", "dump", "open", "create", "copy", "fetched"}
                             \cup Resetting \cup Loading \cup Over]
    BY TypeFacts, PathsAssumption DEF OlderInv, TypeInv, TypeOK
<1>1. client[r] = "create" /\ client' = [client EXCEPT ![r] = "copy"] /\ UNCHANGED <<fileLink, source, redirect>>
    BY DEF CreatePart, ClientAt, server
<1>2. PICK n \in Runs :
        /\ (partLink[PlaceOf[r]] = None /\ n = r) \/ partLink[PlaceOf[r]] = n
        /\ sink' = [sink EXCEPT ![r] = n]
        /\ partLink' = [partLink EXCEPT ![PlaceOf[r]] = n]
        /\ localData' = [localData EXCEPT ![n] = <<>>]
    BY <1>0 DEF CreatePart, PartInode
<1>3. Linked
    BY DEF OlderInv
<1>4. PlaceOf[n] = PlaceOf[r] /\ client'[n] \notin BeforePart /\ fileLink[PlaceOf[r]] # n
    BY <1>0, <1>1, <1>2, <1>3, InodeAssumption DEF Linked, Owned, BeforePart
<1>5. Linked'
    <2>1. Owned(partLink)'
        BY <1>0, <1>1, <1>2, <1>3, <1>4 DEF Linked, Owned, BeforePart
    <2>2. Owned(fileLink)'
        BY <1>0, <1>1, <1>3 DEF Linked, Owned, BeforePart
    <2>3. \A l \in Places : partLink'[l] # None => partLink'[l] # fileLink'[l]
        BY <1>0, <1>1, <1>2, <1>3, <1>4 DEF Linked
    <2>4. \A q \in Runs : client'[q] = "copy" => partLink'[PlaceOf[q]] = sink'[q]
        BY <1>0, <1>1, <1>2, <1>3, OwnFiles DEF Linked
    <2> QED
        BY <2>1, <2>2, <2>3, <2>4 DEF Linked
<1>6. ASSUME NEW q \in Runs, client'[q] = "copy" PROVE ChunksFrom(localData[sink[q]], source[q])'
    <2>1. CASE q = r
        <3>1. localData'[sink'[q]] = <<>>
            BY <1>0, <1>2, <2>1
        <3> QED
            BY <3>1 DEF ChunksFrom
    <2>2. CASE q # r
        <3>1. /\ client[q] = "copy" /\ sink'[q] = sink[q] /\ sink[q] \in Runs
              /\ PlaceOf[q] # PlaceOf[r]
            BY <1>0, <1>1, <1>2, <1>6, <2>2, OwnFiles, TypeFacts DEF OlderInv
        <3>2. sink[q] # n
            BY <1>0, <1>3, <1>4, <3>1, InodeAssumption DEF Linked, Owned
        <3>3. localData'[sink[q]] = localData[sink[q]] /\ ChunksFrom(localData[sink[q]], source[q])
            BY <1>0, <1>2, <3>1, <3>2 DEF OlderInv, FromSource
        <3> QED
            BY <1>1, <3>1, <3>3 DEF ChunksFrom
    <2> QED
        BY <2>1, <2>2
<1>7. ASSUME NEW q \in Runs, client'[q] = "fetched"
      PROVE  fileLink'[PlaceOf[q]] # None /\ ChunksFrom(Fetched(q), source[q])'
    <2>1. client[q] = "fetched" /\ PlaceOf[q] # PlaceOf[r]
        BY <1>0, <1>1, <1>7, OwnFiles
    <2>2. fileLink[PlaceOf[q]] # None /\ ChunksFrom(Fetched(q), source[q])
        BY <2>1 DEF OlderInv, FromSource
    <2>3. fileLink[PlaceOf[q]] \in Runs /\ fileLink[PlaceOf[q]] # n
        BY <1>0, <1>3, <1>4, <2>1, <2>2 DEF Linked, Owned
    <2> QED
        BY <1>0, <1>1, <1>2, <2>2, <2>3 DEF ChunksFrom, Fetched
<1> QED
    BY <1>5, <1>6, <1>7 DEF FromSource

LEMMA CopyChunkKeeps ==
    ASSUME OlderInv, NEW r \in Runs, CopyChunk(r)
    PROVE  Linked' /\ FromSource'
<1>0. /\ partLink \in [Places -> Runs \cup {None}] /\ fileLink \in [Places -> Runs \cup {None}]
      /\ localData \in [Runs -> Seq(Chunks)] /\ PlaceOf \in [Runs -> Places]
      /\ \A q \in Runs : client[q] = "copy" => sink[q] \in Runs /\ source[q] \in Runs
    BY TypeFacts, PathsAssumption DEF OlderInv
<1>1. client[r] = "copy" /\ UNCHANGED <<partLink, fileLink, client, source, sink, redirect>>
    BY DEF CopyChunk, server
<1> DEFINE read == remoteData[source[r]][copied[r] + 1]
           new  == WriteAt(localData[sink[r]], copied[r] + 1, read)
<1>2. localData' = [localData EXCEPT ![sink[r]] = new]
    <2>1. copied'[r] = copied[r] + 1
        BY TypeFacts DEF OlderInv, CopyChunk
    <2> QED
        BY <2>1 DEF CopyChunk
<1>3. /\ read \in Chunks /\ copied[r] + 1 \in Nat \ {0} /\ copied[r] + 1 \in 1 .. Len(remoteData[source[r]])
      /\ localData[sink[r]] \in Seq(Chunks)
    <2>1. /\ copied[r] \in Nat /\ copied[r] < Len(remoteData[source[r]])
          /\ remoteData[source[r]] \in Seq(Chunks) /\ localData[sink[r]] \in Seq(Chunks)
        BY <1>0, <1>1, TypeFacts DEF OlderInv, CopyChunk, Left
    <2>2. Len(remoteData[source[r]]) \in Nat
        BY <2>1, LenProperties
    <2> QED
        BY <2>1, <2>2, ChunkOf
<1>4. read # Hole => redirect[read] = source[r]
    BY <1>0, <1>1, <1>3 DEF OlderInv, ServerInv, Written, ChunksFrom
<1>5. ChunksFrom(localData[sink[r]], source[r])
    BY <1>1 DEF OlderInv, FromSource
<1>6. ChunksFrom(new, source[r])
    BY ONLY <1>3, <1>4, <1>5, ChunksFromWriteAt
<1> HIDE DEF new, read
<1>7. Linked
    BY DEF OlderInv
<1>8. ASSUME NEW q \in Runs, client'[q] = "copy" PROVE ChunksFrom(localData[sink[q]], source[q])'
    <2>1. CASE q = r
        <3>1. localData'[sink'[q]] = new /\ source'[q] = source[r]
            BY <1>0, <1>1, <1>2, <2>1
        <3> QED
            BY <1>1, <1>6, <3>1 DEF ChunksFrom
    <2>2. CASE q # r
        <3>1. client[q] = "copy" /\ PlaceOf[q] # PlaceOf[r]
            BY <1>1, <1>8, <2>2, OwnFiles
        <3>2. sink[q] # sink[r]
            BY <1>0, <1>1, <1>7, <3>1, InodeAssumption DEF Linked, Owned
        <3>3. localData'[sink[q]] = localData[sink[q]] /\ ChunksFrom(localData[sink[q]], source[q])
            BY <1>0, <1>2, <3>1, <3>2 DEF OlderInv, FromSource
        <3> QED
            BY <1>1, <3>3 DEF ChunksFrom
    <2> QED
        BY <2>1, <2>2
<1>9. ASSUME NEW q \in Runs, client'[q] = "fetched"
      PROVE  fileLink'[PlaceOf[q]] # None /\ ChunksFrom(Fetched(q), source[q])'
    <2>1. client[q] = "fetched" /\ PlaceOf[q] # PlaceOf[r]
        BY <1>1, <1>9, OwnFiles
    <2>2. fileLink[PlaceOf[q]] # None /\ ChunksFrom(Fetched(q), source[q])
        BY <2>1 DEF OlderInv, FromSource
    <2>3. fileLink[PlaceOf[q]] \in Runs /\ fileLink[PlaceOf[q]] # sink[r]
        BY <1>0, <1>1, <1>7, <2>1, <2>2, InodeAssumption DEF Linked, Owned
    <2> QED
        BY <1>0, <1>1, <1>2, <2>2, <2>3 DEF ChunksFrom, Fetched
<1>10. Linked'
    BY <1>1, <1>7 DEF Linked, Owned
<1> QED
    BY <1>8, <1>9, <1>10 DEF FromSource

LEMMA RenamePartKeeps ==
    ASSUME OlderInv, NEW r \in Runs, RenamePart(r)
    PROVE  Linked' /\ FromSource'
<1>0. /\ partLink \in [Places -> Runs \cup {None}] /\ fileLink \in [Places -> Runs \cup {None}]
      /\ localData \in [Runs -> Seq(Chunks)] /\ PlaceOf \in [Runs -> Places]
      /\ \A q \in Runs : client[q] = "copy" => sink[q] \in Runs /\ source[q] \in Runs
      /\ client \in [Runs -> {"idle", "dump", "open", "create", "copy", "fetched"}
                             \cup Resetting \cup Loading \cup Over]
    BY TypeFacts, PathsAssumption DEF OlderInv, TypeInv, TypeOK
<1>1. client[r] = "copy" /\ UNCHANGED <<source, sink, redirect, localData>>
    BY DEF RenamePart, server, handles, disk
<1>2. Linked
    BY DEF OlderInv
<1>3. partLink[PlaceOf[r]] = sink[r] /\ sink[r] \in Runs /\ sink[r] # None
    BY <1>0, <1>1, <1>2, InodeAssumption DEF Linked
<1>4. /\ fileLink' = [fileLink EXCEPT ![PlaceOf[r]] = sink[r]]
      /\ partLink' = [partLink EXCEPT ![PlaceOf[r]] = None]
      /\ client' = [client EXCEPT ![r] = "fetched"]
    BY <1>3 DEF RenamePart, ClientAt
<1>5. Linked'
    <2>1. Owned(partLink)' /\ Owned(fileLink)'
        BY <1>0, <1>2, <1>3, <1>4 DEF Linked, Owned, BeforePart
    <2>2. \A l \in Places : partLink'[l] # None => partLink'[l] # fileLink'[l]
        BY <1>0, <1>2, <1>4 DEF Linked
    <2>3. \A q \in Runs : client'[q] = "copy" => partLink'[PlaceOf[q]] = sink'[q]
        BY <1>0, <1>1, <1>2, <1>4, OwnFiles DEF Linked
    <2> QED
        BY <2>1, <2>2, <2>3 DEF Linked
<1>6. ASSUME NEW q \in Runs, client'[q] = "copy" PROVE ChunksFrom(localData[sink[q]], source[q])'
    <2>1. client[q] = "copy"
        BY <1>0, <1>4, <1>6
    <2> QED
        BY <1>1, <2>1 DEF OlderInv, FromSource, ChunksFrom
<1>7. ASSUME NEW q \in Runs, client'[q] = "fetched"
      PROVE  fileLink'[PlaceOf[q]] # None /\ ChunksFrom(Fetched(q), source[q])'
    <2>1. CASE q = r
        <3>1. fileLink'[PlaceOf[q]] = sink[r]
            BY <1>0, <1>4, <2>1
        <3> QED
            BY <1>1, <1>3, <2>1, <3>1 DEF OlderInv, FromSource, ChunksFrom, Fetched
    <2>2. CASE q # r
        <3>1. client[q] = "fetched" /\ PlaceOf[q] # PlaceOf[r]
            BY <1>0, <1>1, <1>4, <1>7, <2>2, OwnFiles
        <3>2. fileLink'[PlaceOf[q]] = fileLink[PlaceOf[q]]
            BY <1>0, <1>4, <3>1
        <3> QED
            BY <1>1, <3>1, <3>2 DEF OlderInv, FromSource, ChunksFrom, Fetched
    <2> QED
        BY <2>1, <2>2
<1> QED
    BY <1>5, <1>6, <1>7 DEF FromSource

\* The steps that touch no file of a machine.
LEMMA ElsewhereKeeps ==
    ASSUME OlderInv, ServerInv', Kept, NEW r \in Runs,
           \/ StartDump(r) \/ ShellStep(r) \/ FailDump(r) \/ FinishDump(r) \/ OpenRemote(r)
           \/ StopClient(r) \/ RestoreStep(r)
    PROVE  Linked' /\ FromSource'
<1>0. /\ client \in [Runs -> {"idle", "dump", "open", "create", "copy", "fetched"}
                             \cup Resetting \cup Loading \cup Over]
      /\ source \in [Runs -> Runs \cup {None}]
    BY TypeFacts DEF OlderInv, TypeInv, TypeOK
<1>1. \A q \in Runs : client[q] \in {"copy", "fetched"} => source[q] \in Runs
    BY <1>0 DEF OlderInv, ServerInv, Unlinked
<1> USE DEF ClientAt, disk, handles, BeforePart
<1>2. CASE StartDump(r) \/ ShellStep(r) \/ FailDump(r)
    <2>1. /\ UNCHANGED <<partLink, fileLink, localData, source, sink>>
          /\ \/ client' = client
             \/ client' = [client EXCEPT ![r] = "dump"] /\ client[r] = "idle"
        BY <1>2 DEF StartDump, Begin, ShellStep, RemoveOldDump, OpenRedirect, WriteDump, TestDump, FailDump
    <2> QED
        BY <1>0, <1>1, <2>1, MachineQuiet DEF OlderInv
<1>3. CASE FinishDump(r) \/ StopClient(r)
    <2>1. /\ UNCHANGED <<partLink, fileLink, localData, source, sink>>
          /\ \E where \in {"open", "failed", "stopped"} :
                client' = [client EXCEPT ![r] = where] /\ (where = "open" => client[r] = "dump")
        BY <1>3 DEF FinishDump, StopClient
    <2> QED
        BY <1>0, <1>1, <2>1, MachineQuiet DEF OlderInv
<1>4. CASE OpenRemote(r)
    <2>1. /\ UNCHANGED <<partLink, fileLink, localData, sink>> /\ client[r] = "open"
          /\ \E where \in {"create", "failed"} : client' = [client EXCEPT ![r] = where]
          /\ \E n : source' = [source EXCEPT ![r] = n]
        BY <1>4 DEF OpenRemote
    <2> QED
        BY <1>0, <1>1, <2>1, MachineQuiet DEF OlderInv
<1>5. CASE RestoreStep(r)
    <2>1. PICK where \in Resetting \cup Loading \cup {"done", "failed"} :
            client' = [client EXCEPT ![r] = where]
        BY <1>5, RestoreMoves DEF OlderInv
    <2>2. UNCHANGED <<partLink, fileLink, localData, source, sink>>
        BY <1>5, RestoreMoves DEF OlderInv
    <2> QED
        BY <1>0, <1>1, <2>1, <2>2, MachineQuiet DEF OlderInv, Resetting, Loading
<1> QED
    BY <1>2, <1>3, <1>4, <1>5

LEMMA OlderInvNext ==
    ASSUME ~Overlap, OlderInv, [Next]_vars
    PROVE  OlderInv'
<1>1. TypeInv'
    BY TypeInvNext DEF OlderInv
<1>2. Alone'
    BY AloneNext DEF OlderInv
<1>3. CASE (\E l \in Places : EngineReady(l)) \/ UNCHANGED vars
    <2>1. UNCHANGED <<remoteLink, remoteData, shell, redirect, partLink, fileLink, localData,
                      client, source, sink, older>>
        BY <1>3 DEF EngineReady, vars, transfer, server, disk, handles
    <2>2. ServerInv'
        BY <2>1 DEF OlderInv, ServerInv, Created, Written, ChunksFrom, Unlinked
    <2>3. Linked' /\ FromSource'
        BY <2>1 DEF OlderInv, Linked, Owned, FromSource, ChunksFrom, Fetched
    <2> QED
        BY <1>1, <1>2, <2>2, <2>3 DEF OlderInv
<1>4. ASSUME NEW r \in Runs, TransferStep(r) \/ ShellStep(r) \/ FailDump(r) \/ StopClient(r)
      PROVE  OlderInv'
    <2>1. ServerInv' /\ Kept
        BY <1>4, TransferKeepsServer DEF OlderInv
    <2>2. Linked' /\ FromSource'
        BY <1>4, <2>1, CreatePartKeeps, CopyChunkKeeps, RenamePartKeeps, ElsewhereKeeps
        DEF TransferStep
    <2> QED
        BY <1>1, <1>2, <2>1, <2>2 DEF OlderInv
<1>5. ASSUME NEW r \in Runs, RestoreStep(r) PROVE OlderInv'
    <2>1. ServerInv' /\ Kept
        BY <1>5, RestoreKeepsServer DEF OlderInv
    <2> QED
        BY <1>1, <1>2, <1>5, <2>1, ElsewhereKeeps DEF OlderInv
<1> QED
    BY <1>3, <1>4, <1>5 DEF Next, CloneStep, RestoreStep

\* When the runs of one machine do not overlap, a run never fetches anything of a dump
\* that was begun before it, whatever other machines do at the same time with the same
\* remote file, and though the dump commands of stopped runs may write on.
THEOREM FetchesNothingOlder == ~Overlap /\ Spec => []NoOlderData
<1> SUFFICES ASSUME ~Overlap PROVE Spec => []NoOlderData
    OBVIOUS
<1>1. OlderInv => NoOlderData
    <2> SUFFICES ASSUME OlderInv, NEW r \in Runs, client[r] = "fetched", NEW q \in older[r],
                        Contains(Fetched(r), q)
                 PROVE  FALSE
        BY DEF NoOlderData
    <2>1. q \in Runs /\ q # Hole
        BY TypeFacts, InodeAssumption DEF OlderInv
    <2>2. PICK i \in 1 .. Len(Fetched(r)) : Fetched(r)[i] = q
        BY DEF Contains
    <2>3. redirect[q] = source[r]
        BY <2>1, <2>2 DEF OlderInv, FromSource, ChunksFrom
    <2> QED
        BY <2>3 DEF OlderInv, ServerInv, Unlinked
<1>2. OlderInv /\ [Next]_vars => OlderInv'
    BY OlderInvNext
<1> QED
    BY <1>1, <1>2, OlderInvInit, PTL DEF Spec
-------------------------------------------------------------------------------------
(* Undisturbed runs.                                                                 *)

OwnServer == \A p, q \in Runs : RemoteOf[p] = RemoteOf[q] => PlaceOf[p] = PlaceOf[q]

Undisturbed == ~Overlap /\ ~Orphans /\ OwnServer
-------------------------------------------------------------------------------------
(* The dump on the server and on its way.                                            *)

Part(r, n) == [i \in 1 .. n |-> r]

\* A dump command runs only while its run waits for it.
Attended == \A r \in Runs : shell[r] \in {"remove", "open", "write"} => client[r] = "dump"

Dumped ==
    /\ \A r \in Runs : shell[r] \in {"none", "remove", "open"} => written[r] = 0
    /\ \A r \in Runs : shell[r] = "open" => remoteLink[RemoteOf[r]] = None
    /\ \A r \in Runs : shell[r] = "write" =>
            /\ remoteLink[RemoteOf[r]] = r /\ redirect[r] = r
            /\ remoteData[r] = Part(r, written[r])
    /\ \A r \in Runs : client[r] \in {"dump", "open"} /\ shell[r] = "ok" =>
            remoteLink[RemoteOf[r]] = r /\ remoteData[r] = Whole(r)

Arriving ==
    /\ \A r \in Runs : client[r] \in BeforePart => copied[r] = 0
    /\ \A r \in Runs : client[r] \in {"create", "copy"} =>
            source[r] = r /\ remoteData[r] = Whole(r)
    /\ \A r \in Runs : client[r] = "copy" =>
            copied[r] <= SizeOf[r] /\ localData[sink[r]] = Part(r, copied[r])

Arrived ==
    /\ FileIsWhole
    /\ \A r \in Runs : client[r] \in {"fetched"} \cup Resetting \cup Loading => Fetched(r) = Whole(r)
    /\ \A r \in Runs : client[r] = "pipe" => input[r] = fileLink[PlaceOf[r]]

WholeInv == OlderInv /\ Attended /\ Dumped /\ Arriving /\ Arrived

LEMMA WholeInvInit == Init => WholeInv
<1>1. Init => Attended /\ Dumped /\ Arriving /\ Arrived
    BY DEF Init, TransferInit, Attended, Dumped, Arriving, Arrived, FileIsWhole, Resetting, Loading
<1> QED
    BY <1>1, OlderInvInit DEF WholeInv

\* The next chunk of a part makes the next part.
LEMMA NextPart ==
    ASSUME NEW r \in Runs, NEW n \in Nat
    PROVE  Part(r, n) \in Seq(Chunks) /\ Len(Part(r, n)) = n /\ WriteAt(Part(r, n), n + 1, r) = Part(r, n + 1)
<1>1. Part(r, n) \in Seq(Chunks)
    BY IsASeq DEF Part, Chunks
<1>2. Len(Part(r, n)) = n
    BY <1>1, LenProperties DEF Part
<1>3. WriteAt(Part(r, n), n + 1, r) = [i \in 1 .. n + 1 |-> IF i = n + 1 THEN r
                                          ELSE IF i <= n THEN Part(r, n)[i] ELSE Hole]
    BY <1>2 DEF WriteAt
<1>4. \A i \in 1 .. n + 1 :
        (IF i = n + 1 THEN r ELSE IF i <= n THEN Part(r, n)[i] ELSE Hole) = r
    BY DEF Part
<1> QED
    BY <1>1, <1>2, <1>3, <1>4 DEF Part

\* The whole dump is its last part.
LEMMA WholeIs ==
    ASSUME NEW r \in Runs
    PROVE  /\ Whole(r) \in Seq(Chunks) /\ Len(Whole(r)) = SizeOf[r]
           /\ \A i \in 1 .. SizeOf[r] : Whole(r)[i] = r
<1>1. Whole(r) = Part(r, SizeOf[r]) /\ SizeOf[r] \in Nat
    BY SizeAssumption DEF Whole, Part
<1> QED
    BY <1>1, NextPart DEF Part

\* Two runs that are under way use different files on the server.
LEMMA OwnPath ==
    ASSUME Undisturbed, Alone, NEW p \in Runs, NEW q \in Runs, p # q, p \notin Idle, q \notin Idle
    PROVE  RemoteOf[p] # RemoteOf[q] /\ PlaceOf[p] # PlaceOf[q]
    BY DEF Undisturbed, OwnServer, Alone

\* <name> is never the .part of a run.
LEMMA FileIsNoPart ==
    ASSUME Linked, NEW l \in Places, NEW m \in Places, partLink[l] # None
    PROVE  fileLink[m] # partLink[l]
<1> SUFFICES ASSUME fileLink[m] = partLink[l] PROVE FALSE
    OBVIOUS
<1>1. PlaceOf[fileLink[m]] = m /\ PlaceOf[partLink[l]] = l
    BY DEF Linked, Owned
<1> QED
    BY <1>1 DEF Linked
-------------------------------------------------------------------------------------
\* A step of dump_remote on the server.
LEMMA ShellKeepsWhole ==
    ASSUME Undisturbed, WholeInv, NEW r \in Runs, ShellStep(r) \/ FailDump(r), UNCHANGED input
    PROVE  Attended' /\ Dumped' /\ Arriving' /\ Arrived'
<1>0. /\ remoteLink \in [RemotePaths -> Runs \cup {None}] /\ remoteData \in [Runs -> Seq(Chunks)]
      /\ shell \in [Runs -> ShellStates] /\ redirect \in [Runs -> Runs \cup {None}]
      /\ written \in [Runs -> Nat] /\ RemoteOf \in [Runs -> RemotePaths]
    BY TypeFacts, PathsAssumption DEF WholeInv, OlderInv
<1>1. UNCHANGED <<partLink, fileLink, localData, client, source, sink, copied>>
    BY DEF ShellStep, RemoveOldDump, OpenRedirect, WriteDump, TestDump, FailDump, disk, handles
<1>2. shell[r] \in {"remove", "open", "write"} /\ client[r] = "dump"
    BY DEF ShellStep, RemoveOldDump, OpenRedirect, WriteDump, TestDump, FailDump, WholeInv, Attended
<1>3. \A q \in Runs \ {r} : client[q] \in {"dump", "open"} => RemoteOf[q] # RemoteOf[r]
    BY <1>2, OwnPath DEF WholeInv, OlderInv, Idle, Over
<1>4. ASSUME \A q \in Runs \ {r} : /\ shell'[q] = shell[q] /\ written'[q] = written[q]
                                   /\ remoteData'[q] = remoteData[q] /\ redirect'[q] = redirect[q],
             \A q \in Runs \ {r} : client[q] \in {"dump", "open"} =>
                                        remoteLink'[RemoteOf[q]] = remoteLink[RemoteOf[q]],
             shell'[r] \in {"none", "remove", "open"} => written'[r] = 0,
             shell'[r] = "open" => remoteLink'[RemoteOf[r]] = None,
             shell'[r] = "write" => /\ remoteLink'[RemoteOf[r]] = r /\ redirect'[r] = r
                                    /\ remoteData'[r] = Part(r, written'[r]),
             shell'[r] = "ok" => remoteLink'[RemoteOf[r]] = r /\ remoteData'[r] = Whole(r)
      PROVE  Attended' /\ Dumped'
    <2>1. Attended'
        BY <1>1, <1>2, <1>4 DEF WholeInv, Attended
    <2>2. \A q \in Runs \ {r} : shell[q] = "open" => client[q] = "dump"
        BY DEF WholeInv, Attended
    <2>3. \A q \in Runs \ {r} : shell[q] = "write" => client[q] = "dump"
        BY DEF WholeInv, Attended
    <2>4. Dumped'
        BY <1>1, <1>4, <2>2, <2>3 DEF WholeInv, Dumped
    <2> QED
        BY <2>1, <2>4
<1>5. Attended' /\ Dumped'
    <2>1. CASE RemoveOldDump(r)
        BY <1>0, <1>3, <1>4, <2>1 DEF RemoveOldDump, ShellAt, WholeInv, Dumped
    <2>2. CASE OpenRedirect(r)
        <3>1. /\ shell[r] = "open" /\ remoteLink[RemoteOf[r]] = None /\ written[r] = 0
            BY <2>2 DEF OpenRedirect, WholeInv, Dumped
        <3>2. /\ remoteLink' = [remoteLink EXCEPT ![RemoteOf[r]] = r]
              /\ remoteData' = [remoteData EXCEPT ![r] = <<>>]
              /\ redirect' = [redirect EXCEPT ![r] = r]
              /\ shell' = [shell EXCEPT ![r] = "write"] /\ written' = written
            BY <2>2, <3>1 DEF OpenRedirect, ShellAt
        <3>3. remoteData'[r] = Part(r, 0)
            <4>1. Part(r, 0) = <<>>
                BY NextPart, EmptySeq DEF Part
            <4> QED
                BY <1>0, <3>2, <4>1
        <3> QED
            BY <1>0, <1>3, <1>4, <3>1, <3>2, <3>3
    <2>3. CASE WriteDump(r)
        <3>1. /\ shell[r] = "write" /\ remoteLink[RemoteOf[r]] = r /\ redirect[r] = r
              /\ remoteData[r] = Part(r, written[r])
            BY <2>3 DEF WriteDump, WholeInv, Dumped
        <3>2. /\ written' = [written EXCEPT ![r] = written[r] + 1]
              /\ remoteData' = [remoteData EXCEPT ![r] = WriteAt(Part(r, written[r]), written[r] + 1, r)]
              /\ UNCHANGED <<remoteLink, shell, redirect>>
            BY <1>0, <2>3, <3>1 DEF WriteDump
        <3>3. remoteData'[r] = Part(r, written'[r])
            BY <1>0, <3>2, NextPart
        <3> QED
            BY <1>0, <1>4, <3>1, <3>2, <3>3
    <2>4. CASE TestDump(r) \/ FailDump(r)
        <3>1. /\ \/ shell' = [shell EXCEPT ![r] = "ok"] /\ shell[r] = "write" /\ written[r] = SizeOf[r]
                 \/ shell' = [shell EXCEPT ![r] = "error"]
              /\ UNCHANGED <<remoteLink, remoteData, redirect, written>>
            BY <2>4 DEF TestDump, FailDump, ShellAt
        <3>2. shell'[r] = "ok" => remoteLink[RemoteOf[r]] = r /\ remoteData[r] = Whole(r)
            BY <1>0, <3>1 DEF WholeInv, Dumped, Part, Whole
        <3> QED
            BY <1>0, <1>4, <3>1, <3>2
    <2> QED
        BY <2>1, <2>2, <2>3, <2>4 DEF ShellStep
<1>6. \A q \in Runs \ {r} : remoteData'[q] = remoteData[q]
    <2>1. CASE OpenRedirect(r)
        BY <1>0, <2>1 DEF OpenRedirect, WholeInv, Dumped
    <2>2. CASE WriteDump(r)
        BY <1>0, <2>2 DEF WriteDump, WholeInv, Dumped
    <2> QED
        BY <2>1, <2>2 DEF ShellStep, RemoveOldDump, TestDump, FailDump
<1>7. Arriving'
    BY <1>1, <1>2, <1>6 DEF WholeInv, Arriving
<1>8. Arrived'
    BY <1>1 DEF WholeInv, Arrived, FileIsWhole, Fetched
<1> QED
    BY <1>5, <1>7, <1>8

\* A step of dump_remote or fetch_dump in the client.
LEMMA ClientKeepsWhole ==
    ASSUME Undisturbed, WholeInv, NEW r \in Runs, TransferStep(r) \/ StopClient(r), UNCHANGED input
    PROVE  Attended' /\ Dumped' /\ Arriving' /\ Arrived'
<1>0. /\ partLink \in [Places -> Runs \cup {None}] /\ fileLink \in [Places -> Runs \cup {None}]
      /\ localData \in [Runs -> Seq(Chunks)] /\ PlaceOf \in [Runs -> Places]
      /\ source \in [Runs -> Runs \cup {None}] /\ sink \in [Runs -> Runs \cup {None}]
      /\ copied \in [Runs -> Nat] /\ shell \in [Runs -> ShellStates]
      /\ SizeOf \in [Runs -> Nat \ {0}]
      /\ client \in [Runs -> {"idle", "dump", "open", "create", "copy", "fetched"}
                             \cup Resetting \cup Loading \cup Over]
    BY TypeFacts, PathsAssumption, SizeAssumption DEF WholeInv, OlderInv, TypeInv, TypeOK
<1> USE DEF ClientAt, ShellAt, server, disk, handles, BeforePart
<1>1. CASE StartDump(r)
    <2>1. /\ client[r] = "idle" /\ client' = [client EXCEPT ![r] = "dump"]
          /\ shell[r] = "none" /\ shell' = [shell EXCEPT ![r] = "remove"]
          /\ UNCHANGED <<remoteLink, remoteData, redirect, written, disk, handles>>
        BY <1>1 DEF StartDump, Begin, WholeInv, OlderInv, ServerInv, Created
    <2>2. Attended' /\ Dumped'
        BY <1>0, <2>1 DEF WholeInv, Attended, Dumped
    <2>3. Arriving' /\ Arrived'
        BY <1>0, <2>1 DEF WholeInv, Arriving, Arrived, FileIsWhole, Fetched, Resetting, Loading
    <2> QED
        BY <2>2, <2>3
<1>2. CASE FinishDump(r) \/ StopClient(r)
    <2>1. /\ UNCHANGED <<remoteLink, remoteData, redirect, written, disk, handles>>
          /\ \/ client' = [client EXCEPT ![r] = "open"] /\ client[r] = "dump" /\ shell[r] = "ok"
             \/ client' = [client EXCEPT ![r] = "failed"] /\ shell[r] \in {"ok", "error"}
             \/ client' = [client EXCEPT ![r] = "stopped"] /\ shell'[r] \in {"ok", "error"}
          /\ \/ shell' = shell
             \/ shell' = [shell EXCEPT ![r] = "ok"] /\ client'[r] = "stopped"
             \/ shell' = [shell EXCEPT ![r] = "error"] /\ client'[r] = "stopped"
        BY <1>0, <1>2 DEF FinishDump, StopClient, Undisturbed
    <2>2. Attended'
        BY <1>0, <2>1 DEF WholeInv, Attended
    <2>3. Dumped'
        <3>1. \A q \in Runs \ {r} : shell'[q] = shell[q] /\ client'[q] = client[q]
            BY <1>0, <2>1
        <3>2. /\ shell'[r] \in {"ok", "error"}
              /\ client'[r] \in {"dump", "open"} /\ shell'[r] = "ok" => client[r] = "dump" /\ shell[r] = "ok"
            BY <1>0, <2>1
        <3> QED
            BY <2>1, <3>1, <3>2 DEF WholeInv, Dumped
    <2>4. Arriving'
        BY <1>0, <2>1 DEF WholeInv, Arriving
    <2>5. Arrived'
        BY <1>0, <2>1 DEF WholeInv, Arrived, FileIsWhole, Fetched, Resetting, Loading
    <2> QED
        BY <2>2, <2>3, <2>4, <2>5
<1>3. CASE OpenRemote(r)
    <2>1. remoteLink[RemoteOf[r]] = r /\ remoteData[r] = Whole(r)
        BY <1>3 DEF OpenRemote, WholeInv, OlderInv, ServerInv, Created, Dumped
    <2>2. /\ UNCHANGED <<remoteLink, remoteData, shell, redirect, written, disk, sink, copied>>
          /\ client[r] = "open" /\ source' = [source EXCEPT ![r] = r]
          /\ client' = [client EXCEPT ![r] = "create"]
        BY <1>0, <1>3, <2>1, InodeAssumption DEF OpenRemote
    <2>3. Attended' /\ Dumped'
        BY <1>0, <2>2 DEF WholeInv, Attended, Dumped
    <2>4. Arriving'
        BY <1>0, <2>1, <2>2 DEF WholeInv, Arriving
    <2>5. Arrived'
        BY <1>0, <2>2 DEF WholeInv, Arrived, FileIsWhole, Fetched, Resetting, Loading
    <2> QED
        BY <2>3, <2>4, <2>5
<1>4. ASSUME client[r] \in {"create", "copy"}, UNCHANGED <<remoteLink, remoteData, shell, redirect, written>>,
             NEW where \in {"copy", "fetched", "failed"}, client' = [client EXCEPT ![r] = where]
      PROVE  Attended' /\ Dumped'
    <2>1. shell[r] = "ok"
        BY <1>4 DEF WholeInv, OlderInv, ServerInv, Created
    <2> QED
        BY <1>0, <1>4, <2>1 DEF WholeInv, Attended, Dumped
<1>5. Alone /\ Linked /\ Linked'
    BY CreatePartKeeps, CopyChunkKeeps, RenamePartKeeps, TransferKeepsServer, ElsewhereKeeps
    DEF TransferStep, WholeInv, OlderInv
\* Another run that is under way is on another machine, and has its files there.
<1>6. ASSUME client[r] \in {"create", "copy"}, NEW q \in Runs, q # r, client[q] \notin {"idle"} \cup Over
      PROVE  PlaceOf[q] # PlaceOf[r]
    BY <1>5, <1>6, OwnPath DEF Idle, Over
<1>7. ASSUME client[r] \in {"create", "copy"}, NEW n \in Runs, PlaceOf[n] = PlaceOf[r],
             NEW q \in Runs, q # r, client[q] = "copy"
      PROVE  sink[q] # n
    <2>1. PlaceOf[q] # PlaceOf[r]
        BY <1>6, <1>7 DEF Over
    <2>2. partLink[PlaceOf[q]] = sink[q] /\ sink[q] # None
        BY <1>5, <1>7, TypeFacts, InodeAssumption DEF Linked, WholeInv, OlderInv
    <2>3. PlaceOf[sink[q]] = PlaceOf[q]
        BY <1>0, <1>5, <2>2 DEF Linked, Owned
    <2> QED
        BY <1>7, <2>1, <2>3
\* A step that writes to the .part only.
<1>8. ASSUME client[r] \in {"create", "copy"}, client' = [client EXCEPT ![r] = "copy"],
             UNCHANGED fileLink, NEW n \in Runs, NEW new, localData' = [localData EXCEPT ![n] = new],
             \A l \in Places : fileLink[l] # n
      PROVE  Arrived'
    <2>1. \A l \in Places : fileLink[l] # None => localData'[fileLink[l]] = localData[fileLink[l]]
        BY <1>0, <1>8
    <2>2. FileIsWhole'
        BY <1>8, <2>1 DEF WholeInv, Arrived, FileIsWhole
    <2>3. \A q \in Runs : client'[q] \in {"fetched"} \cup Resetting \cup Loading =>
            client[q] = client'[q] /\ fileLink[PlaceOf[q]] # None
        BY <1>0, <1>8 DEF WholeInv, OlderInv, FromSource, TypeInv, TypeOK, Resetting, Loading
    <2>4. \A q \in Runs : client'[q] \in {"fetched"} \cup Resetting \cup Loading => Fetched(q)' = Whole(q)
        BY <1>0, <1>8, <2>1, <2>3 DEF WholeInv, Arrived, Fetched
    <2>5. \A q \in Runs : client'[q] = "pipe" => input'[q] = fileLink'[PlaceOf[q]]
        BY <1>0, <1>8 DEF WholeInv, Arrived
    <2> QED
        BY <2>2, <2>4, <2>5 DEF Arrived
<1>9. CASE CreatePart(r)
    <2>1. PICK n \in Runs :
            /\ sink' = [sink EXCEPT ![r] = n]
            /\ partLink' = [partLink EXCEPT ![PlaceOf[r]] = n]
            /\ localData' = [localData EXCEPT ![n] = <<>>]
        BY <1>0, <1>9 DEF CreatePart, PartInode
    <2>2. /\ client[r] = "create" /\ client' = [client EXCEPT ![r] = "copy"]
          /\ UNCHANGED <<remoteLink, remoteData, shell, redirect, written, fileLink, source, copied>>
        BY <1>9 DEF CreatePart
    <2>3. PlaceOf[n] = PlaceOf[r] /\ n # None
        BY <1>0, <1>5, <2>1, InodeAssumption DEF Linked, Owned
    <2>4. \A l \in Places : fileLink[l] # n
        <3>1. \A l \in Places : fileLink'[l] # None => PlaceOf[fileLink'[l]] = l
            BY <1>5 DEF Linked, Owned
        <3>2. partLink'[PlaceOf[r]] # fileLink'[PlaceOf[r]] /\ partLink'[PlaceOf[r]] = n
            BY <1>0, <1>5, <2>1, <2>3 DEF Linked
        <3> QED
            BY <2>2, <2>3, <3>1, <3>2
    <2>5. Arriving'
        <3>1. localData'[sink'[r]] = Part(r, 0) /\ copied'[r] = 0 /\ 0 <= SizeOf[r]
            <4>1. Part(r, 0) = <<>>
                BY NextPart, EmptySeq DEF Part
            <4> QED
                BY <1>0, <2>1, <2>2, <4>1 DEF WholeInv, Arriving
        <3>2. \A q \in Runs : client'[q] \in BeforePart => copied'[q] = 0
            BY <1>0, <2>2 DEF WholeInv, Arriving
        <3>3. \A q \in Runs : client'[q] \in {"create", "copy"} =>
                    source'[q] = q /\ remoteData'[q] = Whole(q)
            BY <1>0, <2>2 DEF WholeInv, Arriving
        <3>4. ASSUME NEW q \in Runs, client'[q] = "copy"
              PROVE  copied'[q] <= SizeOf[q] /\ localData'[sink'[q]] = Part(q, copied'[q])
            <4>1. CASE q = r
                BY <3>1, <4>1
            <4>2. CASE q # r
                <5>1. client[q] = "copy" /\ sink'[q] = sink[q] /\ sink[q] \in Runs
                    BY <1>0, <2>1, <2>2, <3>4, <4>2, TypeFacts DEF WholeInv, OlderInv
                <5>2. localData'[sink[q]] = localData[sink[q]]
                    BY <1>0, <1>7, <2>1, <2>2, <2>3, <4>2, <5>1
                <5> QED
                    BY <2>2, <5>1, <5>2 DEF WholeInv, Arriving
            <4> QED
                BY <4>1, <4>2
        <3> QED
            BY <3>2, <3>3, <3>4 DEF Arriving
    <2> QED
        BY <1>4, <1>8, <2>1, <2>2, <2>4, <2>5
<1>10. CASE CopyChunk(r)
    <2>1. /\ client[r] = "copy" /\ source[r] = r /\ remoteData[r] = Whole(r)
          /\ copied[r] <= SizeOf[r] /\ localData[sink[r]] = Part(r, copied[r]) /\ sink[r] \in Runs
        BY <1>10, TypeFacts DEF CopyChunk, WholeInv, OlderInv, Arriving
    <2>2. /\ copied' = [copied EXCEPT ![r] = copied[r] + 1]
          /\ copied[r] < Len(Whole(r))
          /\ UNCHANGED <<remoteLink, remoteData, shell, redirect, written, partLink, fileLink,
                         client, source, sink>>
        BY <1>0, <1>10, <2>1 DEF CopyChunk, Left
    <2>3. Len(Whole(r)) = SizeOf[r] /\ \A i \in 1 .. SizeOf[r] : Whole(r)[i] = r
        BY WholeIs
    <2>4. localData' = [localData EXCEPT ![sink[r]] = Part(r, copied[r] + 1)]
        <3>1. Whole(r)[copied[r] + 1] = r /\ copied'[r] = copied[r] + 1
            BY <1>0, <2>2, <2>3
        <3>2. WriteAt(localData[sink[r]], copied'[r], remoteData[source[r]][copied'[r]]) = Part(r, copied[r] + 1)
            <4>1. remoteData[source[r]][copied'[r]] = r
                BY <2>1, <3>1
            <4>2. WriteAt(Part(r, copied[r]), copied[r] + 1, r) = Part(r, copied[r] + 1)
                BY <1>0, NextPart
            <4> QED
                BY ONLY <2>1, <3>1, <4>1, <4>2
        <3> QED
            BY <1>10, <3>2 DEF CopyChunk
    <2>5. \A l \in Places : fileLink[l] # sink[r]
        BY <1>0, <1>5, <2>1, FileIsNoPart, InodeAssumption DEF Linked
    <2>6. PlaceOf[sink[r]] = PlaceOf[r]
        BY <1>0, <1>5, <2>1, InodeAssumption DEF Linked, Owned
    <2>7. Arriving'
        <3>1. localData'[sink[r]] = Part(r, copied'[r]) /\ copied'[r] <= SizeOf[r]
            BY <1>0, <2>1, <2>2, <2>3, <2>4
        <3>2. ASSUME NEW q \in Runs, client'[q] = "copy"
              PROVE  copied'[q] <= SizeOf[q] /\ localData'[sink'[q]] = Part(q, copied'[q])
            <4>1. CASE q = r
                BY <2>2, <3>1, <4>1
            <4>2. CASE q # r
                <5>1. client[q] = "copy" /\ sink[q] \in Runs
                    BY <2>2, <3>2, TypeFacts DEF WholeInv, OlderInv
                <5>2. localData'[sink[q]] = localData[sink[q]] /\ copied'[q] = copied[q]
                    BY <1>0, <1>7, <2>1, <2>2, <2>4, <2>6, <4>2, <5>1
                <5> QED
                    BY <2>2, <5>1, <5>2 DEF WholeInv, Arriving
            <4> QED
                BY <4>1, <4>2
        <3> QED
            BY <1>0, <2>1, <2>2, <3>2 DEF WholeInv, Arriving
    <2>8. client' = [client EXCEPT ![r] = "copy"]
        BY <1>0, <2>1, <2>2
    <2> QED
        BY <1>4, <1>8, <2>1, <2>2, <2>4, <2>5, <2>7, <2>8
<1>11. CASE RenamePart(r)
    <2>1. /\ client[r] = "copy" /\ source[r] = r /\ remoteData[r] = Whole(r)
          /\ copied[r] <= SizeOf[r] /\ localData[sink[r]] = Part(r, copied[r]) /\ sink[r] \in Runs
          /\ partLink[PlaceOf[r]] = sink[r]
        BY <1>5, <1>11, TypeFacts DEF RenamePart, WholeInv, OlderInv, Arriving, Linked
    <2>2. Len(Whole(r)) = SizeOf[r]
        BY WholeIs
    <2>3. localData[sink[r]] = Whole(r)
        BY <1>0, <1>11, <2>1, <2>2 DEF RenamePart, Left, Part, Whole
    <2>4. /\ fileLink' = [fileLink EXCEPT ![PlaceOf[r]] = sink[r]]
          /\ client' = [client EXCEPT ![r] = "fetched"]
          /\ UNCHANGED <<remoteLink, remoteData, shell, redirect, written, localData, source, sink, copied>>
        BY <1>11, <2>1, InodeAssumption DEF RenamePart
    <2>5. Arriving'
        BY <1>0, <2>4 DEF WholeInv, Arriving
    <2>6. FileIsWhole'
        BY <1>0, <2>3, <2>4 DEF WholeInv, Arrived, FileIsWhole
    <2>7. \A q \in Runs \ {r} : client'[q] \in {"fetched"} \cup Resetting \cup Loading =>
            client[q] = client'[q] /\ fileLink'[PlaceOf[q]] = fileLink[PlaceOf[q]]
        BY <1>0, <1>6, <2>1, <2>4 DEF Over, Resetting, Loading
    <2>8. Arrived'
        <3>1. \A q \in Runs : client'[q] \in {"fetched"} \cup Resetting \cup Loading => Fetched(q)' = Whole(q)
            BY <1>0, <2>3, <2>4, <2>7 DEF WholeInv, Arrived, Fetched
        <3>2. \A q \in Runs : client'[q] = "pipe" => input'[q] = fileLink'[PlaceOf[q]]
            BY <1>0, <2>4, <2>7 DEF WholeInv, Arrived, Loading
        <3> QED
            BY <2>6, <3>1, <3>2 DEF Arrived
    <2> QED
        BY <1>4, <2>1, <2>4, <2>5, <2>8
<1> QED
    BY <1>1, <1>2, <1>3, <1>9, <1>10, <1>11 DEF TransferStep

\* A step of the reset or the restore.
LEMMA RestoreKeepsWhole ==
    ASSUME WholeInv, NEW r \in Runs, RestoreStep(r)
    PROVE  Attended' /\ Dumped' /\ Arriving' /\ Arrived'
<1>0. client \in [Runs -> {"idle", "dump", "open", "create", "copy", "fetched"}
                          \cup Resetting \cup Loading \cup Over]
    BY DEF WholeInv, OlderInv, TypeInv, TypeOK
<1>1. PICK where \in Resetting \cup Loading \cup {"done", "failed"} :
        client' = [client EXCEPT ![r] = where]
    BY RestoreMoves DEF WholeInv, OlderInv
<1>2. /\ client[r] \in {"fetched"} \cup Resetting \cup Loading
      /\ UNCHANGED <<remoteLink, remoteData, shell, redirect, written, fileLink, localData, source, sink, copied>>
    BY RestoreMoves DEF WholeInv, OlderInv
<1>3. Attended' /\ Dumped'
    BY <1>0, <1>1, <1>2 DEF WholeInv, Attended, Dumped, Resetting, Loading
<1>4. Arriving'
    BY <1>0, <1>1, <1>2 DEF WholeInv, Arriving, BeforePart, Resetting, Loading
<1>5. \A q \in Runs : client'[q] = "pipe" => input'[q] = fileLink[PlaceOf[q]]
    <2>1. CASE OpenInput(r)
        <3>1. input \in [Runs -> Runs \cup {None}]
            BY DEF WholeInv, OlderInv, TypeInv, TypeOK
        <3> QED
            BY <1>0, <2>1, <3>1 DEF OpenInput, Move, ClientAt, WholeInv, Arrived
    <2>2. CASE LoadTable(r)
        BY <1>0, <2>2 DEF LoadTable, Move, ClientAt, WholeInv, Arrived
    <2>3. CASE ~OpenInput(r) /\ ~LoadTable(r)
        <3>1. input' = input
            BY <2>3 DEF RestoreStep, Fetch, ComposeDown, RemoveVolume, CreateVolume, ComposeUp,
                        WaitReady, Drop, Create, EndLoad
        <3>2. \A q \in Runs : client'[q] = "pipe" => client[q] = "pipe"
            BY <1>0, <1>1, <2>3 DEF RestoreStep, Fetch, ComposeDown, RemoveVolume, CreateVolume, ComposeUp,
                        WaitReady, AfterWait, Drop, Create, EndLoad, Move, ClientAt
        <3> QED
            BY <3>1, <3>2 DEF WholeInv, Arrived
    <2> QED
        BY <2>1, <2>2, <2>3
<1>6. Arrived'
    BY <1>0, <1>1, <1>2, <1>5 DEF WholeInv, Arrived, FileIsWhole, Fetched, Resetting, Loading
<1> QED
    BY <1>3, <1>4, <1>6

LEMMA WholeInvNext ==
    ASSUME Undisturbed, WholeInv, [Next]_vars
    PROVE  WholeInv'
<1>1. OlderInv'
    BY OlderInvNext DEF Undisturbed, WholeInv
<1>2. CASE (\E l \in Places : EngineReady(l)) \/ UNCHANGED vars
    <2>1. UNCHANGED <<remoteLink, remoteData, shell, redirect, written, partLink, fileLink,
                      localData, client, source, sink, copied, input>>
        BY <1>2 DEF EngineReady, vars, transfer, server, disk, handles, data
    <2>2. Attended' /\ Dumped' /\ Arriving' /\ Arrived'
        BY <2>1 DEF WholeInv, Attended, Dumped, Arriving, Arrived, FileIsWhole, Fetched
    <2> QED
        BY <1>1, <2>2 DEF WholeInv
<1>3. ASSUME NEW r \in Runs, RestoreStep(r) PROVE WholeInv'
    BY <1>1, <1>3, RestoreKeepsWhole DEF WholeInv
<1>4. ASSUME NEW r \in Runs, UNCHANGED data,
             TransferStep(r) \/ ShellStep(r) \/ FailDump(r) \/ StopClient(r)
      PROVE  WholeInv'
    <2>1. UNCHANGED input
        BY <1>4 DEF data
    <2> QED
        BY <1>1, <1>4, <2>1, ShellKeepsWhole, ClientKeepsWhole DEF WholeInv
<1> QED
    BY <1>2, <1>3, <1>4 DEF Next, CloneStep, RestoreStep

\* What is at <name> on a machine is at any time the whole dump of one run.
THEOREM FilesAreWhole == Undisturbed /\ Spec => []FileIsWhole
<1> SUFFICES ASSUME Undisturbed PROVE Spec => []FileIsWhole
    OBVIOUS
<1>1. WholeInv => FileIsWhole
    BY DEF WholeInv, Arrived
<1>2. WholeInv /\ [Next]_vars => WholeInv'
    BY WholeInvNext
<1> QED
    BY <1>1, <1>2, WholeInvInit, PTL DEF Spec
-------------------------------------------------------------------------------------
(* The local database under reset and restore.                                       *)

Working(r) == client[r] \in Resetting \cup Loading

\* The server of a database outside Compose is up; only a reset starts or stops one.
EngineInv ==
    /\ \A l \in Places \ Composed : engine[l] = "ready"
    /\ \A l \in Places : project[l].reset = "volume" \/ ~project[l].serviced => l \in Composed
    /\ \A l \in Places : project[l].reset = "none" => engine[l] # "starting"

\* What a run that is loading has loaded: a first part of its dump, and after a reset
\* there is nothing else.
Loaded(r) ==
    At(r) \in Contents =>
        /\ Selected(r) => \A t \in 1 .. piped[r] : At(r)[t] = r
        /\ Of(r).reset # "none" =>
              \A t \in Tables : (Selected(r) => t \notin 1 .. piped[r]) => At(r)[t] = None

\* What the earlier steps of a run have made of the server and the database.
RunInv(r) ==
    /\ client[r] \in {"down", "rmvolume", "mkvolume"} => Of(r).reset = "volume"
    /\ client[r] \in {"up", "wait"} => Of(r).reset # "none"
    /\ client[r] \in {"drop", "create_db"} => Of(r).reset = "drop-create" /\ Up(r)
    /\ client[r] = "rmvolume" => engine[PlaceOf[r]] = "down"
    /\ client[r] = "mkvolume" => At(r) = None
    /\ client[r] \in {"up", "wait"} /\ Of(r).reset = "volume" => At(r) = NoTables
    /\ client[r] = "load" /\ Of(r).reset # "none" => Up(r) /\ At(r) = NoTables
    /\ client[r] = "pipe" =>
            /\ Of(r).reset # "none" => Up(r) /\ At(r) # Missing
            /\ piped[r] <= SizeOf[r]
            /\ Loaded(r)
    /\ client[r] \notin {"pipe"} \cup Over => piped[r] = 0

RunsInv == EngineInv /\ \A r \in Runs : RunInv(r)

CloneInv == WholeInv /\ RunsInv

LEMMA CloneInvInit == Init => CloneInv
<1> SUFFICES ASSUME Init PROVE CloneInv
    OBVIOUS
<1>1. RunsInv
    BY DEF Init, TransferInit, RunsInv, EngineInv, RunInv
<1> QED
    BY <1>1, WholeInvInit DEF CloneInv

\* What the invariant says of the types, and that the tables of a dump are tables.
LEMMA RestoreFacts ==
    ASSUME CloneInv
    PROVE  /\ client \in [Runs -> {"idle", "dump", "open", "create", "copy", "fetched"}
                                  \cup Resetting \cup Loading \cup Over]
           /\ project \in [Places -> Projects]
           /\ \A l \in Places : project[l].reset \in {"none", "drop-create", "volume"}
           /\ engine \in [Places -> {"down", "starting", "ready"}]
           /\ database \in [Places -> Contents \cup {Missing, None}]
           /\ \A l \in Places : engine[l] # "down" => database[l] # None
           /\ piped \in [Runs -> Nat] /\ PlaceOf \in [Runs -> Places]
           /\ SizeOf \in [Runs -> Nat \ {0}]
           /\ NoTables \in Contents
           /\ \A r \in Runs : 1 .. SizeOf[r] \subseteq Tables
<1>1. NoTables \in Contents
    BY DEF NoTables, Contents
<1>2. \A l \in Places : project[l] \in Projects => project[l].reset \in {"none", "drop-create", "volume"}
    BY ProjectsAssumption DEF Project
<1>3. \A r \in Runs : 1 .. SizeOf[r] \subseteq Tables
    BY DEF Tables
<1> QED
    BY <1>1, <1>2, <1>3, PathsAssumption, SizeAssumption
    DEF CloneInv, WholeInv, OlderInv, TypeInv, TypeOK

\* A run at work is the only one at its place.
LEMMA OthersElsewhere ==
    ASSUME CloneInv, NEW r \in Runs, client[r] \notin {"idle"} \cup Over,
           NEW q \in Runs, q # r, client[q] \notin {"idle"} \cup Over
    PROVE  PlaceOf[q] # PlaceOf[r]
    BY DEF CloneInv, WholeInv, OlderInv, Alone, Idle, Over

\* A step of one run that changes the server and the database of its own place only.
LEMMA RunFrame ==
    ASSUME CloneInv, NEW r \in Runs, client[r] \notin {"idle"} \cup Over, NEW where,
           client' = [client EXCEPT ![r] = where], project' = project,
           \A l \in Places \ {PlaceOf[r]} : engine'[l] = engine[l] /\ database'[l] = database[l],
           \A q \in Runs \ {r} : piped'[q] = piped[q],
           EngineInv', RunInv(r)'
    PROVE  RunsInv'
<1> SUFFICES ASSUME NEW q \in Runs, q # r PROVE RunInv(q)'
    BY DEF RunsInv
<1>1. client'[q] = client[q] /\ piped'[q] = piped[q] /\ Of(q)' = Of(q) /\ Selected(q)' = Selected(q)
    BY RestoreFacts DEF Of, Selected
<1>2. RunInv(q)
    BY DEF CloneInv, RunsInv
<1>3. CASE Working(q)
    <2>1. PlaceOf[q] # PlaceOf[r] /\ PlaceOf[q] \in Places
        BY <1>3, OthersElsewhere, RestoreFacts DEF Working, Resetting, Loading, Over
    <2>2. At(q)' = At(q) /\ Up(q)' = Up(q) /\ engine'[PlaceOf[q]] = engine[PlaceOf[q]]
        BY <2>1 DEF At, Up
    <2>3. Loaded(q) => Loaded(q)'
        BY <1>1, <2>2 DEF Loaded
    <2> QED
        BY <1>1, <1>2, <2>2, <2>3 DEF RunInv
<1>4. CASE ~Working(q)
    BY <1>1, <1>2, <1>4 DEF RunInv, Working, Resetting, Loading
<1> QED
    BY <1>3, <1>4

\* The steps that come before the reset, and the end of a run that is stopped.
LEMMA TransferKeepsRuns ==
    ASSUME CloneInv, NEW r \in Runs, UNCHANGED data,
           TransferStep(r) \/ ShellStep(r) \/ FailDump(r) \/ StopClient(r)
    PROVE  RunsInv'
<1>1. CASE client' = client
    BY <1>1 DEF CloneInv, RunsInv, EngineInv, RunInv, Loaded, data, Of, Up, At, Selected
<1>2. CASE StartDump(r) \/ FinishDump(r) \/ OpenRemote(r) \/ CreatePart(r) \/ RenamePart(r) \/ StopClient(r)
    <2>1. PICK where \in {"dump", "open", "create", "copy", "fetched"} \cup Over :
            /\ client' = [client EXCEPT ![r] = where]
            /\ where \in Over \/ client[r] \in {"idle", "dump", "open", "create", "copy"}
        BY <1>2 DEF StartDump, Begin, FinishDump, OpenRemote, CreatePart, RenamePart, StopClient,
                    ClientAt, Over
    <2>2. \A q \in Runs \ {r} : client'[q] = client[q]
        BY <2>1, RestoreFacts
    <2>3. client'[r] = where
        BY <2>1, RestoreFacts
    <2>4. ASSUME NEW q \in Runs \ {r} PROVE RunInv(q)'
        BY <2>2 DEF CloneInv, RunsInv, RunInv, Loaded, data, Of, Up, At, Selected
    <2>5. RunInv(r)'
        BY <2>1, <2>3 DEF CloneInv, RunsInv, RunInv, data, Over
    <2> QED
        BY <2>4, <2>5 DEF RunsInv, EngineInv, CloneInv, data
<1> QED
    BY <1>1, <1>2 DEF TransferStep, ShellStep, RemoveOldDump, OpenRedirect, WriteDump, TestDump,
                      FailDump, CopyChunk

\* The steps of the reset and the restore.
LEMMA RestoreKeepsRuns ==
    ASSUME CloneInv, NEW r \in Runs, RestoreStep(r)
    PROVE  RunsInv'
<1>0. RunInv(r) /\ EngineInv /\ PlaceOf[r] \in Places /\ client[r] \notin {"idle"} \cup Over
    BY RestoreFacts, RestoreMoves
    DEF CloneInv, RunsInv, WholeInv, OlderInv, Resetting, Loading, Over
<1> USE DEF Move, ClientAt, Becomes
\* The frame: a step that leaves the other places alone and establishes what it should.
<1>1. ASSUME NEW where, client' = [client EXCEPT ![r] = where], project' = project,
             engine' \in [Places -> {"down", "starting", "ready"}],
             \A l \in Places \ {PlaceOf[r]} : engine'[l] = engine[l] /\ database'[l] = database[l],
             \A q \in Runs \ {r} : piped'[q] = piped[q],
             \/ engine'[PlaceOf[r]] = engine[PlaceOf[r]]
             \/ engine'[PlaceOf[r]] = "down" /\ Of(r).reset = "volume"
             \/ engine'[PlaceOf[r]] = "starting" /\ Of(r).reset # "none" /\ ~Up(r),
             client'[r] = where => RunInv(r)'
      PROVE  RunsInv'
    <2>1. EngineInv'
        BY <1>0, <1>1, RestoreFacts DEF EngineInv, Of, Up
    <2>2. client'[r] = where
        BY <1>1, RestoreFacts
    <2> QED
        BY <1>0, <1>1, <2>1, <2>2, RunFrame
<1>2. CASE Fetch(r)
    <2>1. /\ client[r] = "fetched" /\ UNCHANGED <<project, engine, database, pings, input, piped>>
          /\ \/ client' = [client EXCEPT ![r] = "done"]
             \/ client' = [client EXCEPT ![r] = "load"] /\ Of(r).reset = "none"
             \/ client' = [client EXCEPT ![r] = "down"] /\ Of(r).reset = "volume"
             \/ client' = [client EXCEPT ![r] = "up"] /\ Of(r).reset = "drop-create"
             \/ /\ client' = [client EXCEPT ![r] = "drop"] /\ Of(r).reset = "drop-create"
                /\ PlaceOf[r] \notin Composed
        BY <1>0, <1>2, RestoreFacts DEF Fetch, Of
    <2>2. PlaceOf[r] \notin Composed => Up(r)
        BY <1>0 DEF EngineInv, Up
    <2>3. piped[r] = 0
        BY <1>0, <2>1 DEF RunInv, Over
    <2>4. ASSUME NEW where \in {"done", "load", "down", "up", "drop"}, client'[r] = where,
                 where = "load" => Of(r).reset = "none",
                 where = "down" => Of(r).reset = "volume",
                 where \in {"up", "drop"} => Of(r).reset = "drop-create",
                 where = "drop" => Up(r)
          PROVE  RunInv(r)'
        BY <2>1, <2>3, <2>4 DEF RunInv, Of, Up, Over
    <2> QED
        BY <1>0, <1>1, <2>1, <2>2, <2>4, RestoreFacts
<1>3. CASE ComposeDown(r)
    <2>1. /\ client[r] = "down" /\ client' = [client EXCEPT ![r] = "rmvolume"]
          /\ engine' = [engine EXCEPT ![PlaceOf[r]] = "down"]
          /\ UNCHANGED <<project, database, piped>> /\ Of(r).reset = "volume" /\ piped[r] = 0
        BY <1>0, <1>3 DEF ComposeDown, RunInv, Over
    <2>2. client'[r] = "rmvolume" => RunInv(r)'
        BY <1>0, <2>1, RestoreFacts DEF RunInv, Of, Over
    <2> QED
        BY <1>0, <1>1, <2>1, <2>2, RestoreFacts
<1>4. CASE RemoveVolume(r)
    <2>1. /\ client[r] = "rmvolume" /\ client' = [client EXCEPT ![r] = "mkvolume"]
          /\ database' = [database EXCEPT ![PlaceOf[r]] = None]
          /\ UNCHANGED <<project, engine, piped>> /\ Of(r).reset = "volume" /\ piped[r] = 0
        BY <1>0, <1>4 DEF RemoveVolume, RunInv, Over
    <2>2. client'[r] = "mkvolume" => RunInv(r)'
        BY <1>0, <2>1, RestoreFacts DEF RunInv, Of, At, Over
    <2> QED
        BY <1>0, <1>1, <2>1, <2>2, RestoreFacts
<1>5. CASE CreateVolume(r)
    <2>1. /\ client[r] = "mkvolume" /\ client' = [client EXCEPT ![r] = "up"]
          /\ database' = [database EXCEPT ![PlaceOf[r]] = NoTables]
          /\ UNCHANGED <<project, engine, piped>> /\ Of(r).reset = "volume" /\ piped[r] = 0
        BY <1>0, <1>5 DEF CreateVolume, RunInv, Over
    <2>2. client'[r] = "up" => RunInv(r)'
        BY <1>0, <2>1, RestoreFacts DEF RunInv, Of, At, Over
    <2> QED
        BY <1>0, <1>1, <2>1, <2>2, RestoreFacts
<1>6. CASE ComposeUp(r)
    <2>1. /\ client[r] = "up" /\ client' = [client EXCEPT ![r] = "wait"]
          /\ engine' = [engine EXCEPT ![PlaceOf[r]] = IF Up(r) THEN "ready" ELSE "starting"]
          /\ database' = [database EXCEPT ![PlaceOf[r]] = IF At(r) = None THEN NoTables ELSE At(r)]
          /\ UNCHANGED <<project, piped>> /\ Of(r).reset # "none" /\ piped[r] = 0
          /\ Of(r).reset = "volume" => At(r) = NoTables
        BY <1>0, <1>6 DEF ComposeUp, RunInv, Over
    <2>2. client'[r] = "wait" => RunInv(r)'
        BY <1>0, <2>1, RestoreFacts DEF RunInv, Of, At, Over
    <2>3. /\ engine' \in [Places -> {"down", "starting", "ready"}]
          /\ \/ engine'[PlaceOf[r]] = engine[PlaceOf[r]]
             \/ engine'[PlaceOf[r]] = "starting" /\ ~Up(r)
        BY <1>0, <2>1, RestoreFacts DEF Up
    <2> QED
        BY <1>0, <1>1, <2>1, <2>2, <2>3, RestoreFacts
<1>7. CASE WaitReady(r)
    <2>1. /\ client[r] = "wait" /\ Of(r).reset # "none" /\ piped[r] = 0
          /\ UNCHANGED <<project, engine, database, piped>>
          /\ Of(r).reset = "volume" => At(r) = NoTables
        BY <1>0, <1>7 DEF WaitReady, RunInv, Over
    <2>2. PICK where \in {"failed", "load", "drop", "wait"} :
            /\ client' = [client EXCEPT ![r] = where]
            /\ where = "load" => Up(r) /\ Of(r).reset = "volume"
            /\ where = "drop" => Up(r) /\ Of(r).reset = "drop-create"
        BY <1>0, <1>7, <2>1, RestoreFacts DEF WaitReady, AfterWait, Of
    <2>3. client'[r] = where => RunInv(r)'
        BY <2>1, <2>2 DEF RunInv, Of, Up, At, Over
    <2> QED
        BY <1>0, <1>1, <2>1, <2>2, <2>3, RestoreFacts
<1>8. CASE Drop(r)
    <2>1. /\ client[r] = "drop" /\ Of(r).reset = "drop-create" /\ Up(r) /\ piped[r] = 0
          /\ UNCHANGED <<project, engine, piped>>
        BY <1>0, <1>8 DEF Drop, RunInv, Over
    <2>2. PICK where \in {"failed", "load", "create_db"} :
            /\ client' = [client EXCEPT ![r] = where]
            /\ \E what : /\ database' = [database EXCEPT ![PlaceOf[r]] = what]
                         /\ where = "load" => what = NoTables
        BY <1>8 DEF Drop
    <2>3. client'[r] = where => RunInv(r)'
        BY <1>0, <2>1, <2>2, RestoreFacts DEF RunInv, Of, Up, At, Over
    <2> QED
        BY <1>0, <1>1, <2>1, <2>2, <2>3, RestoreFacts
<1>9. CASE Create(r)
    <2>1. /\ client[r] = "create_db" /\ Of(r).reset = "drop-create" /\ Up(r) /\ piped[r] = 0
          /\ client' = [client EXCEPT ![r] = "load"]
          /\ database' = [database EXCEPT ![PlaceOf[r]] = NoTables]
          /\ UNCHANGED <<project, engine, piped>>
        BY <1>0, <1>9 DEF Create, RunInv, Over
    <2>2. client'[r] = "load" => RunInv(r)'
        BY <1>0, <2>1, RestoreFacts DEF RunInv, Of, Up, At, Over
    <2> QED
        BY <1>0, <1>1, <2>1, <2>2, RestoreFacts
<1>10. CASE OpenInput(r)
    <2>1. /\ client[r] = "load" /\ piped[r] = 0 /\ UNCHANGED <<project, engine, database, piped>>
          /\ Of(r).reset # "none" => Up(r) /\ At(r) = NoTables
          /\ \/ client' = [client EXCEPT ![r] = "pipe"]
             \/ client' = [client EXCEPT ![r] = "failed"]
        BY <1>0, <1>10 DEF OpenInput, RunInv, Over
    <2>2. Of(r)' = Of(r) /\ Up(r)' = Up(r) /\ At(r)' = At(r) /\ Selected(r)' = Selected(r)
        BY <2>1 DEF Of, Up, At, Selected
    <2>3. Of(r).reset # "none" => Up(r) /\ At(r) # Missing
        BY <2>1, MarksAssumption, RestoreFacts
    <2>4. Loaded(r)'
        BY <2>1, <2>2 DEF Loaded, NoTables
    <2>5. ASSUME NEW where \in {"pipe", "failed"}, client'[r] = where PROVE RunInv(r)'
        BY <2>1, <2>2, <2>3, <2>4, <2>5, RestoreFacts DEF RunInv, Over
    <2> QED
        BY <1>0, <1>1, <2>1, <2>5, RestoreFacts
<1>11. CASE LoadTable(r)
    <2>1. /\ client[r] = "pipe" /\ client' = [client EXCEPT ![r] = "pipe"] /\ Up(r)
          /\ UNCHANGED <<project, engine>> /\ At(r) \in Contents
        BY <1>0, <1>11, RestoreFacts DEF LoadTable, CanLoad, Up, At
    <2>2. localData[input[r]] = Whole(r)
        BY <2>1 DEF CloneInv, WholeInv, Arrived, Fetched, Loading
    <2>3. piped[r] + 1 \in 1 .. SizeOf[r] /\ localData[input[r]][piped[r] + 1] = r
        BY <1>11, <2>2, WholeIs, RestoreFacts DEF LoadTable, Unread
    <2>4. /\ piped' = [piped EXCEPT ![r] = piped[r] + 1]
          /\ database' = [database EXCEPT ![PlaceOf[r]] =
                IF Selected(r) THEN [At(r) EXCEPT ![piped[r] + 1] = r] ELSE At(r)]
        <3>1. piped' = [piped EXCEPT ![r] = piped[r] + 1] /\ piped'[r] = piped[r] + 1
            BY <1>11, RestoreFacts DEF LoadTable
        <3>2. database' = [database EXCEPT ![PlaceOf[r]] =
                IF Selected(r) THEN [At(r) EXCEPT ![piped'[r]] = localData[input[r]][piped'[r]]] ELSE At(r)]
            BY <1>11 DEF LoadTable
        <3> QED
            BY <2>3, <3>1, <3>2
    <2>5. Loaded(r)
        BY <1>0, <2>1 DEF RunInv
    <2>6. /\ Of(r)' = Of(r) /\ Up(r)' = Up(r) /\ Selected(r)' = Selected(r)
          /\ At(r)' = IF Selected(r) THEN [At(r) EXCEPT ![piped[r] + 1] = r] ELSE At(r)
          /\ piped'[r] = piped[r] + 1
        BY <1>0, <2>1, <2>4, RestoreFacts DEF Of, Up, At, Selected
    <2>7. piped[r] + 1 \in Tables /\ r \in Chunks /\ piped[r] \in Nat
        BY <2>3, RestoreFacts DEF Chunks
    <2>8. At(r)' \in Contents /\ At(r)' # Missing
        BY <2>1, <2>6, <2>7, MarksAssumption DEF Contents
    <2>9. CASE Selected(r)
        <3>1. \A t \in Tables : At(r)'[t] = IF t = piped[r] + 1 THEN r ELSE At(r)[t]
            BY <2>1, <2>6, <2>9 DEF Contents
        <3>2. \A t \in 1 .. piped[r] + 1 : At(r)'[t] = r
            <4> SUFFICES ASSUME NEW t \in 1 .. piped[r] + 1 PROVE At(r)'[t] = r
                OBVIOUS
            <4>1. t \in Tables
                BY <2>3, RestoreFacts
            <4>2. t = piped[r] + 1 \/ t \in 1 .. piped[r]
                BY <2>7
            <4> QED
                BY <2>1, <2>5, <2>9, <3>1, <4>1, <4>2 DEF Loaded
        <3>3. Of(r).reset # "none" => \A t \in Tables : t \notin 1 .. piped[r] + 1 => At(r)'[t] = None
            BY <2>1, <2>5, <2>7, <2>9, <3>1 DEF Loaded
        <3>4. Loaded(r)'
            BY <2>6, <2>9, <3>2, <3>3 DEF Loaded
        <3>5. client'[r] = "pipe" => RunInv(r)'
            BY <2>1, <2>3, <2>6, <2>8, <3>4, RestoreFacts DEF RunInv
        <3> QED
            BY <1>0, <1>1, <2>1, <2>4, <3>5, RestoreFacts
    <2>10. CASE ~Selected(r)
        <3>1. Loaded(r)'
            BY <2>1, <2>5, <2>6, <2>10 DEF Loaded
        <3>2. client'[r] = "pipe" => RunInv(r)'
            BY <2>1, <2>3, <2>6, <2>8, <3>1, RestoreFacts DEF RunInv
        <3> QED
            BY <1>0, <1>1, <2>1, <2>4, <3>2, RestoreFacts
    <2> QED
        BY <2>9, <2>10
<1>12. CASE EndLoad(r)
    <2>1. /\ UNCHANGED <<project, engine, database, piped>>
          /\ \/ client' = [client EXCEPT ![r] = "done"]
             \/ client' = [client EXCEPT ![r] = "failed"]
        BY <1>12 DEF EndLoad
    <2>2. ASSUME NEW where \in Over, client'[r] = where PROVE RunInv(r)'
        BY <2>2 DEF RunInv, Over
    <2> QED
        BY <1>0, <1>1, <2>1, <2>2, RestoreFacts DEF Over
<1> QED
    BY <1>2, <1>3, <1>4, <1>5, <1>6, <1>7, <1>8, <1>9, <1>10, <1>11, <1>12 DEF RestoreStep

LEMMA CloneInvNext ==
    ASSUME Undisturbed, CloneInv, [Next]_vars
    PROVE  CloneInv'
<1>1. WholeInv'
    BY WholeInvNext DEF CloneInv
<1>2. CASE UNCHANGED vars
    <2>1. UNCHANGED <<client, project, engine, database, piped>>
        BY <1>2 DEF vars, transfer, data
    <2>2. EngineInv'
        BY <2>1 DEF CloneInv, RunsInv, EngineInv
    <2>3. ASSUME NEW r \in Runs PROVE RunInv(r)'
        BY <2>1 DEF CloneInv, RunsInv, RunInv, Loaded, Of, Up, At, Selected
    <2> QED
        BY <1>1, <2>2, <2>3 DEF CloneInv, RunsInv
<1>3. ASSUME NEW l \in Places, EngineReady(l) PROVE RunsInv'
    <2>1. /\ engine[l] = "starting" /\ engine' = [engine EXCEPT ![l] = "ready"]
          /\ UNCHANGED <<client, project, database, piped>>
        BY <1>3 DEF EngineReady, transfer
    <2>2. EngineInv'
        BY <2>1, RestoreFacts DEF CloneInv, RunsInv, EngineInv
    <2>3. ASSUME NEW r \in Runs PROVE RunInv(r)'
        <3>1. /\ Up(r) => Up(r)'
              /\ engine[PlaceOf[r]] = "down" => engine'[PlaceOf[r]] = "down"
            BY <2>1, RestoreFacts DEF Up
        <3> QED
            BY <2>1, <3>1 DEF CloneInv, RunsInv, RunInv, Loaded, Of, At, Selected
    <2> QED
        BY <2>2, <2>3 DEF RunsInv
<1>4. ASSUME NEW r \in Runs, RestoreStep(r) PROVE RunsInv'
    BY <1>4, RestoreKeepsRuns
<1>5. ASSUME NEW r \in Runs, UNCHANGED data,
             TransferStep(r) \/ ShellStep(r) \/ FailDump(r) \/ StopClient(r)
      PROVE  RunsInv'
    BY <1>5, TransferKeepsRuns
<1> QED
    BY <1>1, <1>2, <1>3, <1>4, <1>5 DEF Next, CloneStep, RestoreStep, CloneInv

\* Whose step it is, when the control state of a run changes.
LEMMA WhoMoves ==
    ASSUME CloneInv, [Next]_vars, NEW r \in Runs, client'[r] # client[r]
    PROVE  \/ RestoreStep(r)
           \/ UNCHANGED data /\ (TransferStep(r) \/ StopClient(r))
<1>1. CASE (\E l \in Places : EngineReady(l)) \/ UNCHANGED vars
    BY <1>1 DEF EngineReady, vars, transfer
<1>2. ASSUME NEW q \in Runs, RestoreStep(q), q # r PROVE FALSE
    BY <1>2, RestoreMoves, RestoreFacts DEF CloneInv, WholeInv, OlderInv
<1>3. ASSUME NEW q \in Runs, TransferStep(q) \/ ShellStep(q) \/ FailDump(q) \/ StopClient(q), q # r
      PROVE  FALSE
    <2>1. client' = client \/ \E where : client' = [client EXCEPT ![q] = where]
        BY <1>3, TransferMoves DEF StartDump, Begin, ClientAt
    <2> QED
        BY <1>3, <2>1, RestoreFacts
<1>4. ~ShellStep(r) /\ ~FailDump(r)
    BY DEF ShellStep, RemoveOldDump, OpenRedirect, WriteDump, TestDump, FailDump
<1> QED
    BY <1>1, <1>2, <1>3, <1>4 DEF Next, CloneStep, RestoreStep

\* A clone that reports success has loaded its own dump: the whole of it, and after a
\* reset nothing besides.
THEOREM SuccessIsOwnDump == Undisturbed /\ Spec => ClonesItsOwnDump
<1> SUFFICES ASSUME Undisturbed PROVE Spec => ClonesItsOwnDump
    OBVIOUS
<1> DEFINE A == \A r \in Runs \ Backups :
        (client[r] # "done" /\ client'[r] = "done") /\ Selected(r) =>
            /\ \A t \in 1 .. SizeOf[r] : At(r)'[t] = r
            /\ Of(r).reset # "none" => \A t \in Tables \ 1 .. SizeOf[r] : At(r)'[t] = None
<1>1. CloneInv /\ [Next]_vars => A
    <2> SUFFICES ASSUME CloneInv, [Next]_vars, NEW r \in Runs \ Backups,
                        client[r] # "done", client'[r] = "done", Selected(r)
                 PROVE  /\ \A t \in 1 .. SizeOf[r] : At(r)'[t] = r
                        /\ Of(r).reset # "none" => \A t \in Tables \ 1 .. SizeOf[r] : At(r)'[t] = None
        OBVIOUS
    <2>1. ~TransferStep(r) /\ ~StopClient(r)
        BY RestoreFacts DEF TransferStep, StartDump, Begin, FinishDump, OpenRemote, CreatePart,
                            CopyChunk, RenamePart, StopClient, ClientAt
    <2>2. RestoreStep(r)
        BY <2>1, WhoMoves
    <2>3. EndLoad(r) /\ CanLoad(r)
        <3>1. ~Fetch(r)
            BY RestoreFacts DEF Fetch, Move, ClientAt
        <3> QED
            BY <2>2, <3>1, RestoreFacts
            DEF RestoreStep, ComposeDown, RemoveVolume, CreateVolume, ComposeUp, WaitReady, AfterWait,
                Drop, Create, OpenInput, LoadTable, EndLoad, Move, ClientAt
    <2>4. /\ client[r] = "pipe" /\ ~Unread(r) /\ At(r)' = At(r) /\ Up(r) /\ At(r) # Missing
        BY <2>3 DEF EndLoad, CanLoad, Move, At
    <2>5. At(r) \in Contents
        BY <2>4, RestoreFacts DEF Up, At
    <2>6. localData[input[r]] = Whole(r)
        BY <2>4 DEF CloneInv, WholeInv, Arrived, Fetched, Loading
    <2>7. piped[r] <= SizeOf[r] /\ Loaded(r)
        BY <2>4 DEF CloneInv, RunsInv, RunInv
    <2>8. piped[r] = SizeOf[r]
        BY <2>4, <2>6, <2>7, WholeIs, RestoreFacts DEF Unread
    <2> QED
        BY <2>4, <2>5, <2>7, <2>8 DEF Loaded
<1>2. CloneInv /\ [Next]_vars => CloneInv'
    BY CloneInvNext
<1> QED
    BY <1>1, <1>2, CloneInvInit, PTL DEF Spec, ClonesItsOwnDump

\* A run fails only for a reason of its own: its dump, the pings, a server that is down
\* without a reset that would start it, or a project that cannot be restored.  Nothing
\* that an earlier run left behind makes it fail, but for a MySQL database that is gone.
THEOREM RunsRecover == Undisturbed /\ Spec => RecoversFromStoppedRuns
<1> SUFFICES ASSUME Undisturbed PROVE Spec => RecoversFromStoppedRuns
    OBVIOUS
<1> DEFINE Excused(r) ==
        \/ shell[r] = "error"
        \/ client[r] = "wait" /\ pings'[r] = Attempts
        \/ engine[PlaceOf[r]] = "down" /\ Of(r).reset = "none"
        \/ Hopeless(r)
<1>1. CloneInv /\ [Next]_vars =>
        \A r \in Runs : client[r] # "failed" /\ client'[r] = "failed" => Excused(r)
    <2> SUFFICES ASSUME CloneInv, [Next]_vars, NEW r \in Runs, client[r] # "failed", client'[r] = "failed"
                 PROVE  Excused(r)
        OBVIOUS
    <2>0. RunInv(r) /\ EngineInv
        BY DEF CloneInv, RunsInv
    <2>1. CASE TransferStep(r) \/ StopClient(r)
        <3>1. ~StartDump(r) /\ ~CreatePart(r) /\ ~CopyChunk(r) /\ ~StopClient(r)
            BY RestoreFacts DEF StartDump, Begin, CreatePart, CopyChunk, StopClient, ClientAt
        <3>2. FinishDump(r) => shell[r] = "error"
            BY RestoreFacts DEF FinishDump, ClientAt
        <3>3. ~OpenRemote(r)
            <4> SUFFICES ASSUME OpenRemote(r) PROVE FALSE
                OBVIOUS
            <4>1. remoteLink[RemoteOf[r]] = r
                BY DEF OpenRemote, CloneInv, WholeInv, OlderInv, ServerInv, Created, Dumped
            <4>2. source'[r] = r
                BY <4>1, TypeFacts DEF OpenRemote, CloneInv, WholeInv, OlderInv
            <4> QED
                BY <4>2, RestoreFacts, InodeAssumption DEF OpenRemote, ClientAt
        <3>4. ~RenamePart(r)
            <4> SUFFICES ASSUME RenamePart(r) PROVE FALSE
                OBVIOUS
            <4>1. partLink[PlaceOf[r]] # None
                BY TypeFacts, InodeAssumption DEF RenamePart, CloneInv, WholeInv, OlderInv, Linked
            <4> QED
                BY <4>1, RestoreFacts DEF RenamePart, ClientAt
        <3> QED
            BY <2>1, <3>1, <3>2, <3>3, <3>4 DEF TransferStep
    <2>2. CASE RestoreStep(r)
        <3> USE RestoreFacts DEF Move, ClientAt
        <3>1. ~Fetch(r) /\ ~ComposeDown(r) /\ ~CreateVolume(r) /\ ~ComposeUp(r) /\ ~LoadTable(r)
            BY DEF Fetch, ComposeDown, CreateVolume, ComposeUp, LoadTable
        <3>2. ~RemoveVolume(r)
            BY <2>0 DEF RemoveVolume, RunInv
        <3>3. CASE WaitReady(r)
            <4>1. ~Wraps(r) \/ pings[r] + 1 = Attempts
                BY <3>3 DEF WaitReady, AfterWait
            <4>2. client[r] = "wait" /\ pings'[r] = pings[r] + 1
                BY <3>3 DEF WaitReady, CloneInv, WholeInv, OlderInv, TypeInv, TypeOK
            <4> QED
                BY <4>1, <4>2 DEF Hopeless
        <3>4. CASE Drop(r)
            BY <2>0, <3>4 DEF Drop, CanDrop, RunInv, Hopeless
        <3>5. ~Create(r)
            BY <2>0 DEF Create, RunInv
        <3>6. CASE OpenInput(r)
            BY <3>6 DEF OpenInput, Hopeless
        <3>7. CASE EndLoad(r)
            <4>1. client[r] = "pipe" /\ ~CanLoad(r)
                BY <3>7 DEF EndLoad
            <4>2. Of(r).reset # "none" => Up(r) /\ At(r) # Missing
                BY <2>0, <4>1 DEF RunInv
            <4>3. CASE Of(r).reset = "none" /\ ~Up(r)
                <5>1. engine[PlaceOf[r]] = "down"
                    BY <2>0, <4>3 DEF EngineInv, Up, Of
                <5> QED
                    BY <4>3, <5>1
            <4> QED
                BY <4>1, <4>2, <4>3 DEF CanLoad, Hopeless
        <3> QED
            BY <2>2, <3>1, <3>2, <3>3, <3>4, <3>5, <3>6, <3>7 DEF RestoreStep
    <2> QED
        BY <2>1, <2>2, WhoMoves
<1>2. CloneInv /\ [Next]_vars => CloneInv'
    BY CloneInvNext
<1> QED
    BY <1>1, <1>2, CloneInvInit, PTL DEF Spec, RecoversFromStoppedRuns
-------------------------------------------------------------------------------------
(* The promise of LocalDatabase.                                                     *)

\* What is chosen at a place is the run that is at work there.
ChosenInv ==
    /\ \A r \in Runs : Working(r) => Chosen(PlaceOf[r]) = r
    /\ \A l \in Places : (\A r \in Runs : PlaceOf[r] = l => ~Working(r)) => Chosen(l) = None

LEMMA ChosenIsAtWork == CloneInv => ChosenInv
<1> SUFFICES ASSUME CloneInv PROVE ChosenInv
    OBVIOUS
<1>1. ASSUME NEW r \in Runs, Working(r) PROVE Chosen(PlaceOf[r]) = r
    <2>1. localData[fileLink[PlaceOf[r]]] = Whole(r)
        BY <1>1 DEF CloneInv, WholeInv, Arrived, Fetched, Working
    <2>2. \A q \in Runs : Whole(q) = Whole(r) => q = r
        <3> SUFFICES ASSUME NEW q \in Runs, Whole(q) = Whole(r) PROVE q = r
            OBVIOUS
        <3>1. Whole(q)[1] = q /\ Whole(r)[1] = r
            BY WholeIs, RestoreFacts
        <3> QED
            BY <3>1
    <2>3. {q \in Runs : localData[fileLink[PlaceOf[r]]] = Whole(q)} = {r}
        BY <2>1, <2>2
    <2>4. {q \in Runs : PlaceOf[q] = PlaceOf[r] /\ client[q] \in Resetting \cup Loading} # {}
        BY <1>1 DEF Working
    <2> QED
        BY <2>3, <2>4 DEF Chosen
<1>2. ASSUME NEW l \in Places, \A r \in Runs : PlaceOf[r] = l => ~Working(r) PROVE Chosen(l) = None
    <2>1. {r \in Runs : PlaceOf[r] = l /\ client[r] \in Resetting \cup Loading} = {}
        BY <1>2 DEF Working
    <2> QED
        BY <2>1 DEF Chosen
<1> QED
    BY <1>1, <1>2 DEF ChosenInv

\* The restore takes data away and brings in its own dump, and while it ends it does neither.
LEMMA ContentStep ==
    ASSUME CloneInv, NEW r \in Runs, RestoreStep(r)
    PROVE  /\ Content(PlaceOf[r])' \subseteq Content(PlaceOf[r]) \cup {r}
           /\ ~Working(r) \/ ~Working(r)' => database' = database
           /\ \A l \in Places \ {PlaceOf[r]} : database'[l] = database[l]
<1>0. PlaceOf[r] \in Places /\ RunInv(r)
    BY RestoreFacts DEF CloneInv, RunsInv
<1> USE DEF Move, ClientAt, Becomes, At, Working, Resetting, Loading
<1>1. CASE Fetch(r) \/ ComposeDown(r) \/ WaitReady(r) \/ OpenInput(r) \/ EndLoad(r)
    <2>1. database' = database
        BY <1>1 DEF Fetch, ComposeDown, WaitReady, OpenInput, EndLoad
    <2> QED
        BY <2>1 DEF Content
<1>2. CASE RemoveVolume(r) \/ CreateVolume(r) \/ ComposeUp(r) \/ Drop(r) \/ Create(r)
    <2>1. PICK what \in {database[PlaceOf[r]], None, NoTables, Missing} :
            database' = [database EXCEPT ![PlaceOf[r]] = what]
        BY <1>2 DEF RemoveVolume, CreateVolume, ComposeUp, Drop, Create
    <2>2. Content(PlaceOf[r])' \subseteq Content(PlaceOf[r]) \cup {r}
        BY <1>0, <2>1, RestoreFacts DEF Content, NoTables
    <2>3. Working(r)
        BY <1>2 DEF RemoveVolume, CreateVolume, ComposeUp, Drop, Create
    <2>4. ~Working(r)' => database' = database
        BY <1>0, <1>2, RestoreFacts DEF RemoveVolume, CreateVolume, ComposeUp, Drop, Create
    <2> QED
        BY <2>1, <2>2, <2>3, <2>4, RestoreFacts
<1>3. CASE LoadTable(r)
    <2>1. client[r] = "pipe" /\ client' = [client EXCEPT ![r] = "pipe"] /\ At(r) \in Contents
        BY <1>0, <1>3, RestoreFacts DEF LoadTable, CanLoad, Up
    <2>2. localData[input[r]] = Whole(r)
        BY <2>1 DEF CloneInv, WholeInv, Arrived, Fetched
    <2>3. piped[r] + 1 \in 1 .. SizeOf[r] /\ localData[input[r]][piped[r] + 1] = r
        BY <1>3, <2>2, WholeIs, RestoreFacts DEF LoadTable, Unread
    <2>4. database' = [database EXCEPT ![PlaceOf[r]] =
                IF Selected(r) THEN [At(r) EXCEPT ![piped[r] + 1] = r] ELSE At(r)]
        <3>1. piped'[r] = piped[r] + 1
            BY <1>3, RestoreFacts DEF LoadTable
        <3> QED
            BY <1>3, <2>3, <3>1 DEF LoadTable
    <2>5. /\ database'[PlaceOf[r]] \in {At(r), [At(r) EXCEPT ![piped[r] + 1] = r]}
          /\ At(r) \notin {None, Missing}
        BY <1>0, <2>1, <2>4, RestoreFacts, MarksAssumption
    <2>6. \A t \in Tables : database'[PlaceOf[r]][t] \in {At(r)[t], r}
        BY <2>1, <2>5 DEF Contents
    <2>7. Content(PlaceOf[r])' \subseteq Content(PlaceOf[r]) \cup {r}
        BY <2>5, <2>6 DEF Content
    <2> QED
        BY <2>1, <2>4, <2>7, RestoreFacts
<1> QED
    BY <1>1, <1>2, <1>3 DEF RestoreStep

\* The steps of the specification, at one place.
LEMMA PromiseSteps ==
    ASSUME NEW l \in Places,
           \A m \in Places \ {l} : Content(m)' = Content(m) /\ Chosen(m)' = Chosen(m),
           \/ Chosen(l) = None /\ Chosen(l)' \in Runs /\ Content(l)' = Content(l)
           \/ /\ Chosen(l) \in Runs /\ Chosen(l)' = Chosen(l)
              /\ Content(l)' \subseteq Content(l) \cup {Chosen(l)}
           \/ Chosen(l) # None /\ Chosen(l)' = None /\ Content(l)' = Content(l)
    PROVE  Promise!Next
<1> DEFINE content == [m \in Places |-> Content(m)]
           chosen  == [m \in Places |-> Chosen(m)]
<1>1. content' = [content EXCEPT ![l] = Content(l)'] /\ chosen' = [chosen EXCEPT ![l] = Chosen(l)']
    OBVIOUS
<1>2. content[l] = Content(l) /\ chosen[l] = Chosen(l)
    OBVIOUS
<1>3. Content(l)' = Content(l) => content' = content
    OBVIOUS
<1>4. Chosen(l)' = Chosen(l) => chosen' = chosen
    OBVIOUS
<1> QED
    BY <1>1, <1>2, <1>3, <1>4 DEF Promise!Next, Promise!Choose, Promise!Replace, Promise!Leave

LEMMA StepKeepsPromise ==
    ASSUME CloneInv, ChosenInv, ChosenInv', [Next]_vars
    PROVE  Promise!Next \/ \A l \in Places : Content(l)' = Content(l) /\ Chosen(l)' = Chosen(l)
\* A place where no run starts or ends its work.
<1>1. ASSUME NEW l \in Places,
             \A q \in Runs : PlaceOf[q] = l => (client'[q] \in Resetting \cup Loading <=> Working(q))
      PROVE  Chosen(l)' = Chosen(l)
    <2>1. CASE \E q \in Runs : PlaceOf[q] = l /\ Working(q)
        BY <1>1, <2>1 DEF ChosenInv, Working
    <2>2. CASE \A q \in Runs : PlaceOf[q] = l => ~Working(q)
        BY <1>1, <2>2 DEF ChosenInv, Working
    <2> QED
        BY <2>1, <2>2
<1>2. ASSUME database' = database, NEW l \in Places PROVE Content(l)' = Content(l)
    BY <1>2 DEF Content
<1>3. ASSUME NEW r \in Runs, client[r] \notin {"idle"} \cup Over, NEW where,
             client' = [client EXCEPT ![r] = where],
             \A m \in Places \ {PlaceOf[r]} : database'[m] = database[m],
             Content(PlaceOf[r])' \subseteq Content(PlaceOf[r]) \cup {r},
             ~Working(r) \/ where \notin Resetting \cup Loading => database' = database
      PROVE  Promise!Next \/ \A l \in Places : Content(l)' = Content(l) /\ Chosen(l)' = Chosen(l)
    <2> DEFINE l == PlaceOf[r]
    <2>1. l \in Places /\ client'[r] = where /\ \A q \in Runs \ {r} : client'[q] = client[q]
        BY <1>3, RestoreFacts
    <2>2. \A m \in Places \ {l} : Content(m)' = Content(m) /\ Chosen(m)' = Chosen(m)
        BY <1>1, <1>3, <2>1 DEF Content, Working
    <2>3. \A q \in Runs \ {r} : PlaceOf[q] = l => ~Working(q) /\ client'[q] \notin Resetting \cup Loading
        BY <1>3, <2>1, OthersElsewhere DEF Working, Resetting, Loading, Over
    <2>4. /\ Chosen(l) = IF Working(r) THEN r ELSE None
          /\ Chosen(l)' = IF where \in Resetting \cup Loading THEN r ELSE None
        BY <2>1, <2>3 DEF ChosenInv, Working
    <2>5. CASE ~Working(r) /\ where \notin Resetting \cup Loading
        BY <1>2, <1>3, <2>1, <2>2, <2>4, <2>5
    <2>6. CASE Working(r) \/ where \in Resetting \cup Loading
        BY <1>2, <1>3, <2>1, <2>2, <2>4, <2>6, PromiseSteps, InodeAssumption
    <2> QED
        BY <2>5, <2>6
<1>4. ASSUME NEW r \in Runs, RestoreStep(r)
      PROVE  Promise!Next \/ \A l \in Places : Content(l)' = Content(l) /\ Chosen(l)' = Chosen(l)
    <2>1. PICK where : client' = [client EXCEPT ![r] = where]
        BY <1>4, RestoreMoves DEF CloneInv, WholeInv, OlderInv
    <2>2. client[r] \notin {"idle"} \cup Over /\ client'[r] = where
        BY <1>4, <2>1, RestoreMoves, RestoreFacts DEF CloneInv, WholeInv, OlderInv, Resetting, Loading, Over
    <2> QED
        BY <1>3, <1>4, <2>1, <2>2, ContentStep DEF Working
<1>5. ASSUME NEW r \in Runs, StopClient(r), UNCHANGED data
      PROVE  Promise!Next \/ \A l \in Places : Content(l)' = Content(l) /\ Chosen(l)' = Chosen(l)
    <2>1. /\ client[r] \notin {"idle"} \cup Over /\ client' = [client EXCEPT ![r] = "stopped"]
          /\ database' = database /\ PlaceOf[r] \in Places
        BY <1>5, RestoreFacts DEF StopClient, ClientAt, Idle, data
    <2>2. Content(PlaceOf[r])' = Content(PlaceOf[r])
        BY <1>2, <2>1
    <2> QED
        BY <1>3, <2>1, <2>2
<1>6. ASSUME database' = database, \A q \in Runs : client'[q] \in Resetting \cup Loading <=> Working(q)
      PROVE  \A l \in Places : Content(l)' = Content(l) /\ Chosen(l)' = Chosen(l)
    BY <1>1, <1>2, <1>6
<1>7. ASSUME NEW r \in Runs, TransferStep(r) \/ ShellStep(r) \/ FailDump(r), UNCHANGED data
      PROVE  \A l \in Places : Content(l)' = Content(l) /\ Chosen(l)' = Chosen(l)
    <2>1. \/ client' = client
          \/ /\ client[r] \in {"idle", "dump", "open", "create", "copy"}
             /\ \E where \in {"dump", "open", "create", "copy", "fetched", "failed"} :
                    client' = [client EXCEPT ![r] = where]
        BY <1>7 DEF TransferStep, ShellStep, StartDump, Begin, FinishDump, OpenRemote, CreatePart,
                    CopyChunk, RenamePart, RemoveOldDump, OpenRedirect, WriteDump, TestDump, FailDump, ClientAt
    <2>2. \A q \in Runs : client'[q] \in Resetting \cup Loading <=> Working(q)
        BY <2>1, RestoreFacts DEF Working, Resetting, Loading
    <2> QED
        BY <1>6, <1>7, <2>2 DEF data
<1>8. CASE (\E l \in Places : EngineReady(l)) \/ UNCHANGED vars
    <2>1. client' = client /\ database' = database
        BY <1>8 DEF EngineReady, vars, transfer, data
    <2> QED
        BY <1>6, <2>1 DEF Working
<1> QED
    BY <1>4, <1>5, <1>7, <1>8 DEF Next, CloneStep, RestoreStep

\* A clone keeps the promise of LocalDatabase at every place: the local data go only when
\* a whole dump has arrived, and nothing but that dump comes in.
THEOREM CloneRefinement == Undisturbed /\ Runs # {} /\ Spec => ImplementsLocalDatabase
<1> SUFFICES ASSUME Undisturbed, Runs # {} PROVE Spec => ImplementsLocalDatabase
    OBVIOUS
<1>1. Init => Promise!Init
    <2> SUFFICES ASSUME Init, NEW l \in Places PROVE Content(l) = {Local} /\ Chosen(l) = None
        BY DEF Promise!Init
    <2>1. Tables # {}
        <3>1. PICK r \in Runs : TRUE
            OBVIOUS
        <3>2. 1 \in 1 .. SizeOf[r]
            BY SizeAssumption
        <3> QED
            BY <3>2 DEF Tables
    <2>2. database[l] = [t \in Tables |-> Local] /\ database[l] \in Contents
        BY DEF Init, Contents
    <2>3. Content(l) = {Local}
        BY <2>1, <2>2, LocalAssumption, MarksAssumption DEF Content
    <2>4. \A r \in Runs : ~Working(r)
        BY DEF Init, TransferInit, Working, Resetting, Loading
    <2> QED
        BY <2>3, <2>4, CloneInvInit, ChosenIsAtWork DEF ChosenInv
<1>2. CloneInv /\ ChosenInv /\ ChosenInv' /\ [Next]_vars =>
        [Promise!Next]_<<[l \in Places |-> Content(l)], [l \in Places |-> Chosen(l)]>>
    BY StepKeepsPromise
<1>3. CloneInv /\ [Next]_vars => CloneInv'
    BY CloneInvNext
<1> QED
    BY <1>1, <1>2, <1>3, CloneInvInit, ChosenIsAtWork, PTL DEF Spec, ImplementsLocalDatabase, Promise!Spec
=====================================================================================
