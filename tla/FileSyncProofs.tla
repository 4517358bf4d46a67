------------------------------ MODULE FileSyncProofs ------------------------------
(***********************************************************************************)
(* Theorems about FileSync, for any tree of paths, any number of syncs and of changes *)
(* on the server, and syncs that break off anywhere.                                  *)
(***********************************************************************************)
EXTENDS FileSync, SequenceTheorems, TLAPS

Walking == {"list", "walk", "copy", "stamp"}
Syncing == Walking \cup {"delete", "done"}
Fetching == pc \in {"copy", "stamp"}

EntrySets == SUBSET [path : Paths, meta : Nodes]

\* Entries that have been listed and not yet acted on.
Entries == UNION {todo[i] : i \in 1 .. Len(todo)}

-------------------------------------------------------------------------------------
(* Types, and the shape of both trees.                                               *)

Below(tree_, p) == ParentOf[p] = Root \/ tree_[ParentOf[p]].kind = "dir"

TypeInv ==
    /\ remote \in [Paths -> Nodes] /\ local \in [Paths -> Nodes]
    /\ writes \in 0 .. MaxWrites /\ clock \in Nat
    /\ parts \subseteq Paths
    /\ pc \in Walking \cup {"delete"} \cup Stopped
    /\ dry \in BOOLEAN
    /\ listing \in Paths \cup {Root}
    /\ todo \in Seq(EntrySets)
    /\ item \in [path : Paths \cup {Root}, meta : Nodes]
    /\ got \in Contents
    /\ expected \subseteq Paths
    /\ changed \subseteq Paths /\ missing \subseteq Paths
    /\ unstamped \subseteq Paths /\ suspect \subseteq Paths
    /\ pc \in {"walk", "copy", "stamp"} => todo # <<>>
    /\ pc \in {"delete", "done"} => todo = <<>>
    /\ Fetching => item.path \in Paths /\ ~dry
    /\ pc = "delete" => ~dry
    /\ pc = "copy" => got # Other

ServerInv ==
    /\ \A p \in Paths : Exists(p) => Below(remote, p)
    /\ \A p \in Paths : remote[p].kind = "file" =>
            remote[p].data \in 1 .. MaxWrites /\ remote[p].size = SizeOf[remote[p].data]
    /\ \A p \in Paths : remote[p].kind = "link" => remote[p].data \in Paths \ {p}

LocalInv ==
    /\ \A p \in Paths : local[p].kind # "none" => Below(local, p)
    /\ \A p \in Paths : local[p].kind = "link" => local[p].data \in Paths \ {p}
    /\ pc \in Walking /\ ~dry => \A e \in Entries : Below(local, e.path)
    /\ Fetching => Below(local, item.path)
    /\ pc = "list" /\ ~dry /\ listing # Root => local[listing].kind = "dir"
    /\ pc = "stamp" => local[item.path].kind = "file"

-------------------------------------------------------------------------------------
(* What a walk has accounted for.                                                    *)

PastInv ==
    pc # "idle" => \A p \in Paths :
        /\ ~Exists(p) => p \in missing
        /\ p \in missing => ~Exists(p) \/ p \in changed
        /\ ParentOf[p] \in missing => p \in missing

Accounted(p) ==
    \/ p \in missing \cup expected
    \/ \E e \in Entries : e.path = p
    \/ ParentOf[p] \in Paths \ expected
    \/ pc = "list" /\ listing = ParentOf[p]

WalkInv ==
    pc \in Syncing =>
        /\ \A p \in Reached : Accounted(p)
        /\ \A e \in Entries : e.meta.kind # "dir" => Children(e.path) \subseteq missing

Dated(node) == node.kind \in {"file", "link"}

\* What has not changed since the sync began is as it was listed.
ListedInv ==
    pc \in Syncing =>
        /\ \A e \in Entries : e.path \notin changed => e.meta = remote[e.path]
        /\ \A e \in Entries : e.meta.kind # "none"
        /\ Fetching /\ item.path \notin changed => item.meta = remote[item.path]
        /\ Fetching => Dated(item.meta) /\ (~Follow => item.meta.kind = "file")
        /\ pc = "list" /\ listing # Root /\ listing \notin changed => remote[listing].kind = "dir"
        /\ \A p \in expected \ changed : Exists(p)

-------------------------------------------------------------------------------------
(* Times.                                                                            *)

HasTime(p, t) ==
    \/ Dated(remote[p]) /\ t = remote[p].mtime
    \/ local[p].kind = "file" /\ p \notin unstamped /\ local[p].mtime # 0 /\ t = local[p].mtime
    \/ \E e \in Entries : e.path = p /\ Dated(e.meta) /\ t = e.meta.mtime
    \/ Fetching /\ item.path = p /\ Dated(item.meta) /\ t = item.meta.mtime

TimesInv ==
    \A p, q \in Paths : \A s, t \in Nat :
        HasTime(p, s) /\ HasTime(q, t) =>
            /\ Gap <= s /\ s <= clock
            /\ (p = q /\ s = t) \/ s + Gap <= t \/ t + Gap <= s

\* A file of the time of the server's is the server's.
SameIfDatedSame ==
    /\ \A p \in Paths :
        local[p].kind = "file" /\ p \notin unstamped /\ remote[p].kind = "file" /\ local[p].mtime = remote[p].mtime
            => local[p].data = remote[p].data
    /\ pc = "copy" /\ remote[item.path].kind = "file" /\ remote[item.path].mtime = item.meta.mtime
        => got = remote[item.path].data
    /\ pc = "stamp" /\ remote[item.path].kind = "file" /\ remote[item.path].mtime = item.meta.mtime
        => local[item.path].data = remote[item.path].data

AgreeInv ==
    pc \in Syncing /\ ~dry /\ suspect = {} =>
        /\ \A p \in expected \ changed : Agrees(p) \/ (pc = "copy" /\ item.path = p)
        /\ \A p \in unstamped : pc = "stamp" /\ p = item.path

EmptiedInv == pc = "done" /\ Delete /\ ~dry => Extra = {}
-------------------------------------------------------------------------------------
(* Operators.                                                                        *)

LEMMA NodeTypes ==
    /\ Absent \in Nodes /\ Folder \in Nodes
    /\ \A k \in {"none", "file", "dir", "link"}, d \in Contents \cup Paths, s, t \in Nat :
            /\ Node(k, d, s, t) \in Nodes
            /\ Node(k, d, s, t).kind = k /\ Node(k, d, s, t).data = d
            /\ Node(k, d, s, t).size = s /\ Node(k, d, s, t).mtime = t
    /\ Absent.kind = "none" /\ Folder.kind = "dir"
<1>1. 0 \in Contents /\ 0 \in Nat
    BY SizesAssumption DEF Contents
<1> QED
    BY <1>1 DEF Node, Absent, Folder, Nodes

LEMMA NodeFields ==
    ASSUME NEW n \in Nodes
    PROVE  /\ n.kind \in {"none", "file", "dir", "link"}
           /\ n.data \in Contents \cup Paths /\ n.size \in Nat /\ n.mtime \in Nat
    BY DEF Nodes

LEMMA ReachedFacts ==
    /\ Reached \subseteq Allowed
    /\ \A p \in Reached : ParentOf[p] \in Reached \cup {Root}
    BY DEF Reached

\* An entry taken leaves every other one.
LEMMA TakeEntryFacts ==
    ASSUME TypeInv, NEW e \in todo[Len(todo)], TakeEntry(e)
    PROVE  /\ todo' \in Seq(EntrySets) /\ todo' # <<>>
           /\ e \in Entries /\ Entries' \subseteq Entries
           /\ \A f \in Entries : f = e \/ f \in Entries'
           /\ e \in [path : Paths, meta : Nodes]
           /\ pc = "walk"
<1>1. /\ todo \in Seq(EntrySets) /\ todo # <<>> /\ Len(todo) \in 1 .. Len(todo)
      /\ todo[Len(todo)] \in EntrySets /\ todo[Len(todo)] \ {e} \in EntrySets
    BY DEF TypeInv, TakeEntry, EntrySets
<1>2. /\ todo' = [todo EXCEPT ![Len(todo)] = todo[Len(todo)] \ {e}] /\ pc = "walk"
    BY DEF TakeEntry
<1>3. /\ todo' \in Seq(EntrySets) /\ Len(todo') = Len(todo)
      /\ \A i \in 1 .. Len(todo) : todo'[i] = IF i = Len(todo) THEN todo[Len(todo)] \ {e} ELSE todo[i]
    BY <1>1, <1>2, ExceptSeq
<1>4. todo' # <<>>
    BY <1>1, <1>3
<1>5. e \in Entries /\ e \in [path : Paths, meta : Nodes]
    BY <1>1 DEF Entries, EntrySets
<1>6. Entries' \subseteq Entries
    BY <1>1, <1>3 DEF Entries
<1>7. ASSUME NEW f \in Entries PROVE f = e \/ f \in Entries'
    BY <1>1, <1>3 DEF Entries
<1> QED
    BY <1>2, <1>3, <1>4, <1>5, <1>6, <1>7

Listing == {[path |-> p, meta |-> remote[p]] : p \in {q \in Children(listing) : Exists(q)}}

LEMMA ListDirFacts ==
    ASSUME TypeInv, ListDir, pc' = "walk"
    PROVE  /\ todo' \in Seq(EntrySets) /\ todo' # <<>>
           /\ Entries' = Entries \cup Listing
           /\ listing = Root \/ remote[listing].kind = "dir"
           /\ Listing \subseteq [path : Paths, meta : Nodes]
<1>1. /\ todo \in Seq(EntrySets) /\ remote \in [Paths -> Nodes]
      /\ listing = Root \/ remote[listing].kind = "dir"
      /\ todo' = Append(todo, Listing)
    BY DEF TypeInv, ListDir, Listing
<1>2. Listing \subseteq [path : Paths, meta : Nodes]
    BY <1>1 DEF Listing, Children
<1>3. /\ todo' \in Seq(EntrySets) /\ Len(todo') = Len(todo) + 1
      /\ todo'[Len(todo) + 1] = Listing /\ Len(todo) \in Nat
      /\ \A i \in 1 .. Len(todo) : todo'[i] = todo[i]
    BY <1>1, <1>2 DEF EntrySets
<1>4. Entries' = Entries \cup Listing
    BY <1>3 DEF Entries
<1> QED
    BY <1>1, <1>2, <1>3, <1>4

LEMMA LeaveDirFacts ==
    ASSUME TypeInv, LeaveDir
    PROVE  /\ todo' \in Seq(EntrySets)
           /\ Entries' = Entries
           /\ pc = "walk"
<1>1. /\ todo \in Seq(EntrySets) /\ todo # <<>> /\ todo[Len(todo)] = {}
      /\ todo' = SubSeq(todo, 1, Len(todo) - 1) /\ Len(todo) \in Nat /\ Len(todo) > 0 /\ pc = "walk"
    BY DEF TypeInv, LeaveDir
<1>2. /\ todo' \in Seq(EntrySets) /\ Len(todo') = Len(todo) - 1
      /\ \A i \in 1 .. Len(todo) - 1 : todo'[i] = todo[i]
    <2>1. \A i \in 1 .. Len(todo) - 1 : todo[i] \in EntrySets
        BY <1>1, ElementOfSeq
    <2>2. PICK n \in Int : n = Len(todo) - 1
        BY <1>1
    <2>3. /\ SubSeq(todo, 1, n) \in Seq(EntrySets)
          /\ Len(SubSeq(todo, 1, n)) = IF 1 <= n THEN n - 1 + 1 ELSE 0
          /\ \A i \in 1 .. n - 1 + 1 : SubSeq(todo, 1, n)[i] = todo[1 + i - 1]
        BY ONLY <2>1, <2>2, SubSeqProperties, 1 \in Int
    <2>4. n - 1 + 1 = n /\ \A i \in 1 .. n : 1 + i - 1 = i
        BY <2>2
    <2> QED
        BY <1>1, <2>2, <2>3, <2>4
<1>3. Entries' = Entries
    BY <1>1, <1>2 DEF Entries
<1> QED
    BY <1>1, <1>2, <1>3

LEMMA NoEntries == todo = <<>> => Entries = {}
    BY DEF Entries
-------------------------------------------------------------------------------------
(* Types.                                                                            *)

LEMMA TypeInvInit == Init => TypeInv
<1>1. SUFFICES ASSUME Init PROVE TypeInv
    OBVIOUS
<1>2. Absent \in Nodes /\ Folder \in Nodes /\ Node("file", Other, 1, 0) \in Nodes
    BY NodeTypes, SizesAssumption DEF Contents, Other
<1>3. <<>> \in Seq(EntrySets) /\ got \in Contents
    BY <1>1, SizesAssumption DEF Init, Contents, Other
<1>4. remote \in [Paths -> Nodes] /\ local \in [Paths -> Nodes]
    BY <1>1, <1>2 DEF Init
<1>5. item \in [path : Paths \cup {Root}, meta : Nodes] /\ todo \in Seq(EntrySets)
      /\ pc = "idle" /\ writes \in 0 .. MaxWrites /\ clock \in Nat
    BY <1>1, <1>2, <1>3, SizesAssumption DEF Init
<1> QED
    BY <1>1, <1>3, <1>4, <1>5 DEF Init, TypeInv, Stopped, Fetching, Walking

\* What the server may put in place of p.
Own(p, node) ==
    /\ node.kind = "file" => node.data \in 1 .. MaxWrites /\ node.size = SizeOf[node.data]
    /\ node.kind = "link" => node.data \in Paths \ {p}
    /\ Dated(node) => node.mtime = clock + Gap
    /\ node.kind = "none" <=> node = Absent

\* What it puts there: a new file, a link, a directory or nothing.
LEMMA ChangeTypes ==
    ASSUME TypeInv, NEW p \in Paths, ServerWrites(p) \/ ServerLinks(p) \/ ServerMakesDir(p) \/ ServerRemoves(p)
    PROVE  \E node \in Nodes : Change(p, node) /\ Own(p, node)
<1>1. writes < MaxWrites /\ writes \in Nat /\ clock + Gap \in Nat /\ clock \in Nat
    BY SizesAssumption DEF ServerWrites, ServerLinks, ServerMakesDir, ServerRemoves, Change, TypeInv
<1>2. CASE ServerWrites(p)
    <2>1. /\ writes + 1 \in 1 .. MaxWrites /\ writes + 1 \in Contents
          /\ SizeOf[writes + 1] \in Nat
        BY <1>1, SizesAssumption DEF Contents
    <2> DEFINE node == Node("file", writes + 1, SizeOf[writes + 1], clock + Gap)
    <2>2. node \in Nodes /\ node.kind = "file" /\ node.data = writes + 1
          /\ node.size = SizeOf[writes + 1] /\ node.mtime = clock + Gap
        <3>1. PICK d, s, t : d = writes + 1 /\ s = SizeOf[writes + 1] /\ t = clock + Gap
            OBVIOUS
        <3>2. d \in Contents \cup Paths /\ s \in Nat /\ t \in Nat
            BY <1>1, <2>1, <3>1
        <3>3. /\ Node("file", d, s, t) \in Nodes /\ Node("file", d, s, t).kind = "file"
              /\ Node("file", d, s, t).data = d /\ Node("file", d, s, t).size = s
              /\ Node("file", d, s, t).mtime = t
            BY <3>2, NodeTypes
        <3> QED
            BY <3>1, <3>3
    <2> QED
        BY <1>2, <2>1, <2>2, NodeTypes DEF ServerWrites, Own
<1>3. CASE ServerLinks(p)
    <2>1. PICK t \in Paths \ {p} : Change(p, Node("link", t, LinkSize, clock + Gap))
        BY <1>3 DEF ServerLinks
    <2> DEFINE node == Node("link", t, LinkSize, clock + Gap)
    <2>2. node \in Nodes /\ node.kind = "link" /\ node.data = t /\ node.mtime = clock + Gap
        BY <1>1, NodeTypes, SizesAssumption
    <2> QED
        BY <2>1, <2>2, NodeTypes DEF Own
<1>4. CASE ServerMakesDir(p)
    BY <1>4, NodeTypes DEF ServerMakesDir, Dated, Own
<1>5. CASE ServerRemoves(p)
    BY <1>5, NodeTypes DEF ServerRemoves, Dated, Own
<1> QED
    BY <1>2, <1>3, <1>4, <1>5

\* What a file of the server has in it, seen through a link or not.
LEMMA ContentTypes ==
    ASSUME TypeInv, ServerInv, NEW p \in Paths, Content(p).kind = "file"
    PROVE  /\ Content(p).data \in 1 .. MaxWrites /\ Content(p).data \in Contents
           /\ Content(p).data # Other
           /\ Content(p).size = SizeOf[Content(p).data] /\ Content(p).size \in Nat
<1>1. PICK q \in Paths : Content(p) = remote[q]
    BY DEF Content, ServerInv
<1>2. remote[q].data \in 1 .. MaxWrites /\ remote[q].size = SizeOf[remote[q].data]
    BY <1>1 DEF ServerInv
<1>3. 0 \notin 1 .. MaxWrites /\ 1 .. MaxWrites \subseteq Contents
    BY SizesAssumption DEF Contents
<1> QED
    BY <1>1, <1>2, <1>3, SizesAssumption DEF Other

\* What a copy of the file can end up with.
LEMMA ReadsTypes ==
    ASSUME TypeInv, ServerInv, pc = "copy", NEW r \in Reads
    PROVE  r.data \in Contents /\ r.size \in Nat
<1>1. got \in 1 .. MaxWrites /\ item.path \in Paths /\ 0 \in Contents
    BY SizesAssumption DEF TypeInv, Fetching, Other, Contents
<1>2. SizeOf[got] \in Nat /\ got \in Contents
    BY <1>1, SizesAssumption DEF Contents
<1>3. CASE Content(item.path).kind = "file"
    BY <1>1, <1>2, <1>3, ContentTypes DEF Reads, Other
<1>4. CASE Content(item.path).kind # "file"
    BY <1>1, <1>2, <1>4 DEF Reads
<1> QED
    BY <1>3, <1>4

\* TypeInv is inductive, given what the server has.
LEMMA TypeInvNext ==
    ASSUME TypeInv, ServerInv, [Next]_vars
    PROVE  TypeInv'
<1>0. /\ remote \in [Paths -> Nodes] /\ local \in [Paths -> Nodes]
      /\ todo \in Seq(EntrySets) /\ item \in [path : Paths \cup {Root}, meta : Nodes]
      /\ writes \in 0 .. MaxWrites /\ clock \in Nat /\ Folder \in Nodes /\ Absent \in Nodes
    BY NodeTypes DEF TypeInv
<1>1. ASSUME NEW p \in Paths, ServerWrites(p) \/ ServerLinks(p) \/ ServerMakesDir(p) \/ ServerRemoves(p)
      PROVE  TypeInv'
    <2>1. PICK node \in Nodes : Change(p, node)
        BY <1>1, ChangeTypes
    <2>2. remote' \in [Paths -> Nodes] /\ writes' \in 0 .. MaxWrites /\ clock' \in Nat
        BY <1>0, <2>1, SizesAssumption DEF Change
    <2>3. changed' \subseteq Paths /\ missing' \subseteq Paths
        BY <2>1 DEF Change, TypeInv
    <2>4. UNCHANGED <<local, parts, pc, dry, syncs, listing, todo, item, got, expected, unstamped, suspect>>
        BY <2>1 DEF Change, tree, walk
    <2> QED
        BY <2>2, <2>3, <2>4 DEF TypeInv, Fetching
<1>2. CASE Begin
    <2>1. <<>> \in Seq(EntrySets) /\ {p \in Paths : ~Exists(p)} \subseteq Paths
        OBVIOUS
    <2> QED
        BY <1>2, <2>1 DEF Begin, TypeInv, Fetching, server, tree, Walking, Stopped
<1>3. CASE ListDir
    <2>1. CASE pc' = "walk"
        BY <1>3, <2>1, ListDirFacts DEF ListDir, TypeInv, Fetching, server, tree, past, Walking, Stopped
    <2>2. CASE pc' # "walk"
        BY <1>3, <2>2 DEF ListDir, TypeInv, Fetching, server, tree, past, Walking, Stopped
    <2> QED
        BY <2>1, <2>2
<1>4. CASE LeaveDir
    BY <1>4, LeaveDirFacts DEF LeaveDir, TypeInv, Fetching, server, tree, past, Walking, Stopped
<1>5. CASE RenamePart
    <2>1. CASE local[item.path].kind = "dir"
        BY <1>5, <2>1 DEF RenamePart, TypeInv, Fetching, server, tree, walk, Walking, Stopped
    <2>2. CASE local[item.path].kind # "dir"
        <3>1. \A r \in Reads : Node("file", r.data, r.size, clock) \in Nodes
            BY <1>5, ReadsTypes, NodeTypes, <1>0 DEF RenamePart
        <3>2. PICK r \in Reads : local' = [local EXCEPT ![item.path] = Node("file", r.data, r.size, clock)]
            BY <1>5, <2>2 DEF RenamePart
        <3>3. local' \in [Paths -> Nodes]
            BY <1>0, <3>1, <3>2
        <3> QED
            BY <1>5, <2>2, <3>3 DEF RenamePart, TypeInv, Fetching, server, tree, walk, Walking, Stopped
    <2> QED
        BY <2>1, <2>2
<1>6. CASE StampFile
    <2>1. local' \in [Paths -> Nodes]
        <3>1. local' = [local EXCEPT ![item.path] = [local[item.path] EXCEPT !.mtime = item.meta.mtime]]
            BY <1>6 DEF StampFile
        <3>2. [local[item.path] EXCEPT !.mtime = item.meta.mtime] \in Nodes
            BY <1>0, <1>6 DEF StampFile, Nodes, TypeInv, Fetching
        <3> QED
            BY <1>0, <3>1, <3>2
    <2> QED
        BY <1>6, <2>1 DEF StampFile, TypeInv, Fetching, server, walk, Walking, Stopped
<1>7. ASSUME NEW e \in todo[Len(todo)],
             SkipFiltered(e) \/ EnterDir(e) \/ MakeLink(e) \/ SkipFile(e) \/ OpenFile(e)
      PROVE  TypeInv'
    <2>0. TakeEntry(e)
        BY <1>7 DEF SkipFiltered, EnterDir, MakeLink, SkipFile, OpenFile
    <2>1. /\ todo' \in Seq(EntrySets) /\ todo' # <<>> /\ pc = "walk" /\ e.path \in Paths
          /\ e \in [path : Paths, meta : Nodes]
        BY <2>0, TakeEntryFacts
    <2>2. CASE SkipFiltered(e) \/ SkipFile(e)
        BY <2>1, <2>2 DEF SkipFiltered, SkipFile, TypeInv, Fetching, server, tree, past, Walking, Stopped
    <2>3. CASE EnterDir(e)
        <3>1. local' \in [Paths -> Nodes]
            BY <1>0, <2>1, <2>3 DEF EnterDir
        <3> QED
            BY <2>1, <2>3, <3>1 DEF EnterDir, TypeInv, Fetching, server, past, Walking, Stopped
    <2>4. CASE MakeLink(e)
        <3>1. Node("link", remote[e.path].data, 0, 0) \in Nodes
            <4>1. remote[e.path].data \in Contents \cup Paths
                BY <1>0, <2>1 DEF Nodes
            <4> QED
                BY <4>1, NodeTypes
        <3>2. local' \in [Paths -> Nodes]
            BY <1>0, <2>1, <2>4, <3>1 DEF MakeLink
        <3> QED
            BY <2>1, <2>4, <3>2 DEF MakeLink, TypeInv, Fetching, server, past, Walking, Stopped
    <2>5. CASE OpenFile(e)
        <3>1. CASE Content(e.path).kind # "file"
            BY <2>1, <2>5, <3>1 DEF OpenFile, TypeInv, Fetching, server, past, Walking, Stopped
        <3>2. CASE Content(e.path).kind = "file"
            <4>1. got' \in Contents /\ got' # Other
                BY <2>1, <2>5, <3>2, ContentTypes DEF OpenFile
            <4> QED
                BY <2>1, <2>5, <3>2, <4>1 DEF OpenFile, TypeInv, Fetching, server, past, Walking, Stopped
        <3> QED
            BY <3>1, <3>2
    <2> QED
        BY <1>7, <2>2, <2>3, <2>4, <2>5
<1>8. ASSUME NEW p \in Paths, DeleteExtra(p)
      PROVE  TypeInv'
    BY <1>0, <1>8 DEF DeleteExtra, TypeInv, Fetching, server, walk, past, Walking, Stopped
<1>9. CASE EndDelete \/ Kill
    BY <1>9 DEF EndDelete, Kill, TypeInv, Fetching, server, tree, walk, past, Walking, Stopped
<1>10. CASE UNCHANGED vars
    BY <1>10 DEF vars, TypeInv, Fetching, server, tree, walk, past
<1> QED
    BY <1>1, <1>2, <1>3, <1>4, <1>5, <1>6, <1>7, <1>8, <1>9, <1>10 DEF Next
-------------------------------------------------------------------------------------
(* The server, and what is remembered of it.                                         *)

\* A step is a change on the server, the beginning of a sync, or leaves both alone.
LEMMA StepKinds ==
    ASSUME TypeInv, [Next]_vars
    PROVE  \/ \E p \in Paths, node \in Nodes : Change(p, node) /\ Own(p, node)
           \/ Begin
           \/ UNCHANGED <<server, changed, missing, suspect>> /\ (pc = "idle" => pc' = "idle")
<1>1. ASSUME NEW p \in Paths, ServerWrites(p) \/ ServerLinks(p) \/ ServerMakesDir(p) \/ ServerRemoves(p)
      PROVE  \E q \in Paths, node \in Nodes : Change(q, node) /\ Own(q, node)
    BY <1>1, ChangeTypes
<1>2. CASE ListDir \/ LeaveDir \/ RenamePart \/ StampFile \/ EndDelete \/ Kill
    BY <1>2 DEF ListDir, LeaveDir, RenamePart, StampFile, EndDelete, Kill, past, Stopped
<1>3. ASSUME NEW e \in todo[Len(todo)],
             SkipFiltered(e) \/ EnterDir(e) \/ MakeLink(e) \/ SkipFile(e) \/ OpenFile(e)
      PROVE  UNCHANGED <<server, changed, missing, suspect>> /\ pc # "idle"
    BY <1>3 DEF SkipFiltered, EnterDir, MakeLink, SkipFile, OpenFile, TakeEntry, past
<1>4. ASSUME NEW p \in Paths, DeleteExtra(p)
      PROVE  UNCHANGED <<server, changed, missing, suspect>> /\ pc # "idle"
    BY <1>4 DEF DeleteExtra, past
<1>5. CASE UNCHANGED vars
    BY <1>5 DEF vars, past
<1> QED
    BY <1>1, <1>2, <1>3, <1>4, <1>5 DEF Next

LEMMA ServerInvNext ==
    ASSUME TypeInv, ServerInv, [Next]_vars
    PROVE  ServerInv'
<1>1. ASSUME NEW p \in Paths, NEW node \in Nodes, Change(p, node), Own(p, node)
      PROVE  ServerInv'
    <2>1. /\ remote \in [Paths -> Nodes] /\ remote' = [remote EXCEPT ![p] = node]
          /\ ParentOf[p] # Root => remote[ParentOf[p]].kind = "dir"
          /\ \A q \in Children(p) : ~Exists(q)
        BY <1>1 DEF Change, TypeInv
    <2>2. /\ remote'[p] = node
          /\ \A q \in Paths : q # p => remote'[q] = remote[q]
        BY <2>1
    <2>3. ASSUME NEW q \in Paths, Exists(q)' PROVE Below(remote, q)'
        <3>1. CASE q = p
            BY <2>1, <2>2, <3>1, PathsAssumption DEF Below, Children, Exists, ServerInv
        <3>2. CASE q # p
            BY <2>1, <2>2, <2>3, <3>2, PathsAssumption DEF Below, Children, Exists, ServerInv
        <3> QED
            BY <3>1, <3>2
    <2>4. \A q \in Paths :
            /\ remote'[q].kind = "file" =>
                remote'[q].data \in 1 .. MaxWrites /\ remote'[q].size = SizeOf[remote'[q].data]
            /\ remote'[q].kind = "link" => remote'[q].data \in Paths \ {q}
        BY <1>1, <2>2 DEF Own, ServerInv
    <2> QED
        BY <2>3, <2>4 DEF ServerInv
<1>2. CASE UNCHANGED server
    BY <1>2 DEF ServerInv, server, Exists, Below
<1>3. Begin => UNCHANGED server
    BY DEF Begin
<1> QED
    BY <1>1, <1>2, <1>3, StepKinds DEF server

LEMMA PastInvNext ==
    ASSUME TypeInv, ServerInv, PastInv, [Next]_vars
    PROVE  PastInv'
<1>1. ASSUME NEW p \in Paths, NEW node \in Nodes, Change(p, node), Own(p, node), pc # "idle"
      PROVE  PastInv'
    <2>1. /\ remote \in [Paths -> Nodes] /\ remote' = [remote EXCEPT ![p] = node]
          /\ \A q \in Children(p) : ~Exists(q)
          /\ changed' = changed \cup {p}
          /\ missing' = IF node = Absent THEN missing \cup {p} ELSE missing
        BY <1>1 DEF Change, TypeInv
    <2>2. /\ remote'[p] = node
          /\ \A q \in Paths : q # p => remote'[q] = remote[q]
          /\ node.kind = "none" <=> node = Absent
        BY <1>1, <2>1 DEF Own
    <2>3. ASSUME NEW q \in Paths
          PROVE  /\ ~Exists(q)' => q \in missing'
                 /\ q \in missing' => ~Exists(q)' \/ q \in changed'
        BY <1>1, <2>1, <2>2 DEF PastInv, Exists
    <2>4. ASSUME NEW q \in Paths, ParentOf[q] \in missing' PROVE q \in missing'
        BY <1>1, <2>1, <2>4 DEF PastInv, Exists, Children
    <2> QED
        BY <2>3, <2>4 DEF PastInv
<1>2. CASE UNCHANGED <<server, changed, missing, suspect>> /\ (pc = "idle" => pc' = "idle")
    BY <1>2 DEF PastInv, server, Exists
<1>3. CASE Begin
    <2>1. /\ missing' = {p \in Paths : ~Exists(p)} /\ remote' = remote
        BY <1>3 DEF Begin, server
    <2>2. ASSUME NEW p \in Paths
          PROVE  /\ ~Exists(p)' <=> p \in missing'
                 /\ ParentOf[p] \in missing' => p \in missing'
        BY <2>1, PathsAssumption DEF Exists, ServerInv, Below
    <2> QED
        BY <2>2 DEF PastInv
<1>4. ASSUME NEW p \in Paths, NEW node \in Nodes, Change(p, node), pc = "idle"
      PROVE  PastInv'
    BY <1>4 DEF Change, PastInv
<1> QED
    BY <1>1, <1>2, <1>3, <1>4, StepKinds
-------------------------------------------------------------------------------------
(* The local tree.                                                                   *)

\* A node may be put where no directory is, and a directory where nothing else is.
LEMMA PutKeepsTree ==
    ASSUME TypeInv, LocalInv, NEW p \in Paths, NEW node \in Nodes,
           local' = [local EXCEPT ![p] = node],
           node.kind = "none" \/ Below(local, p),
           local[p].kind = "dir" => node.kind = "dir",
           node.kind = "link" => node.data \in Paths \ {p}
    PROVE  /\ \A q \in Paths : local'[q].kind # "none" => Below(local, q)'
           /\ \A q \in Paths : local'[q].kind = "link" => local'[q].data \in Paths \ {q}
           /\ \A q \in Paths : Below(local, q) => Below(local, q)'
<1>1. /\ local'[p] = node
      /\ \A q \in Paths : q # p => local'[q] = local[q]
    BY DEF TypeInv
<1>2. \A q \in Paths : Below(local, q) => Below(local, q)'
    BY <1>1, PathsAssumption DEF Below
<1> QED
    BY <1>1, <1>2 DEF LocalInv

LEMMA LocalInvInit == Init => LocalInv
<1>1. SUFFICES ASSUME Init PROVE LocalInv
    OBVIOUS
<1>2. \A p \in Paths :
        /\ local[p] \in {Absent, Folder, Node("file", Other, 1, 0)}
        /\ local[p] # Absent /\ ParentOf[p] # Root => local[ParentOf[p]] = Folder
    BY <1>1 DEF Init
<1>3. Absent.kind = "none" /\ Folder.kind = "dir" /\ Node("file", Other, 1, 0).kind = "file"
    BY DEF Absent, Folder, Node
<1> QED
    BY <1>1, <1>2, <1>3 DEF Init, LocalInv, Below, Fetching, Walking

LEMMA LocalInvNext ==
    ASSUME TypeInv, ServerInv, LocalInv, [Next]_vars
    PROVE  LocalInv'
<1>0. local \in [Paths -> Nodes] /\ remote \in [Paths -> Nodes]
    BY DEF TypeInv
<1>1. ASSUME NEW p \in Paths, NEW node \in Nodes, Change(p, node)
      PROVE  LocalInv'
    BY <1>1 DEF Change, tree, walk, LocalInv, Below, Fetching, Entries
<1>2. CASE Begin
    <2>1. Entries' = {}
        BY <1>2 DEF Begin, Entries
    <2> QED
        BY <1>2, <2>1 DEF Begin, tree, LocalInv, Below, Fetching
<1>3. CASE ListDir
    <2>1. CASE pc' = "walk"
        <3>1. \A e \in Listing : Below(local, e.path) \/ dry
            BY <1>3 DEF Listing, Children, ListDir, LocalInv, Below
        <3>2. \A e \in Entries' : Below(local, e.path) \/ dry
            BY <1>3, <2>1, <3>1, ListDirFacts DEF ListDir, LocalInv, Walking
        <3> QED
            BY <1>3, <2>1, <3>2 DEF ListDir, tree, LocalInv, Below, Fetching
    <2>2. CASE pc' # "walk"
        BY <1>3, <2>2 DEF ListDir, tree, LocalInv, Below, Fetching, Walking
    <2> QED
        BY <2>1, <2>2
<1>4. CASE LeaveDir
    BY <1>4, LeaveDirFacts DEF LeaveDir, tree, LocalInv, Below, Fetching, Walking
<1>5. CASE RenamePart
    <2>1. CASE local[item.path].kind = "dir"
        BY <1>5, <2>1 DEF RenamePart, tree, walk, LocalInv, Below, Fetching, Walking
    <2>2. CASE local[item.path].kind # "dir"
        <3>1. PICK r \in Reads : local' = [local EXCEPT ![item.path] = Node("file", r.data, r.size, clock)]
            BY <1>5, <2>2 DEF RenamePart
        <3> DEFINE node == Node("file", r.data, r.size, clock)
        <3>2. node \in Nodes /\ node.kind = "file"
            <4>1. r.data \in Contents /\ r.size \in Nat /\ clock \in Nat
                BY <1>5, <3>1, ReadsTypes DEF RenamePart, TypeInv
            <4> QED
                BY <4>1, NodeTypes
        <3>3. item.path \in Paths /\ Below(local, item.path)
            BY <1>5 DEF RenamePart, TypeInv, LocalInv, Fetching
        <3>4. /\ \A q \in Paths : local'[q].kind # "none" => Below(local, q)'
              /\ \A q \in Paths : local'[q].kind = "link" => local'[q].data \in Paths \ {q}
              /\ \A q \in Paths : Below(local, q) => Below(local, q)'
              /\ local'[item.path].kind = "file"
            <4>1. local' = [local EXCEPT ![item.path] = node]
                BY <3>1
            <4> HIDE DEF node
            <4> QED
                BY <1>0, <2>2, <3>2, <3>3, <4>1, PutKeepsTree
        <3>5. Entries' = Entries /\ UNCHANGED <<dry, listing, item>> /\ pc = "copy" /\ pc' = "stamp"
            BY <1>5, <2>2 DEF RenamePart, walk, Entries
        <3>6. \A e \in Entries : e.path \in Paths
            BY DEF Entries, TypeInv, EntrySets
        <3> QED
            BY <3>3, <3>4, <3>5, <3>6 DEF LocalInv, Fetching, Walking
    <2> QED
        BY <2>1, <2>2
<1>6. CASE StampFile
    <2>1. \A q \in Paths : local'[q].kind = local[q].kind /\ local'[q].data = local[q].data
        <3>1. local' = [local EXCEPT ![item.path] = [local[item.path] EXCEPT !.mtime = item.meta.mtime]]
            BY <1>6 DEF StampFile
        <3>2. /\ [local[item.path] EXCEPT !.mtime = item.meta.mtime].kind = local[item.path].kind
              /\ [local[item.path] EXCEPT !.mtime = item.meta.mtime].data = local[item.path].data
            BY <1>0, <1>6 DEF StampFile, Nodes, TypeInv, Fetching
        <3> QED
            BY <1>0, <3>1, <3>2
    <2>2. \A q \in Paths : Below(local, q)' <=> Below(local, q)
        BY <2>1, PathsAssumption DEF Below
    <2>3. \A e \in Entries : e.path \in Paths
        BY DEF Entries, TypeInv, EntrySets
    <2>4. Entries' = Entries /\ UNCHANGED <<dry, listing, item>> /\ pc = "stamp" /\ pc' = "walk"
        BY <1>6 DEF StampFile, walk, Entries
    <2> QED
        BY <2>1, <2>2, <2>3, <2>4 DEF LocalInv, Fetching, Walking
<1>7. ASSUME NEW e \in todo[Len(todo)],
             SkipFiltered(e) \/ EnterDir(e) \/ MakeLink(e) \/ SkipFile(e) \/ OpenFile(e)
      PROVE  LocalInv'
    <2>0. TakeEntry(e)
        BY <1>7 DEF SkipFiltered, EnterDir, MakeLink, SkipFile, OpenFile
    <2>1. /\ pc = "walk" /\ e.path \in Paths /\ e \in Entries /\ Entries' \subseteq Entries
          /\ \A f \in Entries : f.path \in Paths
        BY <2>0, TakeEntryFacts DEF Entries, TypeInv, EntrySets
    <2>2. dry \/ Below(local, e.path)
        BY <2>1 DEF LocalInv, Walking
    <2>3. CASE SkipFiltered(e) \/ SkipFile(e) \/ OpenFile(e)
        <3>1. UNCHANGED <<local, dry, listing>> /\ pc' \in {"walk", "failed", "copy"}
            BY <2>1, <2>3 DEF SkipFiltered, SkipFile, OpenFile, tree
        <3>2. Fetching' => item' = e /\ ~dry
            BY <2>1, <2>3 DEF SkipFiltered, SkipFile, OpenFile, Fetching
        <3> QED
            BY <2>1, <2>2, <3>1, <3>2 DEF LocalInv, Below, Fetching, Walking
    <2>4. CASE EnterDir(e)
        <3>1. UNCHANGED dry /\ pc' \in {"list", "failed"} /\ listing' = e.path
            BY <2>4 DEF EnterDir
        <3>2. CASE dry \/ pc' = "failed"
            BY <2>1, <2>4, <3>1, <3>2 DEF EnterDir, LocalInv, Below, Fetching, Walking
        <3>3. CASE ~dry /\ pc' = "list"
            <4>1. local' = [local EXCEPT ![e.path] = Folder] /\ Folder \in Nodes /\ Folder.kind = "dir"
                BY <2>4, <3>3, NodeTypes DEF EnterDir
            <4>2. /\ \A q \in Paths : local'[q].kind # "none" => Below(local, q)'
                  /\ \A q \in Paths : local'[q].kind = "link" => local'[q].data \in Paths \ {q}
                  /\ \A q \in Paths : Below(local, q) => Below(local, q)'
                BY <2>1, <2>2, <3>3, <4>1, PutKeepsTree
            <4> QED
                BY <1>0, <2>1, <3>1, <3>3, <4>1, <4>2 DEF LocalInv, Fetching, Walking
        <3> QED
            BY <3>1, <3>2, <3>3
    <2>5. CASE MakeLink(e)
        <3>1. UNCHANGED <<dry, listing>> /\ pc' \in {"walk", "failed"}
            BY <2>1, <2>5 DEF MakeLink
        <3>2. CASE local' = local
            BY <2>1, <3>1, <3>2 DEF LocalInv, Below, Fetching, Walking
        <3>3. CASE local' # local
            <4> DEFINE node == Node("link", remote[e.path].data, 0, 0)
            <4>1. /\ local' = [local EXCEPT ![e.path] = node] /\ ~dry /\ local[e.path].kind # "dir"
                  /\ remote[e.path].data \in Paths \ {e.path}
                BY <2>1, <2>5, <3>3 DEF MakeLink, ServerInv
            <4>2. node \in Nodes /\ node.kind = "link" /\ node.data = remote[e.path].data
                <5>1. PICK d : d = remote[e.path].data
                    OBVIOUS
                <5>2. d \in Contents \cup Paths
                    BY <4>1, <5>1
                <5>3. /\ Node("link", d, 0, 0) \in Nodes /\ Node("link", d, 0, 0).kind = "link"
                      /\ Node("link", d, 0, 0).data = d
                    BY <5>2, NodeTypes
                <5> QED
                    BY <5>1, <5>3
            <4>3. /\ \A q \in Paths : local'[q].kind # "none" => Below(local, q)'
                  /\ \A q \in Paths : local'[q].kind = "link" => local'[q].data \in Paths \ {q}
                  /\ \A q \in Paths : Below(local, q) => Below(local, q)'
                <5> HIDE DEF node
                <5> QED
                    BY <2>1, <2>2, <4>1, <4>2, PutKeepsTree DEF node
            <4> QED
                BY <2>1, <3>1, <4>3 DEF LocalInv, Fetching, Walking
        <3> QED
            BY <3>2, <3>3
    <2> QED
        BY <1>7, <2>3, <2>4, <2>5
<1>8. ASSUME NEW p \in Paths, DeleteExtra(p)
      PROVE  LocalInv'
    <2>1. pc = "delete" /\ pc' = "delete"
        BY <1>8 DEF DeleteExtra
    <2>2. CASE local' = local
        BY <2>1, <2>2 DEF LocalInv, Below, Fetching, Walking
    <2>3. CASE local' # local
        <3>1. local' = [local EXCEPT ![p] = Absent] /\ \A q \in Children(p) : local[q].kind = "none"
            BY <1>8, <2>3 DEF DeleteExtra
        <3>2. Absent.kind = "none"
            BY NodeTypes
        <3>3. /\ local'[p] = Absent
              /\ \A q \in Paths : q # p => local'[q] = local[q]
            BY <1>0, <3>1
        <3> QED
            BY <2>1, <3>1, <3>2, <3>3, PathsAssumption DEF LocalInv, Below, Children, Fetching, Walking
    <2> QED
        BY <2>2, <2>3
<1>9. CASE EndDelete \/ Kill
    BY <1>9 DEF EndDelete, Kill, tree, walk, LocalInv, Below, Fetching, Walking
<1>10. CASE UNCHANGED vars
    BY <1>10 DEF vars, tree, walk, LocalInv, Below, Fetching, Entries
<1> QED
    BY <1>1, <1>2, <1>3, <1>4, <1>5, <1>6, <1>7, <1>8, <1>9, <1>10, ChangeTypes DEF Next
-------------------------------------------------------------------------------------
(* What a sync has accounted for.                                                    *)

\* Taking an entry leaves nothing out that is let through.
LEMMA TakeKeepsWalk ==
    ASSUME TypeInv, WalkInv, NEW e \in todo[Len(todo)], TakeEntry(e), missing' = missing,
           \/ e.path \notin Allowed /\ expected' = expected
           \/ /\ expected' = expected \cup {e.path}
              /\ e.meta.kind = "dir" => pc' = "list" /\ listing' = e.path
    PROVE  WalkInv'
<1>1. /\ pc = "walk" /\ e \in Entries /\ Entries' \subseteq Entries
      /\ \A f \in Entries : f = e \/ f \in Entries'
    BY TakeEntryFacts
<1>2. \A f \in Entries' : f.meta.kind # "dir" => Children(f.path) \subseteq missing'
    BY <1>1 DEF WalkInv, Syncing, Walking
<1>3. ASSUME NEW p \in Reached PROVE Accounted(p)'
    <2>1. p \in Allowed /\ p \in Paths
        BY ReachedFacts, SpecAssumption
    <2>2. CASE p \in missing \cup expected
        BY <2>2 DEF Accounted
    <2>3. CASE \E f \in Entries : f.path = p
        BY <1>1, <2>1, <2>3 DEF Accounted
    <2>4. CASE ParentOf[p] \in Paths \ expected
        <3>1. CASE ParentOf[p] \notin expected'
            BY <2>4, <3>1 DEF Accounted
        <3>2. CASE ParentOf[p] \in expected'
            <4>1. ParentOf[p] = e.path /\ expected' = expected \cup {e.path}
                BY <2>4, <3>2
            <4>2. CASE e.meta.kind = "dir"
                BY <2>4, <4>1, <4>2 DEF Accounted
            <4>3. CASE e.meta.kind # "dir"
                BY <1>1, <2>1, <4>1, <4>3 DEF Accounted, WalkInv, Syncing, Walking, Children
            <4> QED
                BY <4>2, <4>3
        <3> QED
            BY <3>1, <3>2
    <2> QED
        BY <1>1, <2>2, <2>3, <2>4 DEF WalkInv, Accounted, Syncing, Walking
<1> QED
    BY <1>2, <1>3 DEF WalkInv

LEMMA WalkInvNext ==
    ASSUME TypeInv, ServerInv, PastInv, WalkInv, [Next]_vars
    PROVE  WalkInv'
<1>1. ASSUME NEW p \in Paths, NEW node \in Nodes, Change(p, node)
      PROVE  WalkInv'
    <2>1. missing \subseteq missing' /\ Entries' = Entries /\ UNCHANGED <<pc, listing, expected>>
        BY <1>1 DEF Change, walk, Entries
    <2> QED
        BY <2>1 DEF WalkInv, Accounted
<1>2. CASE Begin
    <2>1. Entries' = {} /\ pc' = "list" /\ listing' = Root /\ expected' = {}
        BY <1>2 DEF Begin, Entries
    <2>2. \A p \in Reached : ParentOf[p] = Root \/ ParentOf[p] \in Paths
        BY ReachedFacts, SpecAssumption
    <2> QED
        BY <2>1, <2>2 DEF WalkInv, Accounted
<1>3. CASE ListDir
    <2>1. pc = "list" /\ UNCHANGED <<remote, missing, expected, listing>>
        BY <1>3 DEF ListDir, server, past
    <2>2. CASE pc' = "walk"
        <3>1. ASSUME NEW p \in Reached PROVE Accounted(p)'
            <4>1. p \in Paths
                BY ReachedFacts, SpecAssumption
            <4>2. CASE listing = ParentOf[p]
                <5>1. CASE Exists(p)
                    <6>1. [path |-> p, meta |-> remote[p]] \in Listing
                        BY <4>1, <4>2, <5>1 DEF Listing, Children
                    <6> QED
                        BY <1>3, <2>2, <6>1, ListDirFacts DEF Accounted
                <5>2. CASE ~Exists(p)
                    BY <2>1, <4>1, <5>2 DEF PastInv, Accounted
                <5> QED
                    BY <5>1, <5>2
            <4>3. CASE listing # ParentOf[p]
                BY <1>3, <2>1, <2>2, <4>3, ListDirFacts DEF WalkInv, Accounted, Syncing, Walking
            <4> QED
                BY <4>2, <4>3
        <3>2. ASSUME NEW e \in Entries', e.meta.kind # "dir" PROVE Children(e.path) \subseteq missing'
            <4>1. CASE e \in Entries
                BY <2>1, <3>2, <4>1 DEF WalkInv, Syncing, Walking
            <4>2. CASE e \in Listing
                <5>1. e.path \in Paths /\ remote[e.path].kind # "dir"
                    BY <3>2, <4>2 DEF Listing, Children
                <5>2. \A q \in Children(e.path) : ~Exists(q)
                    BY <5>1, PathsAssumption DEF Children, ServerInv, Below
                <5> QED
                    BY <2>1, <5>2 DEF PastInv, Children
            <4> QED
                BY <1>3, <2>2, <4>1, <4>2, ListDirFacts
        <3> QED
            BY <3>1, <3>2 DEF WalkInv
    <2>3. CASE pc' # "walk"
        BY <1>3, <2>3 DEF ListDir, WalkInv, Syncing, Walking
    <2> QED
        BY <2>2, <2>3
<1>4. CASE LeaveDir
    <2>1. Entries' = Entries /\ pc = "walk" /\ UNCHANGED <<missing, expected>>
        BY <1>4, LeaveDirFacts DEF LeaveDir, past
    <2> QED
        BY <2>1 DEF WalkInv, Accounted, Syncing, Walking
<1>5. CASE RenamePart \/ StampFile \/ EndDelete \/ Kill
    <2>1. Entries' = Entries /\ UNCHANGED <<missing, expected, listing>>
        BY <1>5 DEF RenamePart, StampFile, EndDelete, Kill, walk, past, Entries
    <2>2. (pc \notin {"list"} \cup Stopped /\ pc' # "list") \/ pc' = "killed"
        BY <1>5 DEF RenamePart, StampFile, EndDelete, Kill, Stopped
    <2>3. pc' \in Syncing => pc \in Syncing
        BY <1>5 DEF RenamePart, StampFile, EndDelete, Kill, Syncing, Walking
    <2> QED
        BY <2>1, <2>2, <2>3 DEF WalkInv, Accounted, Syncing, Walking
<1>6. ASSUME NEW e \in todo[Len(todo)],
             SkipFiltered(e) \/ EnterDir(e) \/ MakeLink(e) \/ SkipFile(e) \/ OpenFile(e)
      PROVE  WalkInv'
    <2>1. TakeEntry(e) /\ missing' = missing
        BY <1>6 DEF SkipFiltered, EnterDir, MakeLink, SkipFile, OpenFile, past
    <2>2. CASE pc' = "failed"
        BY <2>2 DEF WalkInv, Syncing, Walking
    <2>3. CASE pc' # "failed"
        <3>1. \/ e.path \notin Allowed /\ expected' = expected
              \/ /\ expected' = expected \cup {e.path}
                 /\ e.meta.kind = "dir" => pc' = "list" /\ listing' = e.path
            BY <1>6, <2>3 DEF SkipFiltered, EnterDir, MakeLink, SkipFile, OpenFile, IsFile
        <3> QED
            BY <2>1, <3>1, TakeKeepsWalk
    <2> QED
        BY <2>2, <2>3
<1>7. ASSUME NEW p \in Paths, DeleteExtra(p)
      PROVE  WalkInv'
    BY <1>7 DEF DeleteExtra, walk, past, WalkInv, Accounted, Entries
<1>8. CASE UNCHANGED vars
    BY <1>8 DEF vars, walk, past, WalkInv, Accounted, Entries
<1> QED
    BY <1>1, <1>2, <1>3, <1>4, <1>5, <1>6, <1>7, <1>8, ChangeTypes DEF Next

\* When the walk is over, all that is let through is accounted for: of what is not, the
\* topmost would have been listed.
LEMMA WalkAccounts ==
    ASSUME TypeInv, PastInv, WalkInv, pc \in {"delete", "done"}
    PROVE  Reached \subseteq missing \cup expected
<1> DEFINE Rest == {p \in Reached : p \notin missing \cup expected}
<1>1. Rest \subseteq Paths
    BY ReachedFacts, SpecAssumption
<1>2. ASSUME NEW p \in Rest PROVE ParentOf[p] \in Rest
    <2>1. p \in Paths /\ Accounted(p) /\ Entries = {}
        BY <1>1, NoEntries DEF WalkInv, Syncing, TypeInv
    <2>2. ParentOf[p] \in Paths \ expected
        BY <2>1 DEF Accounted
    <2>3. ParentOf[p] \in Reached /\ ParentOf[p] \notin missing
        BY <2>1, <2>2, ReachedFacts, PathsAssumption DEF PastInv
    <2> QED
        BY <2>2, <2>3
<1>3. Rest = {}
    <2> HIDE DEF Rest
    <2> QED
        BY <1>1, <1>2, TreeAssumption
<1> QED
    BY <1>3
-------------------------------------------------------------------------------------
(* What was listed, and its times.                                                   *)

LEMMA ListedInvNext ==
    ASSUME TypeInv, ListedInv, [Next]_vars
    PROVE  ListedInv'
<1>0. /\ remote \in [Paths -> Nodes] /\ expected \subseteq Paths
      /\ \A e \in Entries : e.path \in Paths
    BY DEF TypeInv, Entries, EntrySets
<1>1. ASSUME NEW p \in Paths, NEW node \in Nodes, Change(p, node)
      PROVE  ListedInv'
    <2>1. /\ changed' = changed \cup {p} /\ remote' = [remote EXCEPT ![p] = node]
          /\ Entries' = Entries /\ UNCHANGED <<pc, item, listing, expected>>
        BY <1>1 DEF Change, walk, Entries
    <2>2. \A q \in Paths : q \notin changed' => remote'[q] = remote[q] /\ q \notin changed
        BY <1>0, <2>1
    <2>3. Fetching' = Fetching /\ (Fetching => item.path \in Paths) /\ listing \in Paths \cup {Root}
        BY <2>1 DEF Fetching, TypeInv
    <2> QED
        BY <1>0, <2>1, <2>2, <2>3 DEF ListedInv, Exists
<1>2. CASE Begin
    BY <1>2 DEF Begin, ListedInv, Entries, Fetching
<1>3. CASE ListDir
    <2>1. pc = "list" /\ UNCHANGED <<remote, changed, expected, listing>>
        BY <1>3 DEF ListDir, server, past
    <2>2. CASE pc' = "walk"
        <3>1. \A e \in Listing : e.meta = remote[e.path] /\ e.meta.kind # "none"
            BY DEF Listing, Exists
        <3> QED
            BY <1>3, <2>1, <2>2, <3>1, ListDirFacts DEF ListedInv, Fetching, Syncing, Walking, Exists
    <2>3. CASE pc' # "walk"
        BY <1>3, <2>3 DEF ListDir, ListedInv, Syncing, Walking
    <2> QED
        BY <2>2, <2>3
<1>4. CASE LeaveDir
    <2>1. /\ Entries' = Entries /\ pc = "walk" /\ pc' \in {"walk", "delete", "done"}
          /\ UNCHANGED <<remote, changed, expected>>
        BY <1>4, LeaveDirFacts DEF LeaveDir, past, server
    <2> QED
        BY <2>1 DEF ListedInv, Fetching, Syncing, Walking, Exists
<1>5. CASE RenamePart \/ StampFile \/ EndDelete \/ Kill
    <2>1. Entries' = Entries /\ UNCHANGED <<remote, changed, expected, listing, item>>
        BY <1>5 DEF RenamePart, StampFile, EndDelete, Kill, walk, past, server, Entries
    <2>2. pc' # "list" /\ (Fetching' => Fetching) /\ (pc' \in Syncing => pc \in Syncing)
        BY <1>5 DEF RenamePart, StampFile, EndDelete, Kill, Fetching, Syncing, Walking
    <2> QED
        BY <2>1, <2>2 DEF ListedInv, Exists
<1>6. ASSUME NEW e \in todo[Len(todo)],
             SkipFiltered(e) \/ EnterDir(e) \/ MakeLink(e) \/ SkipFile(e) \/ OpenFile(e)
      PROVE  ListedInv'
    <2>1. TakeEntry(e) /\ UNCHANGED <<remote, changed>>
        BY <1>6 DEF SkipFiltered, EnterDir, MakeLink, SkipFile, OpenFile, past, server
    <2>2. pc = "walk" /\ e \in Entries /\ Entries' \subseteq Entries
        BY <2>1, TakeEntryFacts
    <2>3. /\ e.path \in changed \/ e.meta = remote[e.path]
          /\ e.meta.kind # "none"
          /\ \A p \in expected \ changed : Exists(p)
          /\ \A f \in Entries' : (f.path \notin changed => f.meta = remote[f.path]) /\ f.meta.kind # "none"
        BY <2>2 DEF ListedInv, Syncing, Walking
    <2>4. \A p \in expected' \ changed : Exists(p)
        BY <1>6, <2>3 DEF SkipFiltered, EnterDir, MakeLink, SkipFile, OpenFile, Exists
    <2>5. CASE SkipFiltered(e) \/ MakeLink(e) \/ SkipFile(e)
        BY <2>1, <2>2, <2>3, <2>4, <2>5 DEF SkipFiltered, MakeLink, SkipFile, ListedInv, Fetching, Exists, Syncing, Walking
    <2>6. CASE EnterDir(e)
        BY <2>1, <2>2, <2>3, <2>4, <2>6 DEF EnterDir, ListedInv, Fetching, Exists, Syncing, Walking
    <2>7. CASE OpenFile(e)
        BY <2>1, <2>2, <2>3, <2>4, <2>7 DEF OpenFile, IsFile, Dated, ListedInv, Fetching, Exists, Syncing, Walking
    <2> QED
        BY <1>6, <2>5, <2>6, <2>7
<1>7. ASSUME NEW p \in Paths, DeleteExtra(p)
      PROVE  ListedInv'
    BY <1>7 DEF DeleteExtra, walk, past, server, ListedInv, Fetching, Exists, Entries
<1>8. CASE UNCHANGED vars
    BY <1>8 DEF vars, walk, past, server, ListedInv, Fetching, Exists, Entries
<1> QED
    BY <1>1, <1>2, <1>3, <1>4, <1>5, <1>6, <1>7, <1>8, ChangeTypes DEF Next

LEMMA TimesInvInit == Init => TimesInv
<1>1. SUFFICES ASSUME Init, NEW p \in Paths, NEW t \in Nat PROVE ~HasTime(p, t)
    BY DEF TimesInv
<1>2. /\ Absent.kind = "none" /\ Folder.kind = "dir"
      /\ Node("file", Other, 1, 0).mtime = 0
    BY DEF Absent, Folder, Node
<1>3. remote[p] = Absent /\ local[p] \in {Absent, Folder, Node("file", Other, 1, 0)}
    BY <1>1 DEF Init
<1> QED
    BY <1>1, <1>2, <1>3 DEF Init, HasTime, Dated, Entries, Fetching

\* A time that is nowhere new.
LEMMA TimesKept ==
    ASSUME TimesInv, UNCHANGED clock,
           \A p \in Paths : \A t \in Nat : HasTime(p, t)' => HasTime(p, t)
    PROVE  TimesInv'
BY DEF TimesInv

LEMMA TimesInvNext ==
    ASSUME TypeInv, ListedInv, TimesInv, [Next]_vars
    PROVE  TimesInv'
<1>0. local \in [Paths -> Nodes] /\ remote \in [Paths -> Nodes] /\ clock \in Nat /\ Gap \in Nat
    BY SizesAssumption DEF TypeInv
<1>1. ASSUME NEW p \in Paths, NEW node \in Nodes, Change(p, node), Own(p, node)
      PROVE  TimesInv'
    <2>1. /\ remote' = [remote EXCEPT ![p] = node] /\ clock' = clock + Gap
          /\ Entries' = Entries /\ UNCHANGED <<pc, item, local, unstamped>>
          /\ Dated(node) => node.mtime = clock + Gap
        BY <1>1 DEF Change, walk, tree, Entries, Own
    <2>2. ASSUME NEW q \in Paths, NEW t \in Nat, HasTime(q, t)'
          PROVE  HasTime(q, t) \/ (q = p /\ t = clock + Gap)
        BY <1>0, <2>1, <2>2 DEF HasTime, Fetching
    <2>3. \A q \in Paths : \A t \in Nat : HasTime(q, t) => Gap <= t /\ t <= clock
        BY DEF TimesInv
    <2>4. ASSUME NEW q \in Paths, NEW r \in Paths, NEW s \in Nat, NEW t \in Nat, HasTime(q, s)', HasTime(r, t)'
          PROVE  /\ Gap <= s /\ s <= clock + Gap
                 /\ (q = r /\ s = t) \/ s + Gap <= t \/ t + Gap <= s
        <3>1. CASE HasTime(q, s) /\ HasTime(r, t)
            <4>1. /\ Gap <= s /\ s <= clock
                  /\ (q = r /\ s = t) \/ s + Gap <= t \/ t + Gap <= s
                BY <3>1 DEF TimesInv
            <4> QED
                BY <1>0, <4>1
        <3>2. CASE ~(HasTime(q, s) /\ HasTime(r, t))
            BY <1>0, <2>2, <2>3, <2>4, <3>2
        <3> QED
            BY <3>1, <3>2
    <2> QED
        BY <2>1, <2>4 DEF TimesInv
<1>2. CASE Begin
    <2>1. UNCHANGED <<clock, remote, local, unstamped>> /\ Entries' = {} /\ ~Fetching'
        BY <1>2 DEF Begin, server, tree, Entries, Fetching
    <2> QED
        BY <2>1, TimesKept DEF HasTime
<1>3. CASE ListDir
    <2>1. UNCHANGED <<clock, remote, local, unstamped>> /\ ~Fetching'
        BY <1>3 DEF ListDir, server, tree, past, Fetching
    <2>2. \A e \in Entries' : e \in Entries \/ e.meta = remote[e.path]
        <3>1. CASE pc' = "walk"
            BY <1>3, <3>1, ListDirFacts DEF Listing
        <3>2. CASE pc' # "walk"
            BY <1>3, <3>2 DEF ListDir, Entries
        <3> QED
            BY <3>1, <3>2
    <2> QED
        BY <2>1, <2>2, TimesKept DEF HasTime
<1>4. CASE LeaveDir \/ EndDelete \/ Kill
    <2>1. UNCHANGED <<clock, remote, local, unstamped>> /\ ~Fetching' /\ Entries' = Entries
        BY <1>4, LeaveDirFacts DEF LeaveDir, EndDelete, Kill, server, tree, past, walk, Fetching, Entries
    <2> QED
        BY <2>1, TimesKept DEF HasTime
<1>5. CASE RenamePart
    <2>1. UNCHANGED <<clock, remote, item>> /\ Entries' = Entries /\ Fetching
        BY <1>5 DEF RenamePart, server, walk, Entries, Fetching
    <2>2. ASSUME NEW p \in Paths PROVE p \in unstamped' \/ (local'[p] = local[p] /\ p \notin unstamped)
        BY <1>0, <1>5 DEF RenamePart, tree
    <2> QED
        BY <2>1, <2>2, TimesKept DEF HasTime
<1>6. CASE StampFile
    <2>1. UNCHANGED <<clock, remote, item>> /\ Entries' = Entries /\ Fetching /\ item.path \in Paths
        BY <1>6 DEF StampFile, server, walk, Entries, Fetching, TypeInv
    <2>2. Dated(item.meta)
        BY <1>6, <2>1 DEF ListedInv, StampFile, Syncing, Walking
    <2>3. local'[item.path].mtime = item.meta.mtime
        <3>1. local'[item.path] = [local[item.path] EXCEPT !.mtime = item.meta.mtime]
            BY <1>0, <1>6, <2>1 DEF StampFile
        <3> QED
            BY <1>0, <2>1, <3>1 DEF Nodes
    <2>4. ASSUME NEW p \in Paths, p # item.path
          PROVE  local'[p] = local[p] /\ (p \notin unstamped' => p \notin unstamped)
        BY <1>0, <1>6, <2>4 DEF StampFile
    <2> QED
        BY <2>1, <2>2, <2>3, <2>4, TimesKept DEF HasTime
<1>7. ASSUME NEW e \in todo[Len(todo)],
             SkipFiltered(e) \/ EnterDir(e) \/ MakeLink(e) \/ SkipFile(e) \/ OpenFile(e)
      PROVE  TimesInv'
    <2>1. TakeEntry(e) /\ UNCHANGED <<clock, remote, unstamped>>
        BY <1>7 DEF SkipFiltered, EnterDir, MakeLink, SkipFile, OpenFile, past, server
    <2>2. pc = "walk" /\ e \in Entries /\ Entries' \subseteq Entries
        BY <2>1, TakeEntryFacts
    <2>3. ASSUME NEW p \in Paths PROVE local'[p] = local[p] \/ local'[p].kind # "file"
        <3>1. Folder.kind = "dir" /\ Node("link", remote[e.path].data, 0, 0).kind = "link"
            BY DEF Folder, Node
        <3> QED
            BY <1>0, <1>7, <3>1 DEF SkipFiltered, EnterDir, MakeLink, SkipFile, OpenFile, tree
    <2>4. Fetching' => item' = e
        BY <1>7, <2>2 DEF SkipFiltered, EnterDir, MakeLink, SkipFile, OpenFile, Fetching
    <2> QED
        BY <2>1, <2>2, <2>3, <2>4, TimesKept DEF HasTime
<1>8. ASSUME NEW p \in Paths, DeleteExtra(p)
      PROVE  TimesInv'
    <2>1. UNCHANGED <<clock, remote, unstamped>> /\ Entries' = Entries /\ ~Fetching'
        BY <1>8 DEF DeleteExtra, server, walk, past, Entries, Fetching
    <2>2. ASSUME NEW q \in Paths PROVE local'[q] = local[q] \/ local'[q].kind # "file"
        BY <1>0, <1>8, NodeTypes DEF DeleteExtra
    <2> QED
        BY <2>1, <2>2, TimesKept DEF HasTime
<1>9. CASE UNCHANGED vars
    BY <1>9, TimesKept DEF vars, walk, tree, past, server, HasTime, Fetching, Entries
<1> QED
    BY <1>1, <1>2, <1>3, <1>4, <1>5, <1>6, <1>7, <1>8, <1>9, ChangeTypes DEF Next

LEMMA SameIfDatedSameInit == Init => SameIfDatedSame
<1>1. Absent.kind = "none"
    BY NodeTypes
<1> QED
    BY <1>1 DEF Init, SameIfDatedSame

\* A copy of a file that has the time of the listing has the file's content.
LEMMA CopyIsOriginal ==
    ASSUME TypeInv, SameIfDatedSame, pc = "copy", NEW r \in Reads,
           remote[item.path].kind = "file", remote[item.path].mtime = item.meta.mtime
    PROVE  r.data = remote[item.path].data
<1>1. got = remote[item.path].data /\ Content(item.path) = remote[item.path]
    BY DEF SameIfDatedSame, Content
<1>2. Reads = {[data |-> got, size |-> SizeOf[got]]}
    BY <1>1 DEF Reads
<1> QED
    BY <1>1, <1>2

LEMMA SameIfDatedSameNext ==
    ASSUME Gap > 0, TypeInv, ListedInv, LocalInv, TimesInv, SameIfDatedSame, [Next]_vars
    PROVE  SameIfDatedSame'
<1>0. /\ local \in [Paths -> Nodes] /\ remote \in [Paths -> Nodes] /\ clock \in Nat /\ Gap \in Nat
      /\ Fetching => item.path \in Paths
    BY SizesAssumption DEF TypeInv
<1>1. ASSUME NEW p \in Paths, NEW node \in Nodes, Change(p, node), Own(p, node)
      PROVE  SameIfDatedSame'
    <2>1. /\ remote' = [remote EXCEPT ![p] = node]
          /\ UNCHANGED <<pc, item, local, unstamped, got>>
          /\ node.kind = "file" => node.mtime = clock + Gap
        BY <1>1 DEF Change, walk, tree, Own, Dated
    <2>2. ASSUME NEW q \in Paths, local[q].kind = "file", q \notin unstamped
          PROVE  local[q].mtime \in Nat /\ local[q].mtime <= clock
        <3>1. local[q].mtime \in Nat
            BY <1>0 DEF Nodes
        <3> QED
            BY <1>0, <2>2, <3>1 DEF TimesInv, HasTime
    <2>3. Fetching => item.meta.mtime \in Nat /\ item.meta.mtime <= clock
        <3>1. SUFFICES ASSUME Fetching PROVE item.meta.mtime \in Nat /\ item.meta.mtime <= clock
            OBVIOUS
        <3>2. item.meta.mtime \in Nat
            BY DEF TypeInv, Nodes
        <3>3. HasTime(item.path, item.meta.mtime)
            BY <3>1 DEF HasTime, ListedInv, Fetching, Syncing, Walking
        <3> QED
            BY <1>0, <3>1, <3>2, <3>3 DEF TimesInv
    <2>4. \A q \in Paths : q # p => remote'[q] = remote[q]
        BY <1>0, <2>1
    <2>5. \A t \in Nat : t <= clock /\ remote'[p].kind = "file" => remote'[p].mtime # t
        BY <1>0, <2>1
    <2>6. ASSUME NEW q \in Paths, local[q].kind = "file", q \notin unstamped, remote'[q].kind = "file",
                 local[q].mtime = remote'[q].mtime
          PROVE  local[q].data = remote'[q].data
        BY <2>2, <2>4, <2>5, <2>6 DEF SameIfDatedSame
    <2>7. Fetching /\ remote'[item.path].kind = "file" /\ remote'[item.path].mtime = item.meta.mtime
            => remote'[item.path] = remote[item.path]
        BY <1>0, <2>3, <2>4, <2>5
    <2> QED
        BY <2>1, <2>6, <2>7 DEF SameIfDatedSame, Fetching
<1>2. CASE Begin \/ ListDir \/ LeaveDir \/ EndDelete \/ Kill
    <2>1. UNCHANGED <<remote, local, unstamped>> /\ ~Fetching'
        BY <1>2 DEF Begin, ListDir, LeaveDir, EndDelete, Kill, server, tree, past, Fetching
    <2> QED
        BY <2>1 DEF SameIfDatedSame, Fetching
<1>3. CASE RenamePart
    <2>1. UNCHANGED <<remote, item, got>> /\ pc = "copy" /\ pc' \in {"failed", "stamp"} /\ item.path \in Paths
        BY <1>0, <1>3 DEF RenamePart, server, walk, Fetching
    <2>2. CASE pc' = "failed"
        BY <1>3, <2>1, <2>2 DEF RenamePart, tree, SameIfDatedSame
    <2>3. CASE pc' = "stamp"
        <3>1. /\ unstamped' = unstamped \cup {item.path}
              /\ \E r \in Reads : local' = [local EXCEPT ![item.path] = Node("file", r.data, r.size, clock)]
            BY <1>3, <2>3 DEF RenamePart
        <3>2. PICK r \in Reads : local' = [local EXCEPT ![item.path] = Node("file", r.data, r.size, clock)]
            BY <3>1
        <3>3. /\ local'[item.path].data = r.data
              /\ \A q \in Paths : q # item.path => local'[q] = local[q]
            BY <1>0, <2>1, <3>2 DEF Node
        <3> QED
            BY <2>1, <2>3, <3>1, <3>3, CopyIsOriginal DEF SameIfDatedSame
    <2> QED
        BY <2>1, <2>2, <2>3
<1>4. CASE StampFile
    <2>1. /\ UNCHANGED <<remote, item>> /\ pc = "stamp" /\ pc' = "walk" /\ item.path \in Paths
          /\ unstamped' = unstamped \ {item.path}
          /\ local'[item.path] = [local[item.path] EXCEPT !.mtime = item.meta.mtime]
          /\ \A q \in Paths : q # item.path => local'[q] = local[q]
        BY <1>0, <1>4 DEF StampFile, server, walk, Fetching
    <2>2. local'[item.path].mtime = item.meta.mtime /\ local'[item.path].data = local[item.path].data
        BY <1>0, <2>1 DEF Nodes
    <2> QED
        BY <2>1, <2>2 DEF SameIfDatedSame
<1>5. ASSUME NEW e \in todo[Len(todo)],
             SkipFiltered(e) \/ EnterDir(e) \/ MakeLink(e) \/ SkipFile(e) \/ OpenFile(e)
      PROVE  SameIfDatedSame'
    <2>1. UNCHANGED <<remote, unstamped>> /\ pc = "walk" /\ pc' # "stamp"
        BY <1>5 DEF SkipFiltered, EnterDir, MakeLink, SkipFile, OpenFile, past, server, TakeEntry
    <2>2. ASSUME NEW p \in Paths PROVE local'[p] = local[p] \/ local'[p].kind # "file"
        <3>1. Folder.kind = "dir" /\ Node("link", remote[e.path].data, 0, 0).kind = "link"
            BY DEF Folder, Node
        <3> QED
            BY <1>0, <1>5, <3>1 DEF SkipFiltered, EnterDir, MakeLink, SkipFile, OpenFile, tree
    <2>3. pc' = "copy" => item' = e /\ got' = Content(e.path).data
        BY <1>5, <2>1 DEF SkipFiltered, EnterDir, MakeLink, SkipFile, OpenFile
    <2> QED
        BY <2>1, <2>2, <2>3 DEF SameIfDatedSame, Content
<1>6. ASSUME NEW p \in Paths, DeleteExtra(p)
      PROVE  SameIfDatedSame'
    <2>1. UNCHANGED <<remote, unstamped, pc>> /\ pc = "delete"
        BY <1>6 DEF DeleteExtra, server, past
    <2>2. ASSUME NEW q \in Paths PROVE local'[q] = local[q] \/ local'[q].kind # "file"
        BY <1>0, <1>6, NodeTypes DEF DeleteExtra
    <2> QED
        BY <2>1, <2>2 DEF SameIfDatedSame
<1>7. CASE UNCHANGED vars
    BY <1>7 DEF vars, walk, tree, past, server, SameIfDatedSame
<1> QED
    BY <1>1, <1>2, <1>3, <1>4, <1>5, <1>6, <1>7, ChangeTypes DEF Next
-------------------------------------------------------------------------------------
(* Agreement.                                                                        *)

\* Two seconds between changes are enough for a file that is taken for unchanged to be so.
LEMMA CurrentIsOriginal ==
    ASSUME Gap >= 2, TypeInv, LocalInv, TimesInv, SameIfDatedSame, unstamped = {},
           NEW e \in Entries, e.meta = remote[e.path], e.meta.kind = "file", LocalIsCurrent(e)
    PROVE  local[e.path].kind = "file" /\ local[e.path].data = remote[e.path].data
<1>0. /\ local \in [Paths -> Nodes] /\ e.path \in Paths /\ Gap \in Nat /\ e.meta \in Nodes
      /\ e.meta.mtime \in Nat
    BY SizesAssumption DEF TypeInv, Entries, EntrySets, Nodes
<1>1. HasTime(e.path, e.meta.mtime)
    BY <1>0 DEF HasTime, Dated
<1>2. Gap <= e.meta.mtime
    BY <1>0, <1>1 DEF TimesInv
\* The time of a file is 0 or one that it has been given.
<1>3. ASSUME NEW q \in Paths, local[q].kind = "file", Close(local[q].mtime, e.meta.mtime)
      PROVE  q = e.path /\ local[q].mtime = e.meta.mtime
    <2>1. local[q].mtime \in Nat
        BY <1>0 DEF Nodes
    <2>2. local[q].mtime # 0
        BY <1>0, <1>2, <1>3, <2>1 DEF Close
    <2>3. HasTime(q, local[q].mtime)
        BY <1>3, <2>2 DEF HasTime
    <2>4. \/ q = e.path /\ local[q].mtime = e.meta.mtime
          \/ local[q].mtime + Gap <= e.meta.mtime \/ e.meta.mtime + Gap <= local[q].mtime
        BY <1>0, <1>1, <2>1, <2>3 DEF TimesInv
    <2> QED
        BY <1>0, <1>3, <2>1, <2>4 DEF Close
<1>4. CASE local[e.path].kind = "link"
    <2>1. local[e.path].data \in Paths \ {e.path}
        BY <1>0, <1>4 DEF LocalInv
    <2> QED
        BY <1>3, <1>4, <2>1 DEF LocalIsCurrent
<1>5. CASE local[e.path].kind # "link"
    <2>1. local[e.path].kind = "file" /\ Close(local[e.path].mtime, e.meta.mtime)
        BY <1>5 DEF LocalIsCurrent
    <2> QED
        BY <1>0, <1>3, <2>1 DEF SameIfDatedSame
<1> QED
    BY <1>4, <1>5

LEMMA AgreeSame ==
    ASSUME NEW p, remote'[p] = remote[p], local'[p].kind = local[p].kind, local'[p].data = local[p].data
    PROVE  Agrees(p)' = Agrees(p)
BY DEF Agrees

\* An entry that has been acted on agrees.
LEMMA TakenAgrees ==
    ASSUME Gap >= 2, ~Follow, TypeInv, LocalInv, ListedInv, TimesInv, SameIfDatedSame,
           unstamped = {}, ~dry, pc' # "failed",
           NEW e \in todo[Len(todo)], EnterDir(e) \/ MakeLink(e) \/ SkipFile(e), e.path \notin changed
    PROVE  Agrees(e.path)'
<1>0. TakeEntry(e) /\ remote' = remote
    BY DEF EnterDir, MakeLink, SkipFile, server
<1>1. /\ pc = "walk" /\ e \in Entries /\ e.path \in Paths /\ local \in [Paths -> Nodes]
      /\ e.meta = remote[e.path]
    BY <1>0, TakeEntryFacts DEF ListedInv, Syncing, Walking, TypeInv
<1>2. CASE EnterDir(e)
    BY <1>0, <1>1, <1>2, NodeTypes DEF EnterDir, Agrees
<1>3. CASE MakeLink(e)
    <2>1. CASE local[e.path].kind = "dir"
        BY <1>0, <1>1, <1>3, <2>1 DEF MakeLink, Agrees
    <2>2. CASE local[e.path].kind # "dir"
        <3>1. local'[e.path] = Node("link", remote[e.path].data, 0, 0)
            BY <1>0, <1>1, <1>3, <2>2 DEF MakeLink
        <3>2. local'[e.path].kind = "link" /\ local'[e.path].data = remote[e.path].data
            BY <3>1 DEF Node
        <3> QED
            BY <1>0, <1>1, <1>3, <3>2 DEF MakeLink, Agrees
    <2> QED
        BY <2>1, <2>2
<1>4. CASE SkipFile(e)
    <2>1. remote[e.path].kind = "file" /\ local' = local
        BY <1>1, <1>4 DEF SkipFile, IsFile, tree
    <2>2. \/ remote[e.path].size > MaxSize
          \/ local[e.path].kind = "file" /\ local[e.path].data = remote[e.path].data
        BY <1>1, <1>4, <2>1, CurrentIsOriginal DEF SkipFile
    <2> QED
        BY <1>0, <2>1, <2>2 DEF Agrees
<1> QED
    BY <1>2, <1>3, <1>4

LEMMA AgreeInvNext ==
    ASSUME Gap >= 2, ~Follow, TypeInv, LocalInv, ListedInv, TimesInv, SameIfDatedSame, AgreeInv, [Next]_vars
    PROVE  AgreeInv'
<1>0. /\ local \in [Paths -> Nodes] /\ remote \in [Paths -> Nodes]
      /\ expected \subseteq Paths /\ unstamped \subseteq Paths /\ (Fetching => item.path \in Paths)
    BY DEF TypeInv
<1>1. ASSUME NEW p \in Paths, NEW node \in Nodes, Change(p, node)
      PROVE  AgreeInv'
    <2>1. /\ remote' = [remote EXCEPT ![p] = node] /\ changed' = changed \cup {p}
          /\ UNCHANGED <<pc, dry, suspect, expected, item, local, unstamped>>
        BY <1>1 DEF Change, walk, tree
    <2>2. \A q \in Paths \ changed' : remote'[q] = remote[q] /\ q \notin changed
        BY <1>0, <2>1
    <2>3. \A q \in expected' \ changed' : Agrees(q)' = Agrees(q)
        BY <1>0, <2>1, <2>2, AgreeSame
    <2> QED
        BY <1>0, <2>1, <2>2, <2>3 DEF AgreeInv
<1>2. CASE Begin
    BY <1>2 DEF Begin, AgreeInv
<1>3. CASE ListDir \/ LeaveDir \/ EndDelete \/ Kill
    <2>1. UNCHANGED <<remote, local, dry, suspect, expected, unstamped, changed>>
        BY <1>3 DEF ListDir, LeaveDir, EndDelete, Kill, server, tree, past, walk
    <2>2. pc' \in Syncing => pc \in Syncing /\ ~Fetching
        BY <1>3 DEF ListDir, LeaveDir, EndDelete, Kill, Syncing, Walking, Fetching
    <2> QED
        BY <2>1, <2>2 DEF AgreeInv, Agrees, Fetching
<1>4. CASE RenamePart
    <2>1. /\ UNCHANGED <<remote, item, dry, suspect, expected, changed>> /\ pc = "copy"
          /\ pc' \in {"failed", "stamp"} /\ item.path \in Paths /\ pc \in Syncing
        BY <1>0, <1>4 DEF RenamePart, server, walk, Fetching, Syncing, Walking
    <2>2. CASE pc' = "failed"
        BY <2>2 DEF AgreeInv, Syncing, Walking
    <2>3. CASE pc' = "stamp"
        <3>1. /\ unstamped' = unstamped \cup {item.path}
              /\ \E r \in Reads : local' = [local EXCEPT ![item.path] = Node("file", r.data, r.size, clock)]
            BY <1>4, <2>3 DEF RenamePart
        <3>2. PICK r \in Reads : local' = [local EXCEPT ![item.path] = Node("file", r.data, r.size, clock)]
            BY <3>1
        <3>3. /\ local'[item.path].kind = "file" /\ local'[item.path].data = r.data
              /\ \A q \in Paths : q # item.path => local'[q] = local[q]
            BY <1>0, <2>1, <3>2 DEF Node
        <3>4. item.path \notin changed => Agrees(item.path)'
            <4>1. SUFFICES ASSUME item.path \notin changed PROVE Agrees(item.path)'
                OBVIOUS
            <4>2. item.meta = remote[item.path] /\ item.meta.kind = "file"
                BY <2>1, <4>1 DEF ListedInv, Fetching
            <4>3. r.data = remote[item.path].data
                BY <2>1, <4>2, CopyIsOriginal
            <4> QED
                BY <2>1, <3>3, <4>2, <4>3 DEF Agrees
        <3>5. \A q \in expected : q # item.path => Agrees(q)' = Agrees(q)
            BY <1>0, <2>1, <3>3, AgreeSame
        <3> QED
            BY <2>1, <2>3, <3>1, <3>4, <3>5 DEF AgreeInv
    <2> QED
        BY <2>1, <2>2, <2>3
<1>5. CASE StampFile
    <2>1. /\ UNCHANGED <<remote, item, dry, suspect, expected, changed>> /\ pc = "stamp" /\ pc' = "walk"
          /\ item.path \in Paths /\ unstamped' = unstamped \ {item.path} /\ pc \in Syncing
          /\ local'[item.path] = [local[item.path] EXCEPT !.mtime = item.meta.mtime]
          /\ \A q \in Paths : q # item.path => local'[q] = local[q]
        BY <1>0, <1>5 DEF StampFile, server, walk, Fetching, Syncing, Walking
    <2>2. local'[item.path].kind = local[item.path].kind /\ local'[item.path].data = local[item.path].data
        BY <1>0, <2>1 DEF Nodes
    <2>3. \A q \in expected : Agrees(q)' = Agrees(q)
        BY <1>0, <2>1, <2>2, AgreeSame
    <2> QED
        BY <2>1, <2>3 DEF AgreeInv
<1>6. ASSUME NEW e \in todo[Len(todo)],
             SkipFiltered(e) \/ EnterDir(e) \/ MakeLink(e) \/ SkipFile(e) \/ OpenFile(e)
      PROVE  AgreeInv'
    <2>1. UNCHANGED <<remote, dry, suspect, unstamped, changed>> /\ pc = "walk" /\ TakeEntry(e)
        BY <1>6 DEF SkipFiltered, EnterDir, MakeLink, SkipFile, OpenFile, past, server, TakeEntry
    <2>2. SUFFICES ASSUME pc' \in Syncing, ~dry, suspect = {} PROVE AgreeInv'
        BY <2>1 DEF AgreeInv
    <2>3. unstamped = {} /\ e.path \in Paths /\ pc' # "failed"
          /\ \A p \in expected \ changed : Agrees(p)
        BY <2>1, <2>2, TakeEntryFacts DEF AgreeInv, Syncing, Walking
    <2>4. \A q \in Paths : q # e.path => local'[q] = local[q]
        BY <1>0, <1>6, <2>3 DEF SkipFiltered, EnterDir, MakeLink, SkipFile, OpenFile, tree
    <2>5. \A q \in expected : q # e.path => Agrees(q)' = Agrees(q)
        BY <1>0, <2>1, <2>4, AgreeSame
    <2>6. CASE SkipFiltered(e)
        <3>1. local' = local /\ expected' = expected
            BY <2>6 DEF SkipFiltered, tree
        <3> QED
            BY <2>1, <2>3, <3>1 DEF AgreeInv, Agrees
    <2>7. CASE EnterDir(e) \/ MakeLink(e) \/ SkipFile(e)
        <3>1. e.path \notin changed => Agrees(e.path)'
            BY <2>1, <2>2, <2>3, <2>7, TakenAgrees
        <3>2. expected' = expected \cup {e.path}
            BY <2>3, <2>7 DEF EnterDir, MakeLink, SkipFile
        <3> QED
            BY <2>1, <2>3, <2>5, <3>1, <3>2 DEF AgreeInv
    <2>8. CASE OpenFile(e)
        <3>1. expected' = expected \cup {e.path} /\ pc' = "copy" /\ item' = e
            BY <2>3, <2>8 DEF OpenFile
        <3> QED
            BY <2>1, <2>3, <2>5, <3>1 DEF AgreeInv
    <2> QED
        BY <1>6, <2>6, <2>7, <2>8
<1>7. ASSUME NEW p \in Paths, DeleteExtra(p)
      PROVE  AgreeInv'
    <2>1. UNCHANGED <<remote, dry, suspect, expected, unstamped, changed, pc>> /\ pc = "delete"
        BY <1>7 DEF DeleteExtra, server, past, walk
    <2>2. \A q \in expected : local'[q] = local[q]
        BY <1>0, <1>7 DEF DeleteExtra, Extra
    <2>3. \A q \in expected : Agrees(q)' = Agrees(q)
        BY <2>1, <2>2, AgreeSame
    <2> QED
        BY <2>1, <2>3 DEF AgreeInv
<1>8. CASE UNCHANGED vars
    BY <1>8 DEF vars, walk, tree, past, server, AgreeInv, Agrees
<1> QED
    BY <1>1, <1>2, <1>3, <1>4, <1>5, <1>6, <1>7, <1>8, ChangeTypes DEF Next

\* A sync that deletes is done when nothing is left to delete.
LEMMA EmptiedInvNext ==
    ASSUME TypeInv, EmptiedInv, [Next]_vars
    PROVE  EmptiedInv'
<1>1. ASSUME NEW p \in Paths, NEW node \in Nodes, Change(p, node)
      PROVE  EmptiedInv'
    BY <1>1 DEF Change, tree, walk, EmptiedInv, Extra
<1>2. CASE Begin \/ ListDir \/ LeaveDir \/ RenamePart \/ StampFile \/ Kill
    BY <1>2 DEF Begin, ListDir, LeaveDir, RenamePart, StampFile, Kill, EmptiedInv
<1>3. CASE EndDelete
    BY <1>3 DEF EndDelete, tree, walk, EmptiedInv, Extra
<1>4. ASSUME NEW e \in todo[Len(todo)],
             SkipFiltered(e) \/ EnterDir(e) \/ MakeLink(e) \/ SkipFile(e) \/ OpenFile(e)
      PROVE  EmptiedInv'
    BY <1>4 DEF SkipFiltered, EnterDir, MakeLink, SkipFile, OpenFile, TakeEntry, EmptiedInv
<1>5. ASSUME NEW p \in Paths, DeleteExtra(p)
      PROVE  EmptiedInv'
    BY <1>5 DEF DeleteExtra, EmptiedInv
<1>6. CASE UNCHANGED vars
    BY <1>6 DEF vars, tree, walk, EmptiedInv, Extra
<1> QED
    BY <1>1, <1>2, <1>3, <1>4, <1>5, <1>6, ChangeTypes DEF Next

\* The invariant of every sync, whatever it is asked to do.
SyncInv == /\ TypeInv /\ ServerInv /\ LocalInv /\ PastInv /\ WalkInv /\ ListedInv

LEMMA SyncInvInit == Init => SyncInv
<1>1. SUFFICES ASSUME Init PROVE SyncInv
    OBVIOUS
<1>2. \A p \in Paths : remote[p].kind = "none"
    BY <1>1, NodeTypes DEF Init
<1>3. ServerInv
    BY <1>2 DEF ServerInv, Exists
<1>4. PastInv /\ WalkInv /\ ListedInv
    BY <1>1 DEF Init, PastInv, WalkInv, ListedInv, Syncing, Walking
<1> QED
    BY <1>1, <1>3, <1>4, TypeInvInit, LocalInvInit DEF SyncInv

LEMMA SyncInvNext == SyncInv /\ [Next]_vars => SyncInv'
BY TypeInvNext, ServerInvNext, LocalInvNext, PastInvNext, WalkInvNext, ListedInvNext DEF SyncInv

\* Both trees, and what a sync keeps of them, have their types and stay trees, with
\* whatever is changed on the server, filtered or broken off in the middle (sync.rs).
THEOREM SyncTypes == Spec => []TypeOK
<1>1. SyncInv => TypeOK
    BY DEF SyncInv, TypeInv, LocalInv, Below, TypeOK, Walking, EntrySets
<1> QED
    BY <1>1, SyncInvInit, SyncInvNext, PTL DEF Spec

\* A file that the patterns let through is deleted only when the server lacked it at some
\* moment of the same sync (sync.rs:76, 159), in a tree of any depth.
THEOREM KeepsFiles == Spec => KeepsWhatIsThere
<1> DEFINE A == \A p \in Reached : Deleted(p) => p \in missing
<1>1. SyncInv /\ [Next]_vars => [A]_vars
    <2> SUFFICES ASSUME SyncInv, Next, NEW p \in Reached, Deleted(p) PROVE p \in missing
        BY DEF A
    <2>0. /\ local \in [Paths -> Nodes] /\ p \in Paths /\ TypeInv /\ PastInv /\ WalkInv
          /\ local[p].kind = "file" /\ local'[p].kind = "none"
        BY ReachedFacts, SpecAssumption DEF SyncInv, TypeInv, Deleted
    <2>1. local'[p] # local[p]
        BY <2>0
    <2>2. ASSUME NEW q \in Paths, NEW node \in Nodes, Change(q, node) PROVE FALSE
        BY <2>1, <2>2 DEF Change, tree
    <2>3. CASE Begin \/ ListDir \/ LeaveDir \/ EndDelete \/ Kill
        BY <2>1, <2>3 DEF Begin, ListDir, LeaveDir, EndDelete, Kill, tree
    <2>4. CASE RenamePart
        <3>1. \E r \in Reads : local' = [local EXCEPT ![item.path] = Node("file", r.data, r.size, clock)]
            BY <2>1, <2>4 DEF RenamePart, tree
        <3> QED
            BY <2>0, <2>1, <3>1 DEF Node
    <2>5. CASE StampFile
        <3>1. local' = [local EXCEPT ![item.path] = [local[item.path] EXCEPT !.mtime = item.meta.mtime]]
            BY <2>5 DEF StampFile
        <3>2. p = item.path /\ local'[p] = [local[p] EXCEPT !.mtime = item.meta.mtime]
            BY <2>0, <2>1, <3>1
        <3> QED
            BY <2>0, <3>2 DEF Nodes
    <2>6. ASSUME NEW e \in todo[Len(todo)],
                 SkipFiltered(e) \/ EnterDir(e) \/ MakeLink(e) \/ SkipFile(e) \/ OpenFile(e)
          PROVE  FALSE
        <3>1. Folder.kind = "dir" /\ Node("link", remote[e.path].data, 0, 0).kind = "link"
            BY DEF Folder, Node
        <3> QED
            BY <2>0, <2>1, <2>6, <3>1 DEF SkipFiltered, EnterDir, MakeLink, SkipFile, OpenFile, tree
    <2>7. ASSUME NEW q \in Paths, DeleteExtra(q) PROVE p \in missing
        <3>1. q = p /\ p \notin expected /\ pc = "delete"
            BY <2>0, <2>1, <2>7 DEF DeleteExtra, Extra
        <3> QED
            BY <2>0, <3>1, WalkAccounts
    <2> QED
        BY <2>2, <2>3, <2>4, <2>5, <2>6, <2>7, <2>0, ChangeTypes DEF Next
<1> QED
    BY <1>1, SyncInvInit, SyncInvNext, PTL DEF Spec, KeepsWhatIsThere

\* The invariant of the syncs that compare times: changes on the server are Gap apart.
AgreedInv == SyncInv /\ TimesInv /\ SameIfDatedSame /\ AgreeInv /\ EmptiedInv

LEMMA AgreedInvInit == Init => AgreedInv
<1>1. Init => AgreeInv /\ EmptiedInv
    BY DEF Init, AgreeInv, EmptiedInv, Syncing, Walking
<1> QED
    BY <1>1, SyncInvInit, TimesInvInit, SameIfDatedSameInit DEF AgreedInv

LEMMA AgreedInvNext ==
    ASSUME Gap >= 2, ~Follow, AgreedInv, [Next]_vars
    PROVE  AgreedInv'
<1>1. SyncInv' /\ TimesInv' /\ EmptiedInv'
    BY SyncInvNext, TimesInvNext, EmptiedInvNext DEF AgreedInv, SyncInv
<1>2. SameIfDatedSame'
    BY SameIfDatedSameNext, SizesAssumption DEF AgreedInv, SyncInv
<1>3. AgreeInv'
    BY AgreeInvNext DEF AgreedInv, SyncInv
<1> QED
    BY <1>1, <1>2, <1>3 DEF AgreedInv

\* After a sync that succeeds, what held still is the same on both sides, given that no two
\* changes on the server are less than two seconds apart (sync.rs:340) and that links are
\* made, not followed.
THEOREM SyncsUpToDate == Gap >= 2 /\ ~Follow /\ Spec => []UpToDate
<1> SUFFICES ASSUME Gap >= 2, ~Follow PROVE Spec => []UpToDate
    OBVIOUS
<1>1. AgreedInv => UpToDate
    <2> SUFFICES ASSUME AgreedInv, Synced, suspect = {}, NEW p \in Reached \ changed PROVE Agrees(p)
        BY DEF UpToDate
    <2>1. pc = "done" /\ ~dry /\ p \in Paths /\ pc \in Syncing
        BY ReachedFacts, SpecAssumption DEF Synced, Syncing
    <2>2. p \in missing \cup expected
        BY <2>1, WalkAccounts DEF AgreedInv, SyncInv
    <2>3. CASE p \in expected
        BY <2>1, <2>3 DEF AgreedInv, AgreeInv
    <2>4. CASE p \notin expected
        <3>1. remote[p].kind = "none"
            BY <2>1, <2>2, <2>4 DEF AgreedInv, SyncInv, PastInv, Exists
        <3>2. Delete => local[p].kind = "none"
            BY <2>1, <2>4 DEF AgreedInv, EmptiedInv, Extra
        <3> QED
            BY <3>1, <3>2 DEF Agrees
    <2> QED
        BY <2>3, <2>4
<1>2. AgreedInv /\ [Next]_vars => AgreedInv'
    BY AgreedInvNext
<1> QED
    BY <1>1, <1>2, AgreedInvInit, PTL DEF Spec

\* Whatever earlier syncs that broke off have left behind, a sync fails only when the server
\* changed meanwhile, or a directory stands where the other side has a file or a link
\* (sync.rs:176, 254); links being made, not followed.
THEOREM SyncsRecover == ~Follow /\ Spec => []UndisturbedSucceeds
<1> SUFFICES ASSUME ~Follow PROVE Spec => []UndisturbedSucceeds
    OBVIOUS
<1>1. Init => UndisturbedSucceeds
    BY DEF Init, UndisturbedSucceeds
<1>2. SyncInv /\ UndisturbedSucceeds /\ [Next]_vars => UndisturbedSucceeds'
    <2> SUFFICES ASSUME SyncInv, UndisturbedSucceeds, [Next]_vars, pc' = "failed", changed' = {}
                 PROVE  \E p \in Paths : Clash(p)'
        BY DEF UndisturbedSucceeds
    <2>0. local \in [Paths -> Nodes] /\ (Fetching => item.path \in Paths) /\ listing \in Paths \cup {Root}
        BY DEF SyncInv, TypeInv
    <2>1. ASSUME NEW p \in Paths, NEW node \in Nodes, Change(p, node) PROVE FALSE
        BY <2>1 DEF Change
    <2>2. CASE Begin \/ LeaveDir \/ StampFile \/ EndDelete \/ Kill
        BY <2>2 DEF Begin, LeaveDir, StampFile, EndDelete, Kill
    <2>3. CASE ListDir
        BY <2>0, <2>3 DEF ListDir, past, SyncInv, ListedInv, Syncing, Walking
    <2>4. CASE RenamePart
        <3>1. /\ local[item.path].kind = "dir" /\ UNCHANGED <<local, remote>> /\ pc = "copy" /\ changed = {}
            BY <2>4 DEF RenamePart, tree, server
        <3>2. item.path \in Paths /\ remote[item.path].kind = "file"
            BY <2>0, <3>1 DEF SyncInv, ListedInv, Fetching, Syncing, Walking
        <3> QED
            BY <3>1, <3>2 DEF Clash, Exists
    <2>5. ASSUME NEW e \in todo[Len(todo)],
                 SkipFiltered(e) \/ EnterDir(e) \/ MakeLink(e) \/ SkipFile(e) \/ OpenFile(e)
          PROVE  \E p \in Paths : Clash(p)'
        <3>1. TakeEntry(e) /\ UNCHANGED remote /\ changed = {}
            BY <2>5 DEF SkipFiltered, EnterDir, MakeLink, SkipFile, OpenFile, past, server
        <3>2. pc = "walk" /\ e \in Entries /\ e.path \in Paths
            BY <3>1, TakeEntryFacts DEF SyncInv
        <3>3. e.meta = remote[e.path]
            BY <3>1, <3>2 DEF SyncInv, ListedInv, Syncing, Walking
        <3>4. CASE EnterDir(e)
            BY <3>1, <3>2, <3>3, <3>4 DEF EnterDir, Clash, Exists
        <3>5. CASE SkipFiltered(e) \/ MakeLink(e) \/ SkipFile(e) \/ OpenFile(e)
            BY <3>1, <3>2, <3>3, <3>5 DEF SkipFiltered, MakeLink, SkipFile, OpenFile, IsFile, Content
        <3> QED
            BY <2>5, <3>4, <3>5
    <2>6. ASSUME NEW p \in Paths, DeleteExtra(p) PROVE FALSE
        BY <2>6 DEF DeleteExtra
    <2>7. CASE UNCHANGED vars
        BY <2>7 DEF vars, tree, server, past, UndisturbedSucceeds, Clash, Exists
    <2> QED
        BY <2>1, <2>2, <2>3, <2>4, <2>5, <2>6, <2>7, ChangeTypes DEF Next, SyncInv
<1> QED
    BY <1>1, <1>2, SyncInvInit, SyncInvNext, PTL DEF Spec
=====================================================================================
