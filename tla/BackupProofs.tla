-------------------------------- MODULE BackupProofs --------------------------------
(***********************************************************************************)
(* Theorems about BackupStore and BackupRestore for every number of runs, every        *)
(* `keep` and any clock, engine and machine.                                          *)
(*                                                                                   *)
(* TypeOK needs Progress (what a run has done by each control state) to be           *)
(* inductive.  The retention theorems need Exclusive: it ties every file under the   *)
(* root to the one run that owns the directory, and every victim of a pruning pass   *)
(* to `keep` published backups that are at least as new.  That the root does not grow  *)
(* without bound needs neither: a pass that gets to its end has removed, or seen        *)
(* removed, whatever it ranked beyond `keep`.                                         *)
(*                                                                                   *)
(* BackupRestore adds to BackupStore what reads it, so the store's invariants carry    *)
(* over.  What a restore has resolved is tied to them by Origins and Resolved: the     *)
(* types, that a restore implements LocalDatabase, and that only retention can leave   *)
(* it with an empty database.                                                        *)
(***********************************************************************************)
EXTENDS BackupRestore, FiniteSetTheorems, TLAPS

Early == {"idle", "fetch", "record"}

\* What a run has published by each control state, and what prune may know of it.
Progress ==
    /\ \A r \in Runs : pc[r] \in Early => created[r] = 0
    /\ \A r \in Runs : pc[r] \in {"write", "seal"} => created[r] # 0
    /\ \A r \in Runs : pc[r] \in Early \cup {"write", "seal"} => r \notin sealed
    /\ \A r \in Runs : victims[r] # {} => Keep > 0
    /\ \A r \in Runs : pc[r] \in {"list", "load", "prune", "unlink"} => Keep > 0
    /\ \A d \in Dirs : manifest[d] \in Runs => manifest[d] \in sealed

StoreInv == TypeOK /\ Progress

\* The directories of distinct runs are distinct, so what is in the directory of a run
\* is what that run put there, until a pruning pass that may take it takes it.
OwnDirs ==
    \A r, q \in Runs : dir[r] = dir[q] /\ dir[r] # None => r = q

\* A run under way finds in its directory what it has put there.
UnderWay ==
    /\ \A r \in Runs : pc[r] \in {"record", "write", "seal"} =>
            dir[r] \in present /\ (mode[r] = "full" => dump[dir[r]] = r)
    /\ \A r \in Runs : pc[r] \in {"write", "seal"} => recorded[r] = dump[dir[r]]
    /\ \A r \in Runs : pc[r] = "seal" => r \in holding

\* A published backup is as its run left it, or it is being removed.
Published ==
    /\ \A d \in Dirs : manifest[d] \in Runs => dir[manifest[d]] = d
    /\ \A r \in sealed : mode[r] = "full" => recorded[r] = r
    /\ \A r \in sealed : dump[dir[r]] \in {None, recorded[r]}

Outdated == \A r \in Runs : \A v \in victims[r] : Outranked(v)

NewestInPlace ==
    \A r \in sealed : ~Outranked(r) =>
        /\ dir[r] \in present
        /\ manifest[dir[r]] = r
        /\ dump[dir[r]] = recorded[r]

Exclusive == OwnDirs /\ UnderWay /\ Published /\ Outdated /\ NewestInPlace
-------------------------------------------------------------------------------------
(* Type correctness.                                                                 *)

LEMMA StoreInvInit == Init => StoreInv
<1> SUFFICES ASSUME Init PROVE StoreInv
    OBVIOUS
<1>1. 0 \in 0 .. Cardinality(Runs)
    BY RunsAssumption, FS_CardinalityType
<1> QED
    BY <1>1, MarksAssumption DEF Init, StoreInv, TypeOK, Progress, Early, Ended, Built

LEMMA StoreInvNext == StoreInv /\ [Next]_vars => StoreInv'
<1> SUFFICES ASSUME StoreInv, [Next]_vars PROVE StoreInv'
    OBVIOUS
<1> USE MarksAssumption DEF StoreInv, TypeOK, Progress, Early, Ended, Built, Goto,
        store, runState, scan
<1>1. ASSUME NEW r \in Runs, Start(r) PROVE StoreInv'
    BY <1>1 DEF Start
<1>2. ASSUME NEW r \in Runs, FetchDump(r) PROVE StoreInv'
    BY <1>2 DEF FetchDump
<1>3. ASSUME NEW r \in Runs, BuildManifest(r) PROVE StoreInv'
    BY <1>3 DEF BuildManifest
<1>4. ASSUME NEW r \in Runs, TruncateManifest(r) PROVE StoreInv'
    BY <1>4 DEF TruncateManifest
<1>5. ASSUME NEW r \in Runs, SealManifest(r) PROVE StoreInv'
    BY <1>5 DEF SealManifest, Prunes
<1>6. ASSUME NEW r \in Runs, ListRoot(r) PROVE StoreInv'
    BY <1>6 DEF ListRoot
<1>7. ASSUME NEW r \in Runs, LoadEntry(r) PROVE StoreInv'
    BY <1>7 DEF LoadEntry
<1>8. ASSUME NEW r \in Runs, RankEntries(r) PROVE StoreInv'
    BY <1>8 DEF RankEntries
<1>9. ASSUME NEW r \in Runs, BeginRemove(r) PROVE StoreInv'
    BY <1>9 DEF BeginRemove, NextVictims
<1>10. ASSUME NEW r \in Runs, FinishRemove(r) PROVE StoreInv'
    BY <1>10 DEF FinishRemove
<1>11. ASSUME NEW r \in Runs, RemoveMissing(r) PROVE StoreInv'
    BY <1>11 DEF RemoveMissing, NextVictims
<1>12. ASSUME NEW r \in Runs, EndPrune(r) PROVE StoreInv'
    BY <1>12 DEF EndPrune
<1>13. ASSUME NEW r \in Runs, Abort(r) PROVE StoreInv'
    BY <1>13 DEF Abort
<1>14. CASE UNCHANGED vars
    BY <1>14 DEF vars
<1> QED
    BY <1>1, <1>2, <1>3, <1>4, <1>5, <1>6, <1>7, <1>8, <1>9, <1>10, <1>11, <1>12, <1>13, <1>14 DEF Next

\* Every reachable state has the types that the module states: only a run between truncate
\* and write has a manifest open, and only what was published is removed (backup.rs:126, 205).
THEOREM TypeInvariant == Spec => []TypeOK
<1>1. StoreInv => TypeOK
    BY DEF StoreInv
<1> QED
    BY <1>1, StoreInvInit, StoreInvNext, PTL DEF Spec
-------------------------------------------------------------------------------------
(* Retention.                                                                        *)

\* A published backup that is outranked stays outranked: publishing only adds to the
\* backups that are as new, and a manifest never changes its creation time.
LEMMA OutrankedStays ==
    ASSUME StoreInv, NEW v \in sealed, Outranked(v),
           sealed \subseteq sealed', sealed' \subseteq Runs,
           \A q \in sealed : created'[q] = created[q]
    PROVE  Outranked(v)'
<1> DEFINE AsNew == {q \in sealed \ {v} : created[q] >= created[v]}
<1>1. AsNew \subseteq AsNew' /\ AsNew' \subseteq Runs
    OBVIOUS
<1>2. IsFiniteSet(AsNew')
    BY <1>1, RunsAssumption, FS_Subset
<1>3. Cardinality(AsNew) <= Cardinality(AsNew')
    BY <1>1, <1>2, FS_Subset
<1>4. IsFiniteSet(AsNew)
    BY <1>1, <1>2, FS_Subset
<1>5. Cardinality(AsNew) \in Nat /\ Cardinality(AsNew') \in Nat
    BY <1>2, <1>4, FS_CardinalityType
<1> QED
    BY <1>3, <1>5, KeepAssumption DEF Outranked

\* What RankEntries lets go is outranked by what it keeps.
LEMMA VictimsAreOutranked ==
    ASSUME StoreInv, NEW r \in Runs, RankEntries(r), NEW v \in victims'[r]
    PROVE  v \in sealed /\ Outranked(v)
<1> USE DEF StoreInv, TypeOK
<1>1. PICK kept \in SUBSET entries[r] :
        /\ \/ Cardinality(kept) = Keep
           \/ kept = entries[r] /\ Cardinality(kept) < Keep
        /\ \A k \in kept, e \in entries[r] \ kept : created[k] >= created[e]
        /\ victims' = [victims EXCEPT ![r] = entries[r] \ kept]
    BY DEF RankEntries
<1>2. v \in entries[r] \ kept /\ Cardinality(kept) = Keep
    BY <1>1
<1> DEFINE AsNew == {q \in sealed \ {v} : created[q] >= created[v]}
<1>3. kept \subseteq AsNew /\ AsNew \subseteq Runs
    BY <1>1, <1>2 DEF Built
<1>4. IsFiniteSet(AsNew)
    BY <1>3, RunsAssumption, FS_Subset
<1>5. Cardinality(kept) <= Cardinality(AsNew) /\ Cardinality(AsNew) \in Nat
    BY <1>3, <1>4, FS_Subset, FS_CardinalityType
<1> QED
    BY <1>2, <1>5, KeepAssumption DEF Outranked

\* Only SealManifest publishes, and only BuildManifest of an unpublished run sets a
\* creation time.
LEMMA SealedGrows ==
    ASSUME StoreInv, [Next]_vars
    PROVE  sealed \subseteq sealed' /\ \A q \in sealed : created'[q] = created[q]
<1> USE DEF StoreInv, TypeOK, Built, Progress, Early, runState
<1>1. ASSUME NEW r \in Runs, BuildManifest(r)
      PROVE  sealed \subseteq sealed' /\ \A q \in sealed : created'[q] = created[q]
    BY <1>1 DEF BuildManifest
<1>2. ASSUME NEW r \in Runs, SealManifest(r)
      PROVE  sealed \subseteq sealed' /\ \A q \in sealed : created'[q] = created[q]
    BY <1>2 DEF SealManifest
<1>3. CASE UNCHANGED <<created, sealed>>
    BY <1>3
<1>4. ASSUME NEW r \in Runs,
             \/ Start(r) \/ FetchDump(r) \/ TruncateManifest(r) \/ ListRoot(r)
             \/ LoadEntry(r) \/ RankEntries(r) \/ BeginRemove(r) \/ FinishRemove(r)
             \/ RemoveMissing(r) \/ EndPrune(r) \/ Abort(r)
      PROVE  UNCHANGED <<created, sealed>>
    BY <1>4 DEF Start, FetchDump, TruncateManifest, ListRoot, LoadEntry, RankEntries,
                BeginRemove, FinishRemove, RemoveMissing, EndPrune, Abort
<1> QED
    BY <1>1, <1>2, <1>3, <1>4 DEF Next, vars

LEMMA ExclusiveInit == Init => Exclusive
    BY MarksAssumption DEF Init, Exclusive, OwnDirs, UnderWay, Published, Outdated, NewestInPlace

LEMMA ExclusiveNext ==
    ASSUME ~SharedDirs, StoreInv, StoreInv', Exclusive, [Next]_vars
    PROVE  Exclusive'
<1>0. \A v \in sealed : Outranked(v) => Outranked(v)'
    <2> SUFFICES ASSUME NEW v \in sealed, Outranked(v) PROVE Outranked(v)'
        OBVIOUS
    <2>1. sealed \subseteq sealed' /\ \A q \in sealed : created'[q] = created[q]
        BY SealedGrows
    <2>2. sealed' \subseteq Runs
        BY DEF StoreInv, TypeOK, Built
    <2> QED
        BY <2>1, <2>2, OutrankedStays
<1> USE MarksAssumption DEF StoreInv, TypeOK, Progress, Early, Ended, Built, Goto,
        store, runState, scan, Exclusive, OwnDirs, UnderWay, Published, Outdated, NewestInPlace
<1>1. ASSUME NEW r \in Runs, Start(r) PROVE Exclusive'
    BY <1>0, <1>1 DEF Start, UsedDirs
<1>2. ASSUME NEW r \in Runs, FetchDump(r) PROVE Exclusive'
    BY <1>0, <1>2 DEF FetchDump
<1>3. ASSUME NEW r \in Runs, BuildManifest(r) PROVE Exclusive'
    BY <1>0, <1>3 DEF BuildManifest
<1>4. ASSUME NEW r \in Runs, TruncateManifest(r) PROVE Exclusive'
    BY <1>0, <1>4 DEF TruncateManifest
<1>5. ASSUME NEW r \in Runs, SealManifest(r) PROVE Exclusive'
    <2>1. /\ manifest' = [manifest EXCEPT ![dir[r]] = r]
          /\ sealed' = sealed \cup {r}
          /\ holding' = holding \ {r}
          /\ UNCHANGED <<present, dump, mode, dir, recorded, victims>>
        BY <1>5 DEF SealManifest
    <2>2. \A q \in Runs : pc'[q] \in {"record", "write", "seal"} => pc'[q] = pc[q] /\ q # r
        BY <1>5 DEF SealManifest
    <2>3. /\ dir[r] \in present /\ recorded[r] = dump[dir[r]]
          /\ mode[r] = "full" => recorded[r] = r
        BY <1>5 DEF SealManifest
    <2>4. OwnDirs'
        BY <2>1
    <2>5. UnderWay'
        BY <2>1, <2>2
    <2>6. Published'
        BY <2>1, <2>3
    <2>7. Outdated'
        BY <1>0, <2>1
    <2>8. NewestInPlace'
        BY <1>0, <2>1, <2>3
    <2> QED
        BY <2>4, <2>5, <2>6, <2>7, <2>8
<1>6. ASSUME NEW r \in Runs, ListRoot(r) PROVE Exclusive'
    BY <1>0, <1>6 DEF ListRoot
<1>7. ASSUME NEW r \in Runs, LoadEntry(r) PROVE Exclusive'
    BY <1>0, <1>7 DEF LoadEntry
<1>8. ASSUME NEW r \in Runs, RankEntries(r) PROVE Exclusive'
    <2>1. \A v \in victims'[r] : Outranked(v)
        BY <1>8, VictimsAreOutranked
    <2> QED
        BY <1>0, <1>8, <2>1 DEF RankEntries
<1>9. ASSUME NEW r \in Runs, BeginRemove(r) PROVE Exclusive'
    <2>1. PICK v \in victims[r] :
            /\ dump' \in {dump, [dump EXCEPT ![dir[v]] = None]}
            /\ manifest' \in {manifest, [manifest EXCEPT ![dir[v]] = None]}
            /\ manifest' = manifest \/ holding' = {h \in holding : dir[h] # dir[v]}
            /\ manifest' = manifest => holding' = holding
        BY <1>9 DEF BeginRemove, NextVictims
    <2>2. /\ UNCHANGED <<present, mode, dir, recorded, victims, sealed>>
          /\ \A q \in Runs : pc'[q] \in {"record", "write", "seal"} => pc'[q] = pc[q]
        BY <1>9 DEF BeginRemove
    <2>3. v \in sealed /\ Outranked(v)'
        BY <1>0, <2>1
    <2>4. \A q \in Runs : dir[q] = dir[v] => q = v
        BY <2>3
    <2>5. OwnDirs'
        BY <2>2
    <2>6. UnderWay'
        <3>1. ASSUME NEW q \in Runs, pc'[q] \in {"record", "write", "seal"}
              PROVE  /\ pc[q] = pc'[q] /\ dir[q] \in Dirs /\ dir[q] # dir[v]
                     /\ dump'[dir[q]] = dump[dir[q]]
                     /\ q \in holding => q \in holding'
            <4>1. pc[q] = pc'[q] /\ q # v
                BY <2>2, <2>3, <3>1
            <4>2. dir[q] \in Dirs /\ dir[q] # dir[v]
                BY <2>4, <3>1, <4>1
            <4> QED
                BY <2>1, <4>1, <4>2
        <3> QED
            BY <2>2, <3>1
    <2>7. Published'
        <3>1. \A d \in Dirs : manifest'[d] \in {None, manifest[d]}
                             /\ dump'[d] \in {None, dump[d]}
            BY <2>1
        <3>2. \A q \in sealed : dir[q] \in Dirs
            OBVIOUS
        <3> QED
            BY <2>2, <3>1, <3>2
    <2>8. Outdated'
        BY <1>0, <2>2
    <2>9. NewestInPlace'
        BY <1>0, <2>1, <2>2, <2>3, <2>4
    <2> QED
        BY <2>5, <2>6, <2>7, <2>8, <2>9
<1>10. ASSUME NEW r \in Runs, FinishRemove(r) PROVE Exclusive'
    BY <1>0, <1>10 DEF FinishRemove
<1>11. ASSUME NEW r \in Runs, RemoveMissing(r) PROVE Exclusive'
    BY <1>0, <1>11 DEF RemoveMissing, NextVictims
<1>12. ASSUME NEW r \in Runs, EndPrune(r) PROVE Exclusive'
    BY <1>0, <1>12 DEF EndPrune
<1>13. ASSUME NEW r \in Runs, Abort(r) PROVE Exclusive'
    BY <1>0, <1>13 DEF Abort
<1>14. CASE UNCHANGED vars
    BY <1>0, <1>14 DEF vars
<1> QED
    BY <1>1, <1>2, <1>3, <1>4, <1>5, <1>6, <1>7, <1>8, <1>9, <1>10, <1>11, <1>12, <1>13, <1>14 DEF Next

\* With a directory for every run, the `keep` newest published backups are in place
\* and, if they took a dump, restorable, whatever else goes on in the root.
THEOREM Retention ==
    ASSUME ~SharedDirs
    PROVE  Spec => []NewestAreRestorable
<1>1. ASSUME StoreInv, Exclusive PROVE NewestAreRestorable
    BY <1>1, MarksAssumption DEF StoreInv, TypeOK, Built, Exclusive, Published,
        NewestInPlace, NewestAreRestorable, Verifies
<1>2. StoreInv /\ StoreInv' /\ Exclusive /\ [Next]_vars => Exclusive'
    BY ExclusiveNext
<1> QED
    BY <1>1, <1>2, StoreInvInit, StoreInvNext, ExclusiveInit, PTL DEF Spec
-------------------------------------------------------------------------------------
(* The bound on what retention leaves.                                               *)

\* A file is in a directory that exists, and so is an open manifest.
InPlace ==
    /\ \A d \in Dirs : manifest[d] # None => d \in present
    /\ \A r \in holding : dir[r] \in present

\* Backups in place whose run has listed the root and has not failed.
Listed == {r \in Stored : Prunes(r) /\ pc[r] \in {"load", "prune", "unlink", "done"}}

\* Run r has read the manifest of q, or is about to.
Knows(r, q) == q \in entries[r] \/ (pc[r] = "load" /\ dir[q] \in unread[r])

\* Among any such runs, the one that has listed the root last knows all of them.  That
\* one may fail, or its backup may be pruned by another: the invariant speaks of every
\* set of runs, so that one is left then that knows the rest.
LastKnowsAll == \A S \in SUBSET Listed : S # {} => \E r \in S : \A q \in S : Knows(r, q)

\* Of the backups that a run has read, it leaves `keep` in place.
KeptBound ==
    /\ \A r \in Runs : pc[r] \notin {"prune", "unlink", "failed"} => victims[r] = {}
    /\ \A r \in Runs :
        pc[r] \in {"prune", "unlink"} \/ (pc[r] = "done" /\ Prunes(r)) =>
            Cardinality((entries[r] \ victims[r]) \cap Stored) <= Keep

BoundInv == InPlace /\ LastKnowsAll /\ KeptBound

LEMMA BoundInvInit == Init => BoundInv
    BY MarksAssumption DEF Init, BoundInv, InPlace, LastKnowsAll, KeptBound, Listed, Stored

LEMMA InPlaceNext ==
    ASSUME StoreInv, InPlace, [Next]_vars PROVE InPlace'
<1> USE MarksAssumption DEF StoreInv, TypeOK, InPlace, store, runState, Goto
<1>1. ASSUME NEW r \in Runs, Start(r) PROVE InPlace'
    BY <1>1 DEF Start
<1>2. ASSUME NEW r \in Runs, FetchDump(r) PROVE InPlace'
    BY <1>2 DEF FetchDump
<1>3. ASSUME NEW r \in Runs, TruncateManifest(r) PROVE InPlace'
    BY <1>3 DEF TruncateManifest
<1>4. ASSUME NEW r \in Runs, SealManifest(r) PROVE InPlace'
    BY <1>4 DEF SealManifest
<1>5. ASSUME NEW r \in Runs, BeginRemove(r) PROVE InPlace'
    BY <1>5 DEF BeginRemove, NextVictims
<1>6. ASSUME NEW r \in Runs, FinishRemove(r) PROVE InPlace'
    BY <1>6 DEF FinishRemove
<1>7. ASSUME NEW r \in Runs,
             \/ BuildManifest(r) \/ ListRoot(r) \/ LoadEntry(r) \/ RankEntries(r)
             \/ RemoveMissing(r) \/ EndPrune(r) \/ Abort(r)
      PROVE  InPlace'
    BY <1>7 DEF BuildManifest, ListRoot, LoadEntry, RankEntries, RemoveMissing, EndPrune, Abort
<1> QED
    BY <1>1, <1>2, <1>3, <1>4, <1>5, <1>6, <1>7 DEF Next, vars

\* Only the run that completes its manifest adds a backup to the root, and it is new to
\* every other run.
LEMMA StoredShrinks ==
    ASSUME StoreInv, [Next]_vars
    PROVE  /\ \A r \in Runs : SealManifest(r) =>
                r \notin sealed /\ Stored' \subseteq Stored \cup {r}
           /\ (\A r \in Runs : ~SealManifest(r)) => Stored' \subseteq Stored
           /\ \A q \in sealed : dir'[q] = dir[q]
<1> USE MarksAssumption DEF StoreInv, TypeOK, Progress, Early, Built, Stored, store, runState
<1>1. ASSUME NEW r \in Runs, SealManifest(r)
      PROVE  r \notin sealed /\ Stored' \subseteq Stored \cup {r} /\ dir' = dir
    BY <1>1 DEF SealManifest
<1>2. ASSUME NEW r \in Runs, Start(r)
      PROVE  Stored' \subseteq Stored /\ \A q \in sealed : dir'[q] = dir[q]
    BY <1>2 DEF Start
<1>3. ASSUME NEW r \in Runs, TruncateManifest(r)
      PROVE  Stored' \subseteq Stored /\ \A q \in sealed : dir'[q] = dir[q]
    BY <1>3 DEF TruncateManifest
<1>4. ASSUME NEW r \in Runs, BeginRemove(r)
      PROVE  Stored' \subseteq Stored /\ \A q \in sealed : dir'[q] = dir[q]
    BY <1>4 DEF BeginRemove, NextVictims
<1>5. ASSUME NEW r \in Runs, FinishRemove(r)
      PROVE  Stored' \subseteq Stored /\ \A q \in sealed : dir'[q] = dir[q]
    BY <1>5 DEF FinishRemove
<1>6. ASSUME NEW r \in Runs,
             \/ FetchDump(r) \/ BuildManifest(r) \/ ListRoot(r) \/ LoadEntry(r)
             \/ RankEntries(r) \/ RemoveMissing(r) \/ EndPrune(r) \/ Abort(r)
      PROVE  UNCHANGED <<manifest, dir, sealed>>
    BY <1>6 DEF FetchDump, BuildManifest, ListRoot, LoadEntry, RankEntries, RemoveMissing,
                EndPrune, Abort
<1>7. CASE UNCHANGED vars
    BY <1>7 DEF vars, SealManifest, Goto
<1> HIDE DEF StoreInv, TypeOK, Progress, Stored
<1>8. (\A r \in Runs : ~SealManifest(r)) =>
        Stored' \subseteq Stored /\ \A q \in sealed : dir'[q] = dir[q]
    BY <1>2, <1>3, <1>4, <1>5, <1>6, <1>7 DEF Next, Stored, vars
<1> QED
    BY <1>1, <1>8

\* What one step does to who is listed and who knows whom.
LEMMA ListedSteps ==
    ASSUME StoreInv, InPlace, [Next]_vars
    PROVE  /\ \A r \in Runs : ListRoot(r) =>
                Listed' \subseteq Listed \cup {r} /\ \A q \in Listed' : Knows(r, q)'
           /\ (\A r \in Runs : ~ListRoot(r)) => Listed' \subseteq Listed
           /\ \A r, q \in Listed \cap Listed' : Knows(r, q) => Knows(r, q)'
<1> USE MarksAssumption DEF StoreInv, TypeOK, Progress, Early, Built, Goto
<1>1. /\ \A r \in Runs : SealManifest(r) => r \notin sealed /\ Stored' \subseteq Stored \cup {r}
      /\ (\A r \in Runs : ~SealManifest(r)) => Stored' \subseteq Stored
      /\ \A q \in sealed : dir'[q] = dir[q]
    BY StoredShrinks
<1>2. Stored \subseteq sealed /\ sealed \subseteq Runs
    BY DEF Stored
<1> DEFINE Fewer == Listed' \subseteq Listed
           Remembers == \A r, q \in Listed \cap Listed' : Knows(r, q) => Knows(r, q)'
<1>3. ASSUME NEW r \in Runs, SealManifest(r) PROVE Fewer /\ Remembers
    <2>1. /\ UNCHANGED <<unread, entries, dir>> /\ r \notin sealed /\ Stored' \subseteq Stored \cup {r}
          /\ pc' = [pc EXCEPT ![r] = IF Prunes(r) THEN "list" ELSE "done"]
        BY <1>1, <1>3 DEF SealManifest, scan, runState
    <2> QED
        BY <1>2, <2>1 DEF Listed, Knows, Prunes
<1>4. ASSUME NEW r \in Runs, ListRoot(r)
      PROVE  /\ Listed' \subseteq Listed \cup {r} /\ \A q \in Listed' : Knows(r, q)'
             /\ Remembers
    <2>1. /\ pc' = [pc EXCEPT ![r] = "load"] /\ unread' = [unread EXCEPT ![r] = present]
          /\ pc[r] = "list"
          /\ UNCHANGED <<present, manifest, dir, sealed, entries>>
        BY <1>4 DEF ListRoot, store, runState
    <2>2. \A q \in Stored : dir[q] \in present
        BY DEF Stored, InPlace
    <2>3. Stored' = Stored
        BY <2>1 DEF Stored
    <2> QED
        BY <1>2, <2>1, <2>2, <2>3 DEF Listed, Knows, Prunes
<1>5. ASSUME NEW r \in Runs, LoadEntry(r) PROVE Fewer /\ Remembers
    <2>1. PICK d \in unread[r] :
            /\ unread' = [unread EXCEPT ![r] = @ \ {d}]
            /\ entries' = [entries EXCEPT ![r] =
                    IF d \in present THEN @ \cup ({manifest[d]} \cap Runs) ELSE @]
        BY <1>5 DEF LoadEntry
    <2>2. UNCHANGED <<present, manifest, dir, sealed, pc>>
        BY <1>5 DEF LoadEntry, store, runState
    <2>3. Listed' = Listed
        BY <2>2 DEF Listed, Stored, Prunes
    <2>4. ASSUME NEW q \in Listed, Knows(r, q) PROVE Knows(r, q)'
        <3>1. dir[q] \in present /\ manifest[dir[q]] = q
            BY DEF Listed, Stored, InPlace
        <3> QED
            BY <1>2, <2>1, <2>2, <2>4, <3>1 DEF Knows, Listed
    <2>5. ASSUME NEW p \in Listed, NEW q \in Listed, p # r, Knows(p, q) PROVE Knows(p, q)'
        BY <2>1, <2>2, <2>5 DEF Knows
    <2> QED
        BY <2>3, <2>4, <2>5
<1>6. ASSUME NEW r \in Runs, RankEntries(r) PROVE Fewer /\ Remembers
    BY <1>1, <1>2, <1>6 DEF RankEntries, SealManifest, Listed, Knows, Prunes, runState
<1>7. ASSUME NEW r \in Runs,
             \/ Start(r) \/ FetchDump(r) \/ BuildManifest(r) \/ TruncateManifest(r)
             \/ BeginRemove(r) \/ FinishRemove(r) \/ RemoveMissing(r) \/ EndPrune(r) \/ Abort(r)
      PROVE  Fewer /\ Remembers
    <2>1. /\ UNCHANGED <<unread, entries, sealed>>
          /\ \A q \in Runs \ {r} : pc'[q] = pc[q]
          /\ pc'[r] \in {"prune", "unlink", "done"} => pc[r] \in {"prune", "unlink"}
          /\ pc'[r] # "load"
        BY <1>7 DEF Start, FetchDump, BuildManifest, TruncateManifest, BeginRemove, FinishRemove,
                    RemoveMissing, EndPrune, Abort, scan
    <2>2. \A q \in Runs : ~SealManifest(q)
        BY <1>7 DEF Start, FetchDump, BuildManifest, TruncateManifest, BeginRemove, FinishRemove,
                    RemoveMissing, EndPrune, Abort, SealManifest, Ended
    <2> QED
        BY <1>1, <1>2, <2>1, <2>2 DEF Listed, Knows, Prunes
<1>8. CASE UNCHANGED vars
    BY <1>8 DEF vars, store, runState, scan, Listed, Stored, Knows, Prunes, ListRoot
<1> HIDE DEF StoreInv, TypeOK, Progress
<1> QED
    BY <1>3, <1>4, <1>5, <1>6, <1>7, <1>8 DEF Next

LEMMA LastKnowsAllNext ==
    ASSUME StoreInv, InPlace, LastKnowsAll, [Next]_vars
    PROVE  LastKnowsAll'
<1> SUFFICES ASSUME NEW S \in SUBSET Listed', S # {}
             PROVE  \E r \in S : \A q \in S : Knows(r, q)'
    BY DEF LastKnowsAll
<1>1. CASE \E r \in S : ListRoot(r)
    BY <1>1, ListedSteps DEF Listed, Stored, StoreInv, TypeOK, Built
<1>2. CASE S \subseteq Listed
    BY <1>2, ListedSteps DEF LastKnowsAll
<1> QED
    BY <1>1, <1>2, ListedSteps

LEMMA SmallerSet ==
    ASSUME NEW S, NEW T, S \subseteq T, IsFiniteSet(T)
    PROVE  Cardinality(S) \in Nat /\ Cardinality(T) \in Nat /\ Cardinality(S) <= Cardinality(T)
    BY FS_Subset, FS_CardinalityType

LEMMA KeptBoundNext ==
    ASSUME StoreInv, KeptBound, [Next]_vars
    PROVE  KeptBound'
<1> USE MarksAssumption, KeepAssumption DEF StoreInv, TypeOK, Progress, Early, Built, Goto, Ended
<1> DEFINE Kept(r) == (entries[r] \ victims[r]) \cap Stored
           Pruning(r) == pc[r] \in {"prune", "unlink"} \/ (pc[r] = "done" /\ Prunes(r))
           Empty == \A r \in Runs : pc[r] \notin {"prune", "unlink", "failed"} => victims[r] = {}
           Small(r) == Pruning(r) => Cardinality(Kept(r)) <= Keep
<1>1. /\ \A r \in Runs : SealManifest(r) => r \notin sealed /\ Stored' \subseteq Stored \cup {r}
      /\ (\A r \in Runs : ~SealManifest(r)) => Stored' \subseteq Stored
      /\ \A q \in sealed : dir'[q] = dir[q]
    BY StoredShrinks
<1>2. Empty /\ \A r \in Runs : Small(r)
    BY DEF KeptBound
<1>3. ASSUME NEW r \in Runs, Pruning(r), Kept(r)' \subseteq Kept(r)
      PROVE  Cardinality(Kept(r)') <= Keep
    <2>0. Kept(r) \subseteq Runs
        BY DEF Stored
    <2>1. IsFiniteSet(Kept(r))
        BY <2>0, RunsAssumption, FS_Subset
    <2>2. Cardinality(Kept(r)) <= Keep
        BY <1>2, <1>3
    <2> HIDE DEF Kept
    <2>3. /\ Cardinality(Kept(r)') \in Nat /\ Cardinality(Kept(r)) \in Nat
          /\ Cardinality(Kept(r)') <= Cardinality(Kept(r))
        BY ONLY <1>3, <2>1, SmallerSet, Zenon
    <2> QED
        BY <2>2, <2>3
<1> HIDE DEF Kept
<1>4. ASSUME NEW r \in Runs, RankEntries(r) PROVE Empty' /\ \A q \in Runs : Small(q)'
    <2>1. PICK kept \in SUBSET entries[r] :
            /\ \/ Cardinality(kept) = Keep
               \/ kept = entries[r] /\ Cardinality(kept) < Keep
            /\ victims' = [victims EXCEPT ![r] = entries[r] \ kept]
        BY <1>4 DEF RankEntries
    <2>2. /\ pc' = [pc EXCEPT ![r] = "prune"]
          /\ UNCHANGED <<manifest, dir, sealed, entries>>
        BY <1>4 DEF RankEntries, store, runState
    <2>3. Empty'
        BY <1>2, <2>1, <2>2
    <2>4. Small(r)'
        <3>0. kept \subseteq Runs
            BY <2>1
        <3>1. Kept(r)' \subseteq kept /\ IsFiniteSet(kept)
            BY <2>1, <2>2, <3>0, RunsAssumption, FS_Subset DEF Kept
        <3>2. Cardinality(kept) <= Keep
            BY <2>1, <3>1, FS_CardinalityType
        <3>3. /\ Cardinality(Kept(r)') \in Nat /\ Cardinality(kept) \in Nat
              /\ Cardinality(Kept(r)') <= Cardinality(kept)
            BY ONLY <3>1, SmallerSet, Zenon
        <3>4. Cardinality(Kept(r)') <= Keep
            BY <3>2, <3>3
        <3> QED
            BY <3>4
    <2>5. ASSUME NEW q \in Runs, q # r PROVE Small(q)'
        <3>1. Kept(q)' = Kept(q)
            BY <2>1, <2>2, <2>5 DEF Kept, Stored
        <3>2. Pruning(q)' <=> Pruning(q)
            BY <2>2, <2>5 DEF Prunes
        <3> QED
            BY <1>2, <3>1, <3>2
    <2> QED
        BY <2>3, <2>4, <2>5
<1>5. ASSUME NEW r \in Runs, FinishRemove(r) PROVE Empty' /\ \A q \in Runs : Small(q)'
    <2>1. /\ target[r] \in victims[r] /\ target[r] \in Runs
          /\ pc[r] = "unlink" /\ pc' = [pc EXCEPT ![r] = "prune"]
          /\ victims' = [victims EXCEPT ![r] = @ \ {target[r]}]
          /\ manifest' = [manifest EXCEPT ![dir[target[r]]] = None]
          /\ UNCHANGED <<dir, sealed, entries>>
        BY <1>5 DEF FinishRemove, runState
    <2>2. Stored' \subseteq Stored \ {target[r]}
        BY <2>1 DEF Stored
    <2>3. ASSUME NEW q \in Runs PROVE Small(q)'
        <3>1. Kept(q)' \subseteq Kept(q)
            BY <2>1, <2>2 DEF Kept
        <3>2. Pruning(q)' => Pruning(q)
            BY <2>1 DEF Prunes
        <3> QED
            BY <1>3, <3>1, <3>2
    <2> QED
        BY <1>2, <2>1, <2>3
<1>6. ASSUME NEW r \in Runs, SealManifest(r) PROVE Empty' /\ \A q \in Runs : Small(q)'
    <2>1. /\ pc[r] = "seal" /\ pc' = [pc EXCEPT ![r] = IF Prunes(r) THEN "list" ELSE "done"]
          /\ r \notin sealed /\ Stored' \subseteq Stored \cup {r}
          /\ UNCHANGED <<dir, entries, victims>>
        BY <1>1, <1>6 DEF SealManifest, scan, runState
    <2>2. ASSUME NEW q \in Runs PROVE Small(q)'
        <3>1. Kept(q)' \subseteq Kept(q)
            BY <2>1 DEF Kept
        <3>2. Pruning(q)' => Pruning(q)
            BY <2>1 DEF Prunes
        <3> QED
            BY <1>3, <3>1, <3>2
    <2> QED
        BY <1>2, <2>1, <2>2
<1>7. ASSUME NEW r \in Runs,
             \/ Start(r) \/ FetchDump(r) \/ BuildManifest(r) \/ TruncateManifest(r)
             \/ ListRoot(r) \/ LoadEntry(r)
             \/ BeginRemove(r) \/ RemoveMissing(r) \/ EndPrune(r) \/ Abort(r)
      PROVE  Empty' /\ \A q \in Runs : Small(q)'
    <2>1. /\ victims' = victims
          /\ \A q \in Runs \ {r} : pc'[q] = pc[q] /\ entries'[q] = entries[q]
          /\ pc'[r] \in {"prune", "unlink", "done"} =>
                pc[r] \in {"prune", "unlink"} /\ entries'[r] = entries[r]
          /\ pc'[r] = "done" => victims[r] = {}
          /\ pc'[r] \in {"prune", "unlink", "failed", "done"} \/
                pc[r] \notin {"prune", "unlink", "failed"}
        BY <1>7 DEF Start, FetchDump, BuildManifest, TruncateManifest, ListRoot, LoadEntry,
                    BeginRemove, RemoveMissing, EndPrune, Abort, scan
    <2>2. Stored' \subseteq Stored
        BY <1>1, <1>7 DEF Start, FetchDump, BuildManifest, TruncateManifest, ListRoot, LoadEntry,
                    BeginRemove, RemoveMissing, EndPrune, Abort, SealManifest
    <2>3. \A q \in Runs : pc[q] = "done" => dir'[q] = dir[q]
        BY <1>7 DEF Start, FetchDump, BuildManifest, TruncateManifest, ListRoot, LoadEntry,
                    BeginRemove, RemoveMissing, EndPrune, Abort, runState
    <2>4. ASSUME NEW q \in Runs, Pruning(q)' PROVE Small(q)'
        <3>1. Pruning(q) /\ entries'[q] = entries[q]
            BY <2>1, <2>3, <2>4 DEF Prunes
        <3>2. Kept(q)' \subseteq Kept(q)
            BY <2>1, <2>2, <3>1 DEF Kept
        <3> QED
            BY <1>3, <3>1, <3>2
    <2> QED
        BY <1>2, <2>1, <2>4
<1>8. ASSUME UNCHANGED vars PROVE Empty' /\ \A q \in Runs : Small(q)'
    BY <1>2, <1>8 DEF vars, store, runState, scan, Stored, Prunes, Kept
<1> HIDE DEF StoreInv, TypeOK, Progress, Small
<1>9. Empty' /\ \A q \in Runs : Small(q)'
    BY <1>4, <1>5, <1>6, <1>7, <1>8 DEF Next
<1> QED
    BY <1>9 DEF KeptBound, Small, Kept

\* Whatever runs fail, overlap or share a directory, retention leaves in the root `keep`
\* backups and those whose run has not got to the end of its own pruning.
THEOREM RetentionIsBounded == Spec => []RetentionBound
<1>1. ASSUME StoreInv, LastKnowsAll, KeptBound PROVE RetentionBound
    <2> SUFFICES ASSUME Keep > 0
                 PROVE  Cardinality(Stored) <=
                            Keep + Cardinality({r \in sealed : pc[r] # "done" \/ ~Prunes(r)})
        BY DEF RetentionBound
    <2> DEFINE Short == {r \in sealed : pc[r] # "done" \/ ~Prunes(r)}
               Full == {r \in Stored : pc[r] = "done" /\ Prunes(r)}
    <2>1. Stored \subseteq Full \cup Short /\ Stored \subseteq Runs /\ Full \subseteq Runs /\ Short \subseteq Runs
        BY <1>1 DEF Stored, StoreInv, TypeOK, Built
    <2>2. IsFiniteSet(Stored) /\ IsFiniteSet(Full) /\ IsFiniteSet(Short)
        BY <2>1, RunsAssumption, FS_Subset
    <2>3. Cardinality(Full) <= Keep
        <3>1. CASE Full = {}
            BY <3>1, FS_EmptySet, KeepAssumption
        <3>2. CASE Full # {}
            <4>1. PICK r \in Full : \A q \in Full : Knows(r, q)
                BY <1>1, <3>2 DEF LastKnowsAll, Listed
            <4>2. Full \subseteq (entries[r] \ victims[r]) \cap Stored
                BY <1>1, <2>1, <4>1 DEF Knows, KeptBound
            <4>3. Cardinality((entries[r] \ victims[r]) \cap Stored) <= Keep
                BY <1>1, <2>1, <4>1 DEF KeptBound
            <4>4. IsFiniteSet((entries[r] \ victims[r]) \cap Stored)
                BY <2>2, FS_Subset
            <4> QED
                BY <4>2, <4>3, <4>4, SmallerSet, KeepAssumption
        <3> QED
            BY <3>1, <3>2
    <2>4. Cardinality(Stored) <= Cardinality(Full) + Cardinality(Short)
        <3>1. IsFiniteSet(Full \cup Short) /\ Cardinality(Full \cup Short)
                    = Cardinality(Full) + Cardinality(Short) - Cardinality(Full \cap Short)
            BY <2>2, FS_Union
        <3>2. Full \cap Short = {}
            OBVIOUS
        <3>3. Cardinality(Full \cap Short) = 0
            BY <3>2, FS_EmptySet
        <3> QED
            BY <2>1, <2>2, <3>1, <3>3, SmallerSet, FS_CardinalityType
    <2> QED
        BY <2>2, <2>3, <2>4, FS_CardinalityType, KeepAssumption
<1>2. StoreInv /\ BoundInv /\ [Next]_vars => BoundInv'
    BY InPlaceNext, LastKnowsAllNext, KeptBoundNext DEF BoundInv
<1>3. StoreInv /\ BoundInv => RetentionBound
    BY <1>1 DEF BoundInv
<1> QED
    BY <1>2, <1>3, StoreInvInit, StoreInvNext, BoundInvInit, PTL DEF Spec
-------------------------------------------------------------------------------------
(* BackupStore implements BackupCatalog.                                             *)

Stamp == [r \in Runs |-> IF r \in sealed THEN created[r] ELSE 0]
Available == {r \in Stored : dump[dir[r]] = recorded[r]}

\* BackupCatalog counts as BackupStore does.
LEMMA SameCardinality == \A S : Catalog!Cardinality(S) = Cardinality(S)
    BY DEF Cardinality, Catalog!Cardinality

\* Completing the manifest publishes the backup, as it is on disk, and touches no other.
LEMMA SealPublishes ==
    ASSUME StoreInv, Exclusive, NEW r \in Runs, SealManifest(r)
    PROVE  Catalog!Publish(r)
<1> USE DEF StoreInv, TypeOK, Built, Progress, Early, runState, SealManifest, Exclusive, OwnDirs, UnderWay, Published
<1>1. r \in holding /\ r \notin sealed /\ sealed' = sealed \cup {r}
    OBVIOUS
<1>2. Stamp' = [Stamp EXCEPT ![r] = created[r]] /\ created[r] \in Nat
    <2>1. created' = created
        OBVIOUS
    <2>2. created[r] \in Nat
        BY RunsAssumption, FS_CardinalityType
    <2>3. Stamp' = [q \in Runs |-> IF q \in sealed' THEN created[q] ELSE 0]
        BY <2>1 DEF Stamp
    <2>4. \A q \in Runs \ {r} : q \in sealed' <=> q \in sealed
        BY <1>1
    <2> HIDE DEF StoreInv, TypeOK, SealManifest, Exclusive, UnderWay, Published
    <2> QED
        BY <1>1, <2>2, <2>3, <2>4 DEF Stamp
<1>3. r \in Available'
    BY <1>1, MarksAssumption DEF Available, Stored
<1>4. ASSUME NEW q \in sealed
      PROVE  q \in Available <=> q \in Available'
    BY <1>1, MarksAssumption DEF Available, Stored
<1>5. Available \subseteq sealed /\ Available' \subseteq sealed'
    BY DEF Available, Stored
<1>6. Available' = Available \cup {r}
    BY <1>1, <1>3, <1>4, <1>5
<1> QED
    BY <1>1, <1>2, <1>6 DEF Catalog!Publish, Stamp, Available

\* Unlinking files of a victim expires it, or goes on with one that has expired.
LEMMA RemovalExpires ==
    ASSUME StoreInv, Exclusive, NEW r \in Runs, BeginRemove(r) \/ FinishRemove(r)
    PROVE  \/ \E v \in Runs : Catalog!Expire(v)
           \/ UNCHANGED <<Stamp, sealed, Available>>
<1> USE DEF StoreInv, TypeOK, Built, Progress, Early, runState
<1>1. PICK v \in victims[r] :
        /\ UNCHANGED <<dir, created, recorded, sealed>>
        /\ \A d \in Dirs \ {dir[v]} : dump'[d] = dump[d] /\ manifest'[d] = manifest[d]
        /\ dump'[dir[v]] \in {None, dump[dir[v]]}
        /\ manifest'[dir[v]] \in {None, manifest[dir[v]]}
    <2>1. CASE BeginRemove(r)
        BY <2>1 DEF BeginRemove, NextVictims
    <2>2. CASE FinishRemove(r)
        <3>1. target[r] \in victims[r]
            BY <2>2 DEF FinishRemove
        <3> QED
            BY <2>2, <3>1 DEF FinishRemove
    <2> QED
        BY <2>1, <2>2
<1>2. v \in sealed /\ v \in Runs /\ Outranked(v) /\ Keep > 0
    BY <1>1 DEF Exclusive, Outdated
<1>3. Stamp' = Stamp
    BY <1>1 DEF Stamp
<1>4. ASSUME NEW q \in sealed, q # v
      PROVE  q \in Available <=> q \in Available'
    <2>1. dir[q] \in Dirs \ {dir[v]}
        BY <1>2, <1>4, MarksAssumption DEF Exclusive, OwnDirs
    <2> QED
        BY <1>1, <2>1 DEF Available, Stored
<1>5. Available \subseteq sealed /\ Available' \subseteq sealed
    BY <1>1 DEF Available, Stored
<1>6. v \in Available' => v \in Available
    <2> SUFFICES ASSUME v \in Available' PROVE v \in Available
        OBVIOUS
    <2>1. manifest'[dir[v]] = v /\ dump'[dir[v]] = recorded[v]
        BY <1>1 DEF Available, Stored
    <2>2. manifest[dir[v]] = v
        BY <1>1, <1>2, <2>1, MarksAssumption
    <2>3. dump[dir[v]] \in {None, recorded[v]}
        BY <1>2 DEF Exclusive, Published
    <2>4. dump[dir[v]] = recorded[v]
        BY <1>1, <2>1, <2>3
    <2> QED
        BY <1>2, <2>2, <2>4 DEF Available, Stored
<1>7. Available' = Available \/ (v \in Available /\ Available' = Available \ {v})
    <2> HIDE DEF StoreInv, TypeOK, Built, Progress
    <2>1. CASE v \in Available /\ v \notin Available'
        BY <1>4, <1>5, <2>1
    <2>2. CASE v \in Available <=> v \in Available'
        <3>1. \A q : q \in Available <=> q \in Available'
            BY <1>4, <1>5, <2>2
        <3> QED
            BY <3>1
    <2> QED
        BY <1>6, <2>1, <2>2
<1>8. Catalog!Outranked(v)
    <2>1. {q \in sealed \ {v} : Stamp[q] >= Stamp[v]}
              = {q \in sealed \ {v} : created[q] >= created[v]}
        BY <1>2 DEF Stamp
    <2> HIDE DEF StoreInv, TypeOK
    <2> QED
        BY <1>2, <2>1, SameCardinality DEF Outranked, Catalog!Outranked, Stamp
<1> QED
    BY <1>1, <1>2, <1>3, <1>7, <1>8 DEF Catalog!Expire, Stamp, Available

\* No other step shows.
LEMMA OthersStutter ==
    ASSUME StoreInv, Exclusive, ~SharedDirs, NEW r \in Runs,
           \/ Start(r) \/ FetchDump(r) \/ BuildManifest(r) \/ TruncateManifest(r)
           \/ ListRoot(r) \/ LoadEntry(r) \/ RankEntries(r) \/ RemoveMissing(r)
           \/ EndPrune(r) \/ Abort(r)
    PROVE  UNCHANGED <<Stamp, sealed, Available>>
<1> USE DEF StoreInv, TypeOK, Built, Progress, Early, runState, store
<1>1. /\ sealed' = sealed
      /\ \A q \in sealed : /\ created'[q] = created[q] /\ recorded'[q] = recorded[q]
                            /\ dir'[q] = dir[q] /\ dir[q] \in Dirs
    <2>1. CASE Start(r)
        BY <2>1 DEF Start
    <2>2. CASE BuildManifest(r)
        BY <2>2 DEF BuildManifest
    <2>3. CASE ~Start(r) /\ ~BuildManifest(r)
        <3>1. UNCHANGED <<sealed, created, recorded, dir>>
            BY <2>3 DEF FetchDump, TruncateManifest, ListRoot, LoadEntry, RankEntries,
                        RemoveMissing, EndPrune, Abort
        <3> QED
            BY <3>1, MarksAssumption
    <2> QED
        BY <2>1, <2>2, <2>3
<1>2. \A q \in sealed : manifest'[dir[q]] = manifest[dir[q]] /\ dump'[dir[q]] = dump[dir[q]]
    <2>1. CASE FetchDump(r) \/ TruncateManifest(r)
        BY <2>1 DEF FetchDump, TruncateManifest, Exclusive, OwnDirs
    <2>2. CASE ~(FetchDump(r) \/ TruncateManifest(r))
        BY <2>2 DEF Start, BuildManifest, ListRoot, LoadEntry,
                    RankEntries, RemoveMissing, EndPrune, Abort
    <2> QED
        BY <2>1, <2>2
<1>3. Stamp' = Stamp
    BY <1>1 DEF Stamp
<1>4. Available' = Available
    BY <1>1, <1>2 DEF Available, Stored
<1> QED
    BY <1>1, <1>3, <1>4

\* The store keeps the promise of BackupCatalog for every number of runs and any keep.
THEOREM Refinement ==
    ASSUME ~SharedDirs
    PROVE  Spec => ImplementsCatalog
<1>1. Init => Catalog!Init
    BY DEF Init, Catalog!Init, Stored
<1>2. StoreInv /\ Exclusive /\ [Next]_vars => [Catalog!Next]_Catalog!vars
    <2> SUFFICES ASSUME StoreInv, Exclusive, [Next]_vars
                 PROVE  [Catalog!Next]_Catalog!vars
        OBVIOUS
    <2>1. ASSUME NEW r \in Runs, SealManifest(r) PROVE Catalog!Next
        BY <2>1, SealPublishes DEF Catalog!Next
    <2>2. ASSUME NEW r \in Runs, BeginRemove(r) \/ FinishRemove(r)
          PROVE  [Catalog!Next]_Catalog!vars
        BY <2>2, RemovalExpires DEF Catalog!Next, Catalog!vars, Stamp, Available
    <2>3. ASSUME NEW r \in Runs,
                 \/ Start(r) \/ FetchDump(r) \/ BuildManifest(r) \/ TruncateManifest(r)
                 \/ ListRoot(r) \/ LoadEntry(r) \/ RankEntries(r) \/ RemoveMissing(r)
                 \/ EndPrune(r) \/ Abort(r)
          PROVE  UNCHANGED Catalog!vars
        BY <2>3, OthersStutter DEF Catalog!vars, Stamp, Available
    <2>4. CASE UNCHANGED vars
        BY <2>4 DEF vars, store, runState, Catalog!vars, Stored
    <2> QED
        BY <2>1, <2>2, <2>3, <2>4 DEF Next
<1>3. StoreInv /\ StoreInv' /\ Exclusive /\ [Next]_vars => Exclusive'
    BY ExclusiveNext
<1> QED
    BY <1>1, <1>2, <1>3, StoreInvInit, StoreInvNext, ExclusiveInit, PTL
    DEF Spec, ImplementsCatalog, Catalog!Spec
-------------------------------------------------------------------------------------
(* Restore.                                                                         *)

\* Whose dump a directory and a manifest have, when no two runs share a directory.
Origins ==
    /\ present \subseteq UsedDirs
    /\ \A d \in Dirs : dump[d] # None => dir[dump[d]] = d
    /\ \A r \in Runs : recorded[r] \in {None, r}

\* A copy is that of a published backup that was whole.
Copied ==
    \A c \in Copies :
        IF copy[c].manifest = None THEN copy[c].dump = None
        ELSE /\ copy[c].manifest \in sealed
             /\ copy[c].dump = copy[c].manifest
             /\ recorded[copy[c].manifest] = copy[c].manifest

Resolved == {"verify"} \cup AtWork

\* A restore at work has a place to read, and a copy holds a published manifest.
Placed ==
    /\ \A c \in Copies : copy[c].manifest # None => copy[c].manifest \in sealed
    /\ \A x \in Restorers : step[x] \in Resolved => stored[x].at # None

\* What a restore goes by: a place that some run or copy has filled, and, unless the user
\* has named the dump file, the manifest of the published backup that belongs to it.
Sound(x) ==
    LET m == stored[x].manifest
        at == stored[x].at
    IN  /\ step[x] = "idle" => at = None
        /\ step[x] \in Resolved => at # None
        /\ at \in Copies => copy[at].dump # None
        /\ at \in Dirs => at \in UsedDirs
        /\ at # None /\ ~file[x] =>
            /\ m \in sealed /\ recorded[m] = m
            /\ at = dir[m] \/ (at \in Copies /\ copy[at].manifest = m)
        /\ step[x] \in AtWork /\ ~file[x] => EngineOf[m] = LocalEngine

Settled == \A x \in Restorers : Sound(x)

RestoreInv == RTypeOK /\ Origins /\ Copied /\ Settled

OneRestorer == \A x, y \in Restorers : x = y
-------------------------------------------------------------------------------------
\* A restore does nothing to the backup root.
LEMMA StoreSteps == [RNext]_allVars => [Next]_vars
    BY DEF RNext, RestoreStep, allVars, CopyBackup, Refuse, Resolve, Verify, Reset, Recreate,
       Load, EndLoad, CommandFails, Kill

LEMMA OriginsInit == RInit => Origins
    BY DEF RInit, Init, Origins

LEMMA OriginsNext ==
    ASSUME StoreInv, StoreInv', Exclusive, Origins, [Next]_vars
    PROVE  Origins'
<1> USE MarksAssumption DEF StoreInv, TypeOK, Progress, Early, Ended, Built, Goto, store, runState,
        scan, Origins, UsedDirs, Exclusive, OwnDirs
<1>1. ASSUME NEW r \in Runs, Start(r) PROVE Origins'
    BY <1>1 DEF Start
<1>2. ASSUME NEW r \in Runs, FetchDump(r) PROVE Origins'
    BY <1>2 DEF FetchDump
<1>3. ASSUME NEW r \in Runs, BuildManifest(r) PROVE Origins'
    BY <1>3 DEF BuildManifest
<1>4. ASSUME NEW r \in Runs, TruncateManifest(r) PROVE Origins'
    <2>1. present' = present \cup {dir[r]} /\ UNCHANGED <<dump, dir, recorded>>
        BY <1>4 DEF TruncateManifest
    <2>2. UsedDirs' = UsedDirs /\ dir[r] \in UsedDirs
        BY <2>1
    <2>3. present' \subseteq UsedDirs'
        BY <2>1, <2>2
    <2> QED
        BY <2>1, <2>3
<1>5. ASSUME NEW r \in Runs, BeginRemove(r) PROVE Origins'
    <2>1. PICK d : dump' = dump \/ dump' = [dump EXCEPT ![d] = None]
        BY <1>5 DEF BeginRemove
    <2>2. UNCHANGED <<present, dir, recorded>>
        BY <1>5 DEF BeginRemove
    <2>3. \A e \in Dirs : dump'[e] # None => dump'[e] = dump[e]
        BY <2>1
    <2> QED
        BY <2>2, <2>3
<1>6. ASSUME NEW r \in Runs, FinishRemove(r) PROVE Origins'
    <2>1. PICK d : present' = present \ {d} /\ dump' = [dump EXCEPT ![d] = None]
        BY <1>6 DEF FinishRemove
    <2>2. UNCHANGED <<dir, recorded>>
        BY <1>6 DEF FinishRemove
    <2>3. \A e \in Dirs : dump'[e] # None => dump'[e] = dump[e]
        BY <2>1
    <2> QED
        BY <2>1, <2>2, <2>3
<1>7. CASE UNCHANGED <<present, dump, dir, recorded>>
    BY <1>7
<1> QED
    BY <1>1, <1>2, <1>3, <1>4, <1>5, <1>6, <1>7 DEF Next, vars, SealManifest, ListRoot, LoadEntry,
       RankEntries, RemoveMissing, EndPrune, Abort

\* A published backup stays where it is and records what it recorded, and a directory
\* that was used stays used.
LEMMA PublishedStays ==
    ASSUME StoreInv, [Next]_vars
    PROVE  /\ sealed \subseteq sealed'
           /\ \A q \in sealed : recorded'[q] = recorded[q] /\ dir'[q] = dir[q]
           /\ \A q \in Runs : dir[q] # None => dir'[q] = dir[q]
           /\ UsedDirs \ {None} \subseteq UsedDirs'
<1> USE MarksAssumption DEF StoreInv, TypeOK, Progress, Early, Built, store, runState, scan
<1> DEFINE Stays == /\ sealed \subseteq sealed'
                    /\ \A q \in sealed : recorded'[q] = recorded[q]
                    /\ \A q \in Runs : dir[q] # None => dir'[q] = dir[q]
<1>1. ASSUME NEW r \in Runs, Start(r) PROVE Stays
    BY <1>1 DEF Start
<1>2. ASSUME NEW r \in Runs, BuildManifest(r) PROVE Stays
    BY <1>2 DEF BuildManifest
<1>3. ASSUME NEW r \in Runs, SealManifest(r) PROVE Stays
    BY <1>3 DEF SealManifest
<1>4. ASSUME UNCHANGED <<sealed, dir, recorded>> PROVE Stays
    BY <1>4
<1>5. ASSUME NEW r \in Runs,
             \/ FetchDump(r) \/ TruncateManifest(r) \/ ListRoot(r)
             \/ LoadEntry(r) \/ RankEntries(r) \/ BeginRemove(r) \/ FinishRemove(r)
             \/ RemoveMissing(r) \/ EndPrune(r) \/ Abort(r)
      PROVE  UNCHANGED <<sealed, dir, recorded>>
    BY <1>5 DEF FetchDump, TruncateManifest, ListRoot, LoadEntry, RankEntries,
                BeginRemove, FinishRemove, RemoveMissing, EndPrune, Abort
<1>6. Stays
    <2> HIDE DEF Stays, StoreInv, TypeOK, Progress
    <2> QED
        BY <1>1, <1>2, <1>3, <1>4, <1>5 DEF Next, vars
<1>7. \A q \in sealed : q \in Runs /\ dir[q] # None
    OBVIOUS
<1>8. UsedDirs \ {None} \subseteq UsedDirs'
    BY <1>6 DEF UsedDirs
<1> QED
    BY <1>6, <1>7, <1>8

-------------------------------------------------------------------------------------
(* Type correctness, whoever shares a directory.                                     *)

LEMMA RTypesInit == RInit => RTypeOK /\ Placed
    BY MarksAssumption, LocalAssumption DEF RInit, RTypeOK, Placed, Resolved, AtWork, Over

LEMMA RTypesNext ==
    ASSUME StoreInv, RTypeOK, Placed, [RNext]_allVars
    PROVE  RTypeOK' /\ Placed'
<1> USE MarksAssumption, CopiesAssumption, LocalAssumption
<1>0. /\ \A d \in Dirs : dump[d] \in Runs \cup {None} /\ manifest[d] \in Runs \cup {None, Torn}
      /\ \A d \in Dirs : manifest[d] \in Runs => manifest[d] \in sealed
      /\ \A r \in sealed : r \in Runs /\ dir[r] \in Dirs
      /\ present \subseteq Dirs
    BY DEF StoreInv, TypeOK, Progress, Built, Early
<1>1. ASSUME Next, UNCHANGED rvars PROVE RTypeOK' /\ Placed'
    <2>1. sealed \subseteq sealed'
        BY <1>1, PublishedStays
    <2> QED
        BY <1>1, <2>1 DEF rvars, RTypeOK, Placed
<1>2. ASSUME NEW c \in Copies, CopyBackup(c) PROVE RTypeOK' /\ Placed'
    <2>1. PICK d \in present :
            /\ Verifies(d)
            /\ copy' = [copy EXCEPT ![c] = [manifest |-> manifest[d], dump |-> dump[d]]]
        BY <1>2 DEF CopyBackup
    <2>2. manifest[d] \in sealed /\ manifest[d] \in Runs /\ dump[d] \in Runs \cup {None}
        BY <1>0, <2>1 DEF Verifies
    <2>3. UNCHANGED <<step, plan, source, file, relative, stored, database, sealed>>
        BY <1>2 DEF CopyBackup, vars
    <2> QED
        BY <2>1, <2>2, <2>3 DEF RTypeOK, Placed
<1>3. ASSUME NEW x \in Restorers, Resolve(x) PROVE RTypeOK' /\ Placed'
    <2>1. PICK p \in Plans, d \in Sources(x), isFile \in BOOLEAN :
            LET m  == IF isFile THEN None ELSE ManifestIn(d)
                at == IF m \in Runs /\ RecordedDump(x, m) # None THEN dir[m] ELSE d
                found == DumpIn(at) # None
                         /\ (~isFile => m \in Runs /\ recorded[m] # None)
            IN  /\ plan' = [plan EXCEPT ![x] = p]
                /\ source' = [source EXCEPT ![x] = d]
                /\ file' = [file EXCEPT ![x] = isFile]
                /\ \E elsewhere \in BOOLEAN : relative' = [relative EXCEPT ![x] = elsewhere]
                /\ stored' = IF found
                             THEN [stored EXCEPT ![x] = [manifest |-> m, at |-> at]]
                             ELSE stored
                /\ Proceed(x, IF found THEN "verify" ELSE "refused")
        BY ONLY <1>3, Zenon DEF Resolve
    <2> DEFINE m  == IF isFile THEN None ELSE ManifestIn(d)
               at == IF m \in Runs /\ RecordedDump(x, m) # None THEN dir[m] ELSE d
               found == DumpIn(at) # None /\ (~isFile => m \in Runs /\ recorded[m] # None)
    <2>2. /\ plan' = [plan EXCEPT ![x] = p]
          /\ source' = [source EXCEPT ![x] = d]
          /\ file' = [file EXCEPT ![x] = isFile]
          /\ stored' = IF found THEN [stored EXCEPT ![x] = [manifest |-> m, at |-> at]] ELSE stored
          /\ step' = [step EXCEPT ![x] = IF found THEN "verify" ELSE "refused"]
          /\ relative' \in [Restorers -> BOOLEAN]
          /\ UNCHANGED <<copy, database, sealed>>
        BY <1>3, <2>1 DEF Resolve, Proceed, RTypeOK, vars
    <2>3. d \in Dirs \cup Copies
        BY <1>0 DEF Sources
    <2>4. m \in Runs => m \in sealed
        BY <1>0, <2>3 DEF ManifestIn, Placed
    <2>5. /\ at \in Dirs \cup Copies
          /\ found => m \in Runs \cup {None} /\ (isFile <=> m = None)
        BY <1>0, <2>3, <2>4
    <2> HIDE DEF m, at, found
    <2>6. \A y \in Restorers \ {x} :
            /\ step'[y] = step[y] /\ file'[y] = file[y] /\ stored'[y] = stored[y]
        BY <2>2 DEF RTypeOK
    <2>7. /\ file'[x] = isFile
          /\ found => step'[x] = "verify" /\ stored'[x] = [manifest |-> m, at |-> at]
          /\ ~found => step'[x] = "refused"
        BY <2>2 DEF RTypeOK
    <2>8. /\ copy' \in [Copies -> [manifest : Runs \cup {None}, dump : Runs \cup {None}]]
          /\ plan' \in [Restorers -> Plans \cup {None}]
          /\ source' \in [Restorers -> Dirs \cup Copies \cup {None}]
          /\ file' \in [Restorers -> BOOLEAN] /\ relative' \in [Restorers -> BOOLEAN]
          /\ step' \in [Restorers -> {"idle", "verify"} \cup AtWork \cup Over]
          /\ database' \subseteq Runs \cup {Local}
        BY <2>2, <2>3 DEF RTypeOK, Over
    <2>9. stored' \in [Restorers -> [manifest : Runs \cup {None},
                                     at : Dirs \cup Copies \cup {None}]]
        BY <2>2, <2>5 DEF RTypeOK
    <2>10. \A y \in Restorers : step'[y] \in {"verify"} \cup AtWork =>
                                    (file'[y] <=> stored'[y].manifest = None)
        BY <2>5, <2>6, <2>7 DEF RTypeOK, AtWork
    <2>11. Placed'
        BY <2>2, <2>5, <2>6, <2>7 DEF Placed, Resolved, AtWork
    <2> QED
        BY <2>8, <2>9, <2>10, <2>11 DEF RTypeOK
<1>4. ASSUME NEW x \in Restorers, Load(x) PROVE RTypeOK' /\ Placed'
    <2>1. /\ step[x] = "load"
          /\ UNCHANGED <<sealed, copy, plan, source, file, relative, stored>>
          /\ \/ step' = [step EXCEPT ![x] = "loaded"]
                /\ database' = database \cup {DumpIn(stored[x].at)} /\ Loads(x)
             \/ step' = [step EXCEPT ![x] = "ok"] /\ UNCHANGED database
             \/ step' = [step EXCEPT ![x] = "failed"] /\ UNCHANGED database
        BY <1>4 DEF Load, Proceed, vars
    <2>2. DumpIn(stored[x].at) \in Runs \cup {None}
        BY <1>0, <2>1 DEF DumpIn, RTypeOK, Placed, Resolved, AtWork
    <2>3. database' \subseteq Runs \cup {Local}
        BY <2>1, <2>2 DEF RTypeOK, Loads
    <2>4. /\ \A y \in Restorers : step'[y] \in {"loaded", "ok", "failed"} \/ step'[y] = step[y]
          /\ step' \in [Restorers -> {"idle", "verify"} \cup AtWork \cup Over]
          /\ step[x] \in AtWork
          /\ \A y \in Restorers : step'[y] # step[y] => y = x
        BY <2>1 DEF RTypeOK, AtWork, Over
    <2>5. \A y \in Restorers : step'[y] \in Resolved => step[y] \in Resolved
        BY <2>4 DEF Resolved
    <2> QED
        BY <2>1, <2>3, <2>4, <2>5 DEF RTypeOK, Placed, Resolved
<1>5. ASSUME NEW x \in Restorers, Verify(x) PROVE RTypeOK' /\ Placed'
    <2>1. /\ step[x] = "verify"
          /\ UNCHANGED <<sealed, copy, plan, source, file, relative, stored, database>>
          /\ \/ step' = [step EXCEPT ![x] = "refused"]
             \/ step' = [step EXCEPT ![x] = "ok"]
             \/ step' = [step EXCEPT ![x] = "reset"]
             \/ step' = [step EXCEPT ![x] = "load"]
        BY <1>5 DEF Verify, Proceed, vars
    <2> QED
        BY <2>1 DEF RTypeOK, Placed, Resolved, AtWork, Over
<1>6. ASSUME NEW x \in Restorers, Refuse(x) \/ Reset(x) \/ Recreate(x) \/ EndLoad(x) \/ CommandFails(x) \/ Kill(x)
      PROVE  RTypeOK' /\ Placed'
    <2>1. /\ UNCHANGED <<sealed, copy, plan, source, file, relative, stored>>
          /\ database' \in {database, {}}
          /\ \/ step' = [step EXCEPT ![x] = "refused"]
             \/ step' = [step EXCEPT ![x] = "ok"]
             \/ step' = [step EXCEPT ![x] = "killed"]
             \/ step' = [step EXCEPT ![x] = "failed"]
             \/ /\ step' = [step EXCEPT ![x] = "emptied"] \/ step' = [step EXCEPT ![x] = "load"]
                /\ step[x] \in {"reset", "emptied"}
        BY <1>6 DEF Refuse, Reset, Recreate, EndLoad, CommandFails, Kill, Proceed, vars
    <2> QED
        BY <2>1 DEF RTypeOK, Placed, Resolved, AtWork, Over
<1>7. CASE UNCHANGED allVars
    BY <1>7 DEF allVars, vars, rvars, RTypeOK, Placed
<1> QED
    BY <1>1, <1>2, <1>3, <1>4, <1>5, <1>6, <1>7 DEF RNext, RestoreStep

\* Every reachable state has the types that the module states, for any number of runs,
\* restores and copies.
THEOREM RestoreTypes == RSpec => []RTypeOK
<1>1. RInit => StoreInv
    BY StoreInvInit DEF RInit
<1>2. StoreInv /\ [RNext]_allVars => StoreInv'
    BY StoreSteps, StoreInvNext
<1> QED
    BY <1>1, <1>2, RTypesInit, RTypesNext, PTL DEF RSpec
-------------------------------------------------------------------------------------
(* What a restore goes by, when every run has a directory of its own.                *)

LEMMA RestoreInvInit == RInit => RestoreInv
    BY RTypesInit, OriginsInit, MarksAssumption, CopiesAssumption
    DEF RInit, RestoreInv, Copied, Settled, Sound, Resolved, AtWork

\* Backup runs go on beside a restore.
LEMMA RestoreInvBeside ==
    ASSUME StoreInv, RTypeOK, Copied, Settled, [Next]_vars, UNCHANGED rvars
    PROVE  Copied' /\ Settled'
<1> USE MarksAssumption, CopiesAssumption DEF rvars
<1>1. /\ sealed \subseteq sealed'
      /\ \A q \in sealed : recorded'[q] = recorded[q] /\ dir'[q] = dir[q]
      /\ UsedDirs \ {None} \subseteq UsedDirs'
    BY PublishedStays
<1>2. Copied'
    BY <1>1 DEF Copied
<1>3. Settled'
    BY <1>1 DEF Settled, Sound, Resolved, AtWork
<1> QED
    BY <1>2, <1>3

\* Any step of a restore or of the operator.
LEMMA RestoreInvSteps ==
    ASSUME StoreInv, Exclusive, RestoreInv, UNCHANGED vars,
           \/ \E c \in Copies : CopyBackup(c)
           \/ \E x \in Restorers : RestoreStep(x)
    PROVE  Copied' /\ Settled'
<1> USE MarksAssumption, CopiesAssumption, LocalAssumption DEF RestoreInv
<1>0. /\ \A d \in Dirs : dump[d] \in Runs \cup {None}
      /\ \A d \in Dirs : manifest[d] \in Runs =>
                manifest[d] \in sealed /\ dir[manifest[d]] = d
      /\ \A d \in present : d \in UsedDirs
      /\ \A r \in sealed : r \in Runs /\ dir[r] \in Dirs /\ dir[r] \in UsedDirs
      /\ \A r \in Runs : recorded[r] \in {None, r}
      /\ present \subseteq Dirs
    BY DEF StoreInv, TypeOK, Progress, Built, Early, Exclusive, Published, Origins, UsedDirs
<1>00. UNCHANGED <<sealed, recorded, dir, dump, present, manifest, UsedDirs>>
    BY DEF vars, store, runState, UsedDirs
<1>1. ASSUME NEW c \in Copies, CopyBackup(c) PROVE Copied' /\ Settled'
    <2>1. PICK d \in present :
            /\ Verifies(d)
            /\ copy' = [copy EXCEPT ![c] = [manifest |-> manifest[d], dump |-> dump[d]]]
        BY <1>1 DEF CopyBackup
    <2>2. manifest[d] \in sealed /\ dump[d] = manifest[d] /\ recorded[manifest[d]] = manifest[d]
        BY <1>0, <2>1 DEF Verifies
    <2>3. copy[c].manifest = None /\ copy[c].dump = None
        BY <1>1 DEF CopyBackup, Copied
    <2>4. /\ copy \in [Copies -> [manifest : Runs \cup {None}, dump : Runs \cup {None}]]
          /\ copy'[c] = [manifest |-> manifest[d], dump |-> dump[d]]
          /\ \A e \in Copies \ {c} : copy'[e] = copy[e]
        BY <2>1 DEF RTypeOK
    <2>5. UNCHANGED <<step, plan, source, file, relative, stored, database>>
        BY <1>1 DEF CopyBackup
    <2>7. Copied'
        BY <1>0, <1>00, <2>2, <2>4 DEF Copied
    <2>8. Settled'
        BY <1>00, <2>3, <2>4, <2>5 DEF Settled, Sound, Resolved, AtWork
    <2> QED
        BY <2>7, <2>8
<1>2. ASSUME NEW x \in Restorers, Resolve(x) PROVE Copied' /\ Settled'
    <2>1. PICK p \in Plans, d \in Sources(x), isFile \in BOOLEAN :
            LET m  == IF isFile THEN None ELSE ManifestIn(d)
                at == IF m \in Runs /\ RecordedDump(x, m) # None THEN dir[m] ELSE d
                found == DumpIn(at) # None
                         /\ (~isFile => m \in Runs /\ recorded[m] # None)
            IN  /\ plan' = [plan EXCEPT ![x] = p]
                /\ source' = [source EXCEPT ![x] = d]
                /\ file' = [file EXCEPT ![x] = isFile]
                /\ \E elsewhere \in BOOLEAN : relative' = [relative EXCEPT ![x] = elsewhere]
                /\ stored' = IF found
                             THEN [stored EXCEPT ![x] = [manifest |-> m, at |-> at]]
                             ELSE stored
                /\ Proceed(x, IF found THEN "verify" ELSE "refused")
        BY ONLY <1>2, Zenon DEF Resolve
    <2> DEFINE m  == IF isFile THEN None ELSE ManifestIn(d)
               at == IF m \in Runs /\ RecordedDump(x, m) # None THEN dir[m] ELSE d
               found == DumpIn(at) # None /\ (~isFile => m \in Runs /\ recorded[m] # None)
    <2>2. /\ plan' = [plan EXCEPT ![x] = p]
          /\ source' = [source EXCEPT ![x] = d]
          /\ file' = [file EXCEPT ![x] = isFile]
          /\ stored' = IF found THEN [stored EXCEPT ![x] = [manifest |-> m, at |-> at]] ELSE stored
          /\ step' = [step EXCEPT ![x] = IF found THEN "verify" ELSE "refused"]
          /\ relative' \in [Restorers -> BOOLEAN]
          /\ UNCHANGED <<copy, database>>
        <3>1. step' = [step EXCEPT ![x] = IF found THEN "verify" ELSE "refused"]
            BY <2>1 DEF Proceed
        <3>2. PICK elsewhere \in BOOLEAN : relative' = [relative EXCEPT ![x] = elsewhere]
            BY <2>1
        <3>3. relative' \in [Restorers -> BOOLEAN]
            BY <3>2 DEF RTypeOK
        <3>4. UNCHANGED <<copy, database>>
            BY <1>2 DEF Resolve
        <3> QED
            BY <2>1, <3>1, <3>3, <3>4
    <2>3. /\ d \in Copies \/ (d \in Dirs /\ d \in UsedDirs)
          /\ d \in Dirs \cup Copies
        BY <1>0 DEF Sources
    <2>4. m \in Runs => /\ m \in sealed
                        /\ d \in Dirs => d = dir[m]
                        /\ d \in Copies => copy[d].manifest = m
        BY <1>0, <2>3 DEF ManifestIn, Copied
    <2>5. /\ at \in Copies => at = d
          /\ at \in Dirs => at \in UsedDirs
          /\ at \in Dirs \cup Copies
          /\ m \in Runs => at = dir[m] \/ at = d
        BY <1>0, <2>3, <2>4
    <2>6. found /\ at \in Copies => copy[at].dump # None
        BY DEF DumpIn
    <2>7. found => /\ isFile => m = None
                   /\ ~isFile => m \in sealed /\ recorded[m] = m
        BY <1>0, <2>4
    <2>8. step[x] = "idle" /\ stored[x].at = None
        BY <1>2 DEF Resolve, Settled, Sound
    <2> HIDE DEF m, at, found
    <2>9. \A y \in Restorers \ {x} :
            /\ step'[y] = step[y] /\ file'[y] = file[y] /\ stored'[y] = stored[y]
        BY <2>2 DEF RTypeOK
    <2>10. /\ file'[x] = isFile
           /\ found => step'[x] = "verify" /\ stored'[x] = [manifest |-> m, at |-> at]
           /\ ~found => step'[x] = "refused" /\ stored'[x] = stored[x]
        BY <2>2 DEF RTypeOK
    <2>11. Copied'
        BY <1>00, <2>2 DEF Copied
    <2>12. Settled'
        <3>1. copy' = copy /\ sealed' = sealed /\ recorded' = recorded /\ dir' = dir
              /\ UsedDirs' = UsedDirs
            BY <1>00, <2>2
        <3>2. ASSUME NEW y \in Restorers \ {x} PROVE Sound(y)'
            <4>1. Sound(y)
                BY DEF Settled
            <4> QED
                BY <2>9, <3>1, <4>1 DEF Sound, Resolved, AtWork
        <3>3. ASSUME found PROVE Sound(x)'
            <4>1. step'[x] = "verify" /\ file'[x] = isFile
                  /\ stored'[x].manifest = m /\ stored'[x].at = at
                BY <2>10, <3>3
            <4>2. /\ at \in Copies => copy[at].dump # None
                  /\ at \in Dirs => at \in UsedDirs
                  /\ at # None
                BY <1>0, <2>5, <2>6, <3>3
            <4>3. ~isFile => /\ m \in sealed /\ recorded[m] = m
                             /\ at = dir[m] \/ (at \in Copies /\ copy[at].manifest = m)
                BY <2>3, <2>4, <2>5, <2>7, <3>3, <1>0
            <4> QED
                BY <3>1, <4>1, <4>2, <4>3 DEF Sound, Resolved, AtWork
        <3>4. ASSUME ~found PROVE Sound(x)'
            <4>1. step'[x] = "refused" /\ stored'[x].at = None
                BY <2>10, <2>8, <3>4
            <4> QED
                BY <3>1, <4>1 DEF Sound, Resolved, AtWork
        <3> QED
            BY <3>2, <3>3, <3>4 DEF Settled
    <2> QED
        BY <2>11, <2>12
<1>3. ASSUME NEW x \in Restorers, Load(x) PROVE Copied' /\ Settled'
    <2>1. /\ step[x] = "load"
          /\ UNCHANGED <<vars, copy, plan, source, file, relative, stored>>
          /\ \/ step' = [step EXCEPT ![x] = "loaded"]
                /\ database' = database \cup {DumpIn(stored[x].at)} /\ Loads(x)
             \/ step' = [step EXCEPT ![x] = "ok"] /\ UNCHANGED database
             \/ step' = [step EXCEPT ![x] = "failed"] /\ UNCHANGED database
        BY <1>3 DEF Load, Proceed
    <2> QED
        BY <1>00, <2>1 DEF RTypeOK, Copied, Settled, Sound, Resolved, AtWork
<1>4. ASSUME NEW x \in Restorers, Verify(x) PROVE Copied' /\ Settled'
    <2>1. /\ step[x] = "verify"
          /\ UNCHANGED <<vars, copy, plan, source, file, relative, stored, database>>
          /\ \/ step' = [step EXCEPT ![x] = "refused"]
             \/ step' = [step EXCEPT ![x] = "ok"]
             \/ /\ EngineFits(x)
                /\ \/ step' = [step EXCEPT ![x] = "reset"]
                   \/ step' = [step EXCEPT ![x] = "load"]
        BY <1>4 DEF Verify, Proceed
    <2> QED
        BY <1>00, <2>1 DEF RTypeOK, Copied, Settled, Sound, Resolved, AtWork, EngineFits
<1>5. ASSUME NEW x \in Restorers, Refuse(x) \/ Reset(x) \/ Recreate(x) \/ EndLoad(x) \/ CommandFails(x) \/ Kill(x)
      PROVE  Copied' /\ Settled'
    <2>1. /\ UNCHANGED <<vars, copy, plan, source, file, relative, stored>>
          /\ database' \in {database, {}}
          /\ \E where \in {"refused", "ok", "failed", "killed", "emptied", "load"} :
                /\ step' = [step EXCEPT ![x] = where]
                /\ where \in {"emptied", "load"} => step[x] \in {"reset", "emptied"}
        BY <1>5 DEF Refuse, Reset, Recreate, EndLoad, CommandFails, Kill, Proceed
    <2> QED
        BY <1>00, <2>1 DEF RTypeOK, Copied, Settled, Sound, Resolved, AtWork
<1> QED
    BY <1>1, <1>2, <1>3, <1>4, <1>5 DEF RestoreStep

LEMMA RestoreInvNext ==
    ASSUME StoreInv, StoreInv', Exclusive, RestoreInv, RTypeOK', [RNext]_allVars
    PROVE  RestoreInv'
<1>1. [Next]_vars
    BY StoreSteps
<1>2. Origins'
    BY <1>1, OriginsNext DEF RestoreInv
<1>3. CASE UNCHANGED rvars
    BY <1>1, <1>2, <1>3, RestoreInvBeside DEF RestoreInv
<1>4. CASE /\ UNCHANGED vars
           /\ \/ \E c \in Copies : CopyBackup(c)
              \/ \E x \in Restorers : RestoreStep(x)
    BY <1>2, <1>4, RestoreInvSteps DEF RestoreInv
<1> QED
    BY <1>3, <1>4 DEF RNext, RestoreStep, allVars, CopyBackup, Refuse, Resolve, Verify, Reset, Recreate,
       Load, EndLoad, CommandFails, Kill

AllInv == StoreInv /\ Exclusive /\ RestoreInv /\ Placed

LEMMA AllInvInit == RInit => AllInv
    BY StoreInvInit, ExclusiveInit, RestoreInvInit, RTypesInit DEF RInit, AllInv

LEMMA AllInvNext ==
    ASSUME ~SharedDirs, AllInv, [RNext]_allVars
    PROVE  AllInv'
<1>1. [Next]_vars
    BY StoreSteps
<1>2. StoreInv'
    BY <1>1, StoreInvNext DEF AllInv
<1>3. Exclusive'
    BY <1>1, <1>2, ExclusiveNext DEF AllInv
<1>4. RTypeOK' /\ Placed'
    BY RTypesNext DEF AllInv, RestoreInv
<1>5. RestoreInv'
    BY <1>2, <1>4, RestoreInvNext DEF AllInv
<1> QED
    BY <1>2, <1>3, <1>4, <1>5 DEF AllInv
-------------------------------------------------------------------------------------
(* What a restore at work rests on.                                                  *)

\* The one run whose directory this is.
LEMMA OwnerOf ==
    ASSUME OwnDirs, NEW r \in Runs, dir[r] # None
    PROVE  (CHOOSE q \in Runs : dir[q] = dir[r]) = r
    BY DEF OwnDirs

\* What a restore at work has chosen is a dump, and nothing else is in its place.
LEMMA PickedIsDump ==
    ASSUME AllInv, NEW x \in Restorers, step[x] \in Resolved,
           ~file[x] => EngineOf[stored[x].manifest] = LocalEngine
    PROVE  Picked(x) \in Runs /\ DumpIn(stored[x].at) \in {None, Picked(x)}
<1> USE MarksAssumption, CopiesAssumption DEF AllInv, RestoreInv
<1> DEFINE m == stored[x].manifest
           at == stored[x].at
<1>1. Sound(x) /\ at # None
    BY DEF Settled, Sound
<1>2. at \in Copies \/ at \in Dirs
    BY <1>1 DEF RTypeOK
<1>3. at \notin Copies \/ at \notin Dirs
    OBVIOUS
<1>4. \A d \in Dirs : dump[d] # None => dump[d] \in Runs /\ dir[dump[d]] = d
    BY DEF Origins, StoreInv, TypeOK
<1>5. OwnDirs
    BY DEF Exclusive
<1>6. \A q \in sealed : q \in Runs
    BY DEF StoreInv, TypeOK, Built
<1>7. CASE ~file[x]
    <2>1. m \in sealed /\ m \in Runs /\ recorded[m] = m /\ Picked(x) = m
        BY <1>1, <1>6, <1>7 DEF Sound, Picked
    <2>2. CASE at \in Copies
        <3>1. copy[at].manifest = m
            BY <1>1, <1>3, <1>7, <2>1, <2>2 DEF Sound, StoreInv, TypeOK
        <3> QED
            BY <2>1, <2>2, <3>1 DEF Copied, DumpIn
    <2>3. CASE at \in Dirs
        <3>1. at = dir[m]
            BY <1>1, <1>3, <1>7, <2>3 DEF Sound
        <3> QED
            BY <1>3, <1>4, <1>5, <2>1, <2>3, <3>1 DEF DumpIn, OwnDirs
    <2> QED
        BY <1>2, <2>2, <2>3
<1>8. CASE file[x] /\ at \in Copies
    BY <1>1, <1>8 DEF Sound, Picked, DumpIn, RTypeOK
<1>9. CASE file[x] /\ at \in Dirs
    <2>1. PICK r \in Runs : dir[r] = at
        BY <1>1, <1>9 DEF Sound, UsedDirs
    <2>2. Picked(x) = r
        BY <1>1, <1>3, <1>5, <1>9, <2>1, OwnerOf DEF Picked
    <2> QED
        BY <1>3, <1>4, <1>5, <1>9, <2>1, <2>2 DEF DumpIn, OwnDirs
<1> QED
    BY <1>2, <1>7, <1>8, <1>9

\* What a restore was given.  Broken is the end of one that was at work.
Broken == {"failed", "killed"}

\* Retention may take, or have taken, the backup that a restore goes by.
Superseded(x) ==
    \E r \in sealed :
        /\ IF file[x] THEN dir[r] = stored[x].at ELSE r = stored[x].manifest
        /\ Outranked(r)

\* The source of a restore has the manifest that the restore goes by, and only where the
\* recorded path means something has it passed; a dump file is there, unless its backup
\* has been superseded.
Given(x) ==
    LET m == stored[x].manifest
        at == stored[x].at
    IN  /\ step[x] \in AtWork \cup Broken => at # None /\ (~file[x] => x \notin Away)
        /\ at # None /\ ~file[x] =>
            IF source[x] \in Copies THEN copy[source[x]].manifest = m ELSE source[x] = dir[m]
        /\ at # None /\ file[x] => DumpIn(at) # None \/ Superseded(x)

AllGiven == \A x \in Restorers : Given(x)

\* A dump goes only when a pruning pass has its backup as a victim.
LEMMA DumpGoes ==
    ASSUME StoreInv, Exclusive, [Next]_vars, NEW d \in Dirs, dump[d] # None, dump'[d] = None
    PROVE  \E v \in sealed : dir[v] = d /\ Outranked(v)
<1> USE DEF StoreInv, TypeOK
<1>1. \A r \in Runs : \A v \in victims[r] : v \in sealed /\ Outranked(v)
    BY DEF Exclusive, Outdated
<1>2. ASSUME NEW r \in Runs, FetchDump(r) PROVE FALSE
    <2>1. dump' = [dump EXCEPT ![dir[r]] = r]
        BY <1>2 DEF FetchDump
    <2> QED
        BY <2>1, MarksAssumption
<1>3. ASSUME NEW r \in Runs, BeginRemove(r) PROVE \E v \in sealed : dir[v] = d /\ Outranked(v)
    <2>1. PICK v \in NextVictims(r) : dump' \in {dump, [dump EXCEPT ![dir[v]] = None]}
        BY <1>3 DEF BeginRemove
    <2>2. v \in victims[r] /\ dir[v] = d
        BY <2>1 DEF NextVictims
    <2> QED
        BY <1>1, <2>2
<1>4. ASSUME NEW r \in Runs, FinishRemove(r) PROVE \E v \in sealed : dir[v] = d /\ Outranked(v)
    <2>1. target[r] \in victims[r] /\ dump' = [dump EXCEPT ![dir[target[r]]] = None]
        BY <1>4 DEF FinishRemove
    <2>2. dir[target[r]] = d
        BY <2>1
    <2> QED
        BY <1>1, <2>1, <2>2
<1>5. ASSUME dump' = dump PROVE FALSE
    BY <1>5
<1> QED
    BY <1>2, <1>3, <1>4, <1>5
    DEF Next, vars, store, Start, BuildManifest, TruncateManifest, SealManifest, ListRoot,
        LoadEntry, RankEntries, RemoveMissing, EndPrune, Abort

\* What is superseded stays so.
LEMMA SupersededStays ==
    ASSUME StoreInv, StoreInv', [Next]_vars, NEW x \in Restorers, Superseded(x),
           UNCHANGED <<file, stored>>
    PROVE  Superseded(x)'
<1>1. PICK r \in sealed : /\ IF file[x] THEN dir[r] = stored[x].at ELSE r = stored[x].manifest
                          /\ Outranked(r)
    BY DEF Superseded
<1>2. sealed \subseteq sealed' /\ \A q \in sealed : created'[q] = created[q] /\ dir'[q] = dir[q]
    BY SealedGrows, PublishedStays
<1>3. sealed' \subseteq Runs
    BY DEF StoreInv, TypeOK, Built
<1>4. r \in sealed' /\ Outranked(r)'
    BY <1>1, <1>2, <1>3, OutrankedStays
<1> QED
    BY <1>1, <1>2, <1>4 DEF Superseded

\* Backup runs go on beside a restore, and the operator copies what they have made.
LEMMA GivenBeside ==
    ASSUME AllInv, AllInv', AllGiven, [Next]_vars, UNCHANGED <<step, source, file, stored>>,
           UNCHANGED copy \/ \E c \in Copies : CopyBackup(c)
    PROVE  AllGiven'
<1> USE MarksAssumption, CopiesAssumption DEF AllInv, RestoreInv
<1> SUFFICES ASSUME NEW x \in Restorers PROVE Given(x)'
    BY DEF AllGiven
<1> DEFINE m == stored[x].manifest
           at == stored[x].at
<1>1. Given(x) /\ Sound(x)
    BY DEF AllGiven, Settled
<1>2. \A c \in Copies : copy[c].manifest # None \/ copy[c].dump # None => copy'[c] = copy[c]
    <2>1. \A c \in Copies : copy[c].dump # None => copy[c].manifest # None
        BY DEF Copied
    <2>2. ASSUME NEW c \in Copies, CopyBackup(c)
          PROVE  \A e \in Copies : copy[e].manifest # None => copy'[e] = copy[e]
        BY <2>2 DEF CopyBackup, RTypeOK
    <2> QED
        BY <2>1, <2>2
<1>3. \A q \in sealed : q \in Runs /\ dir'[q] = dir[q]
    BY PublishedStays DEF StoreInv, TypeOK, Built
<1>4. ASSUME at # None, ~file[x]
      PROVE  IF source[x] \in Copies THEN copy'[source[x]].manifest = m ELSE source[x] = dir'[m]
    <2>1. m \in sealed
        BY <1>1, <1>4 DEF Sound
    <2>2. m # None
        BY <1>3, <2>1
    <2>3. IF source[x] \in Copies THEN copy[source[x]].manifest = m ELSE source[x] = dir[m]
        BY <1>1, <1>4 DEF Given
    <2> QED
        BY <1>2, <1>3, <2>1, <2>2, <2>3
<1>5. ASSUME at # None, file[x] PROVE DumpIn(at)' # None \/ Superseded(x)'
    <2>1. CASE Superseded(x)
        BY <2>1, SupersededStays
    <2>2. CASE DumpIn(at) # None /\ at \in Copies
        BY <1>2, <2>2 DEF DumpIn
    <2>3. CASE DumpIn(at) # None /\ at \notin Copies /\ dump'[at] = None
        <3>1. at \in Dirs /\ dump[at] # None
            BY <1>5, <2>3 DEF DumpIn, RTypeOK
        <3>2. Superseded(x)
            BY <1>5, <2>3, <3>1, DumpGoes DEF Superseded
        <3> QED
            BY <3>2, SupersededStays
    <2>4. CASE at \notin Copies /\ dump'[at] # None
        BY <2>4 DEF DumpIn
    <2> QED
        BY <1>1, <1>5, <2>1, <2>2, <2>3, <2>4 DEF Given
<1> QED
    BY <1>1, <1>4, <1>5 DEF Given, Broken

\* A restore finds its source and gets past the verification.
LEMMA GivenResolved ==
    ASSUME AllInv, AllGiven, NEW x \in Restorers, Resolve(x)
    PROVE  AllGiven'
<1> USE MarksAssumption, CopiesAssumption DEF AllInv, RestoreInv
<1>1. PICK p \in Plans, d \in Sources(x), isFile \in BOOLEAN :
        LET m  == IF isFile THEN None ELSE ManifestIn(d)
            at == IF m \in Runs /\ RecordedDump(x, m) # None THEN dir[m] ELSE d
            found == DumpIn(at) # None
                     /\ (~isFile => m \in Runs /\ recorded[m] # None)
        IN  /\ plan' = [plan EXCEPT ![x] = p]
            /\ source' = [source EXCEPT ![x] = d]
            /\ file' = [file EXCEPT ![x] = isFile]
            /\ \E elsewhere \in BOOLEAN : relative' = [relative EXCEPT ![x] = elsewhere]
            /\ stored' = IF found
                         THEN [stored EXCEPT ![x] = [manifest |-> m, at |-> at]]
                         ELSE stored
            /\ Proceed(x, IF found THEN "verify" ELSE "refused")
    BY Zenon DEF Resolve
<1> DEFINE m  == IF isFile THEN None ELSE ManifestIn(d)
           at == IF m \in Runs /\ RecordedDump(x, m) # None THEN dir[m] ELSE d
           found == DumpIn(at) # None /\ (~isFile => m \in Runs /\ recorded[m] # None)
<1>2. /\ source' = [source EXCEPT ![x] = d]
      /\ file' = [file EXCEPT ![x] = isFile]
      /\ stored' = IF found THEN [stored EXCEPT ![x] = [manifest |-> m, at |-> at]] ELSE stored
      /\ step' = [step EXCEPT ![x] = IF found THEN "verify" ELSE "refused"]
    BY <1>1 DEF Proceed
<1>3. UNCHANGED <<vars, copy, dump, dir, sealed, created>> /\ step[x] = "idle"
    BY DEF Resolve, vars, store, runState
<1>4. stored[x].at = None
    BY <1>3 DEF Settled, Sound
<1>5. /\ d \in Dirs \cup Copies
      /\ m \in Runs => IF d \in Copies THEN copy[d].manifest = m ELSE d = dir[m]
    <2>1. d \in Dirs \cup Copies
        BY DEF Sources, StoreInv, TypeOK
    <2> QED
        BY <2>1 DEF ManifestIn, Exclusive, Published
<1>6. found => DumpIn(at) # None /\ (isFile \/ m \in Runs)
    OBVIOUS
<1> HIDE DEF m, at, found
<1>7. ASSUME NEW y \in Restorers, y # x PROVE Given(y)'
    <2>1. step'[y] = step[y] /\ source'[y] = source[y] /\ file'[y] = file[y] /\ stored'[y] = stored[y]
        BY <1>2, <1>7 DEF RTypeOK
    <2> QED
        BY <1>3, <2>1 DEF AllGiven, Given, Superseded, Outranked, DumpIn, Broken
<1>8. CASE found
    <2>1. /\ step'[x] = "verify" /\ source'[x] = d /\ file'[x] = isFile
          /\ stored'[x].manifest = m /\ stored'[x].at = at
        BY <1>2, <1>8 DEF RTypeOK
    <2>2. (DumpIn(stored[x].at))' # None
        BY <1>3, <1>6, <1>8, <2>1 DEF DumpIn
    <2>3. Given(x)'
        BY <1>3, <1>5, <1>6, <1>8, <2>1, <2>2 DEF Given, Broken, AtWork
    <2> QED
        BY <1>7, <2>3 DEF AllGiven
<1>9. CASE ~found
    <2>1. step'[x] = "refused" /\ stored'[x].at = None
        BY <1>2, <1>4, <1>9 DEF RTypeOK
    <2>2. Given(x)'
        BY <2>1 DEF Given, Broken, AtWork
    <2> QED
        BY <1>7, <2>2 DEF AllGiven
<1> QED
    BY <1>8, <1>9

\* The other steps of a restore: only Verify makes it go to work.
LEMMA GivenSteps ==
    ASSUME AllInv, AllGiven, NEW x \in Restorers,
           \/ Refuse(x) \/ Verify(x) \/ Reset(x) \/ Recreate(x)
           \/ Load(x) \/ EndLoad(x) \/ CommandFails(x) \/ Kill(x)
    PROVE  AllGiven'
<1> USE MarksAssumption DEF AllInv, RestoreInv, RTypeOK, Proceed
<1>1. UNCHANGED <<vars, copy, source, file, stored>>
    BY DEF Refuse, Verify, Reset, Recreate, Load, EndLoad, CommandFails, Kill
<1>2. \A y \in Restorers : y # x => step'[y] = step[y]
    BY DEF Refuse, Verify, Reset, Recreate, Load, EndLoad, CommandFails, Kill
<1>3. step'[x] \in AtWork \cup Broken => step[x] \in AtWork \/ (step[x] = "verify" /\ Verified(x))
    BY DEF Refuse, Verify, Reset, Recreate, Load, EndLoad, CommandFails, Kill, AtWork, Broken
<1>4. UNCHANGED <<dump, dir, sealed, created>>
    BY <1>1 DEF vars, store, runState
<1>5. step[x] = "verify" /\ Verified(x) => stored[x].at # None /\ (~file[x] => x \notin Away)
    BY DEF Verified, DirVerified, RecordedDump, Settled, Sound, Resolved
<1>6. ASSUME NEW y \in Restorers PROVE Given(y)'
    <2>1. step'[y] \in AtWork \cup Broken => stored[y].at # None /\ (~file[y] => y \notin Away)
        BY <1>2, <1>3, <1>5 DEF AllGiven, Given
    <2>2. DumpIn(stored[y].at)' = DumpIn(stored[y].at)
        BY <1>1, <1>4 DEF DumpIn
    <2>3. Superseded(y) => Superseded(y)'
        <3>1. \A r : Outranked(r)' = Outranked(r)
            BY ONLY <1>4 DEF Outranked
        <3> QED
            BY ONLY <1>1, <1>4, <3>1 DEF Superseded
    <2>4. Given(y)
        BY DEF AllGiven
    <2> QED
        BY ONLY <1>1, <1>4, <2>1, <2>2, <2>3, <2>4 DEF Given
<1> QED
    BY <1>6 DEF AllGiven

LEMMA GivenNext ==
    ASSUME AllInv, AllInv', AllGiven, [RNext]_allVars
    PROVE  AllGiven'
<1>1. [Next]_vars
    BY StoreSteps
<1>2. CASE UNCHANGED rvars \/ \E c \in Copies : CopyBackup(c)
    BY <1>1, <1>2, GivenBeside DEF rvars, CopyBackup
<1>3. ASSUME NEW x \in Restorers, RestoreStep(x) PROVE AllGiven'
    BY <1>3, GivenResolved, GivenSteps DEF RestoreStep
<1> QED
    BY <1>2, <1>3 DEF RNext, allVars

\* Unless it has been superseded, a backup is in place, and so the source passes again.
LEMMA GivenPasses ==
    ASSUME AllInv, NEW x \in Restorers, Given(x), step[x] \in AtWork \cup Broken
    PROVE  Verified(x) \/ Superseded(x)
<1> USE MarksAssumption, CopiesAssumption DEF AllInv, RestoreInv
<1> DEFINE m == stored[x].manifest
<1>1. CASE file[x]
    BY <1>1 DEF Given, Verified, FileVerified
<1>2. CASE ~file[x]
    <2>1. m \in sealed /\ m \in Runs /\ recorded[m] = m /\ x \notin Away
        BY <1>2 DEF Given, Settled, Sound, StoreInv, TypeOK, Built
    <2>2. IF source[x] \in Copies THEN copy[source[x]].manifest = m ELSE source[x] = dir[m]
        BY <1>2 DEF Given
    <2>3. CASE Outranked(m)
        BY <1>2, <2>1, <2>3 DEF Superseded
    <2>4. CASE ~Outranked(m)
        <3>1. manifest[dir[m]] = m /\ dump[dir[m]] = m
            BY <2>1, <2>4 DEF Exclusive, NewestInPlace
        <3>2. ManifestIn(source[x]) = m
            BY <2>2, <3>1 DEF ManifestIn
        <3>3. RecordedDump(x, m) = recorded[m] /\ recorded[m] # None
            BY <2>1, <3>1 DEF RecordedDump
        <3> QED
            BY <1>2, <2>1, <3>2, <3>3 DEF Verified, DirVerified
    <2> QED
        BY <2>3, <2>4
<1> QED
    BY <1>1, <1>2

\* Beside any number of backup runs, and of other restores, a restore that is past its
\* verification finds what it was given as it verified it, wherever it fails or is killed,
\* until `keep` newer backups have been published.
THEOREM Repeatable ==
    ASSUME ~SharedDirs
    PROVE  RSpec => []StaysRepeatable
<1>1. RInit => AllGiven
    BY DEF RInit, AllGiven, Given, AtWork, Broken
<1>2. AllInv /\ [RNext]_allVars => AllInv'
    BY AllInvNext
<1>3. AllInv /\ AllInv' /\ AllGiven /\ [RNext]_allVars => AllGiven'
    BY GivenNext
<1>4. AllInv /\ AllGiven => StaysRepeatable
    <2>1. ASSUME AllInv, AllGiven, NEW x \in Restorers, step[x] \in AtWork \cup Broken
          PROVE  Verified(x) \/ Superseded(x)
        BY <2>1, GivenPasses DEF AllGiven
    <2> QED
        BY <2>1 DEF StaysRepeatable, Superseded, Broken
<1> QED
    BY <1>1, <1>2, <1>3, <1>4, AllInvInit, PTL DEF RSpec
-------------------------------------------------------------------------------------
(* A restore implements LocalDatabase.                                               *)

LEMMA PromiseChoose ==
    ASSUME Chosen = None, Chosen' \in Runs, UNCHANGED database PROVE Promise!Next
    BY DEF Promise!Next, Promise!Choose

LEMMA PromiseReplace ==
    ASSUME Chosen \in Runs, UNCHANGED Chosen, database' \subseteq database \cup {Chosen}
    PROVE  Promise!Next
<1>1. Promise!Replace(LocalEngine)
    <2>1. [l \in {LocalEngine} |-> database'] =
            [[l \in {LocalEngine} |-> database] EXCEPT ![LocalEngine] = database']
        OBVIOUS
    <2> QED
        BY <2>1 DEF Promise!Replace
<1> QED
    BY <1>1 DEF Promise!Next

LEMMA PromiseLeave ==
    ASSUME Chosen # None, Chosen' = None, UNCHANGED database PROVE Promise!Next
    BY DEF Promise!Next, Promise!Leave

\* With one restore, what is chosen is what that restore has picked.
LEMMA ChosenIs ==
    ASSUME OneRestorer, NEW x \in Restorers
    PROVE  /\ Chosen = IF step[x] \in AtWork THEN Picked(x) ELSE None
           /\ Chosen' = IF step'[x] \in AtWork THEN Picked(x)' ELSE None
<1>1. \A S : x \in S /\ S \subseteq Restorers => (CHOOSE y \in S : TRUE) = x
    BY DEF OneRestorer
<1>2. {y \in Restorers : step[y] \in AtWork} = IF step[x] \in AtWork THEN {x} ELSE {}
    BY DEF OneRestorer
<1>3. {y \in Restorers : step'[y] \in AtWork} = IF step'[x] \in AtWork THEN {x} ELSE {}
    BY DEF OneRestorer
<1> QED
    BY <1>1, <1>2, <1>3 DEF Chosen, AtWork

\* What a restore at work has picked stays the same while backup runs write and prune, and
\* while the operator copies backups.
LEMMA PickedStays ==
    ASSUME AllInv, AllInv', [RNext]_allVars, NEW x \in Restorers, step[x] \in AtWork,
           UNCHANGED <<step, file, stored>>,
           UNCHANGED copy \/ \E c \in Copies : CopyBackup(c)
    PROVE  Picked(x)' = Picked(x)
<1> USE MarksAssumption, CopiesAssumption DEF AllInv, RestoreInv
<1> DEFINE m == stored[x].manifest
           at == stored[x].at
<1>1. Sound(x) /\ at # None /\ (at \in Copies \/ at \in Dirs)
    BY DEF Settled, Sound, Resolved, RTypeOK
<1>2. /\ \A q \in sealed : recorded'[q] = recorded[q]
      /\ \A q \in Runs : dir[q] # None => dir'[q] = dir[q]
    BY StoreSteps, PublishedStays
<1>3. CASE ~file[x]
    BY <1>1, <1>2, <1>3 DEF Picked, Sound
<1>4. CASE file[x] /\ at \in Copies
    <2>1. copy[at].dump # None
        BY <1>1, <1>4 DEF Sound
    <2>2. \A c \in Copies : CopyBackup(c) => c # at
        BY <1>4, <2>1 DEF CopyBackup, Copied
    <2>3. copy'[at] = copy[at]
        BY <1>4, <2>2 DEF CopyBackup, RTypeOK
    <2> QED
        BY <1>4, <2>3 DEF Picked
<1>5. CASE file[x] /\ at \in Dirs
    <2>1. PICK r \in Runs : dir[r] = at
        BY <1>1, <1>5 DEF Sound, UsedDirs
    <2>2. dir'[r] = at
        BY <1>1, <1>2, <2>1
    <2>3. (CHOOSE q \in Runs : dir[q] = at) = r
        BY <1>1, <2>1, OwnerOf DEF Exclusive
    <2>4. (CHOOSE q \in Runs : dir'[q] = stored'[x].at) = r
        BY <1>1, <2>2 DEF Exclusive, OwnDirs
    <2>5. at \notin Copies /\ stored'[x].at \notin Copies
        BY <1>5
    <2>6. Picked(x) = r
        BY <1>5, <2>3, <2>5 DEF Picked
    <2>7. Picked(x)' = r
        BY <1>5, <2>4, <2>5 DEF Picked
    <2> QED
        BY <2>6, <2>7
<1> QED
    BY <1>1, <1>3, <1>4, <1>5

\* The steps of the restore itself.
LEMMA RestorerKeepsPromise ==
    ASSUME OneRestorer, AllInv, AllInv', NEW x \in Restorers, RestoreStep(x)
    PROVE  Promise!Next \/ UNCHANGED <<Chosen, database>>
<1> USE MarksAssumption DEF AllInv, RestoreInv, Proceed
<1>1. /\ Chosen = IF step[x] \in AtWork THEN Picked(x) ELSE None
      /\ Chosen' = IF step'[x] \in AtWork THEN Picked(x)' ELSE None
    BY ChosenIs
<1>2. step[x] \in AtWork => Picked(x) \in Runs /\ DumpIn(stored[x].at) \in {None, Picked(x)}
    BY PickedIsDump DEF Settled, Sound, Resolved
<1>4. CASE Refuse(x) \/ Resolve(x)
    BY <1>1, <1>4 DEF Refuse, Resolve, AtWork, RTypeOK
<1>5. CASE Verify(x)
    <2>1. step[x] \notin AtWork /\ database' = database
        BY <1>5 DEF Verify, AtWork
    <2>2. step'[x] \in AtWork => (~file[x] => EngineOf[stored[x].manifest] = LocalEngine)
        BY <1>5 DEF Verify, EngineFits, AtWork, RTypeOK
    <2>3. step'[x] \in AtWork => Picked(x) \in Runs
        BY <1>5, <2>2, PickedIsDump DEF Verify, Resolved
    <2>4. Picked(x)' = Picked(x)
        BY <1>5 DEF Verify, Picked, vars, runState
    <2> QED
        BY <1>1, <2>1, <2>3, <2>4, PromiseChoose
<1>6. CASE Reset(x) \/ Recreate(x)
    <2>1. step[x] \in AtWork /\ step'[x] \in AtWork /\ database' \in {{}, database}
        BY <1>6 DEF Reset, Recreate, AtWork, RTypeOK
    <2>2. UNCHANGED <<vars, copy, file, stored>>
        BY <1>6 DEF Reset, Recreate
    <2>3. Picked(x)' = Picked(x)
        BY <2>2 DEF Picked, vars, runState
    <2> QED
        BY <1>1, <1>2, <2>1, <2>3, PromiseReplace
<1>7. CASE Load(x)
    <2>1. CASE step'[x] = "loaded"
        <3>1. step[x] \in AtWork /\ step'[x] \in AtWork
            BY <1>7, <2>1 DEF Load, AtWork
        <3>2. Picked(x)' = Picked(x)
            BY <1>7 DEF Load, Picked, vars, runState
        <3>3. database' = database \cup {DumpIn(stored[x].at)} /\ DumpIn(stored[x].at) # None
            BY <1>7, <2>1 DEF Load, Loads, RTypeOK
        <3> QED
            BY <1>1, <1>2, <3>1, <3>2, <3>3, PromiseReplace
    <2>2. CASE step'[x] # "loaded"
        <3>1. step[x] \in AtWork /\ step'[x] \notin AtWork /\ database' = database
            BY <1>7, <2>2 DEF Load, AtWork, RTypeOK
        <3> QED
            BY <1>1, <1>2, <3>1, PromiseLeave
    <2> QED
        BY <2>1, <2>2
<1>8. CASE EndLoad(x) \/ CommandFails(x) \/ Kill(x)
    <2>1. step'[x] \notin AtWork /\ database' = database
        BY <1>8 DEF EndLoad, CommandFails, Kill, AtWork, RTypeOK
    <2> QED
        BY <1>1, <1>2, <2>1, PromiseLeave
<1> QED
    BY <1>4, <1>5, <1>6, <1>7, <1>8 DEF RestoreStep

\* One restore keeps the promise of LocalDatabase, beside any number of backup runs: the
\* data go only for a dump that was whole and of this engine when it was verified, and
\* nothing but that dump comes in.
THEOREM RestoreRefinement ==
    ASSUME ~SharedDirs, OneRestorer
    PROVE  RSpec => ImplementsLocalDatabase
<1>1. RInit => Promise!Init
    BY DEF RInit, Promise!Init, Chosen, AtWork
<1>2. AllInv /\ AllInv' /\ [RNext]_allVars =>
        [Promise!Next]_<<[l \in {LocalEngine} |-> database], [l \in {LocalEngine} |-> Chosen]>>
    <2> SUFFICES ASSUME AllInv, AllInv', [RNext]_allVars
                 PROVE  Promise!Next \/ UNCHANGED <<Chosen, database>>
        OBVIOUS
    <2>1. CASE UNCHANGED rvars \/ \E c \in Copies : CopyBackup(c)
        <3>1. UNCHANGED <<step, file, stored, database>>
            BY <2>1 DEF rvars, CopyBackup
        <3>2. UNCHANGED copy \/ \E c \in Copies : CopyBackup(c)
            BY <2>1 DEF rvars
        <3>3. ASSUME NEW x \in Restorers PROVE Chosen' = Chosen
            BY <3>1, <3>2, <3>3, ChosenIs, PickedStays
        <3>4. ASSUME Restorers = {} PROVE Chosen' = Chosen
            BY <3>4 DEF Chosen
        <3> QED
            BY <3>1, <3>3, <3>4
    <2>2. ASSUME NEW x \in Restorers, RestoreStep(x)
          PROVE  Promise!Next \/ UNCHANGED <<Chosen, database>>
        BY <2>2, RestorerKeepsPromise
    <2> QED
        BY <2>1, <2>2 DEF RNext, allVars
<1>3. AllInv /\ [RNext]_allVars => AllInv'
    BY AllInvNext
<1> QED
    BY <1>1, <1>2, <1>3, AllInvInit, PTL DEF RSpec, ImplementsLocalDatabase, Promise!Spec
=====================================================================================
