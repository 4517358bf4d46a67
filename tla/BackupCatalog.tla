------------------------------- MODULE BackupCatalog -------------------------------
(***********************************************************************************)
(* What the backup store promises its user, without directories, manifests or       *)
(* pruning passes: a backup, once published, stays available and unchanged until     *)
(* retention expires it, and retention expires a backup only when at least Keep      *)
(* others that are at least as new have been published (docs/guides/dsl.md:273,      *)
(* "keep the 7 newest timestamped backup directories").                              *)
(***********************************************************************************)
EXTENDS Integers, FiniteSets

CONSTANTS
    Runs,       \* the backup runs, each of which publishes at most one backup
    Keep        \* backup.keep; 0 when it is not set

VARIABLES
    stamp,      \* stamp[r]: the creation time in the manifest of r, 0 before it has one
    published,  \* runs whose manifest has reached the disk
    available   \* published backups that a restore can still use

vars == <<stamp, published, available>>

Outranked(r) ==
    Cardinality({q \in published \ {r} : stamp[q] >= stamp[r]}) >= Keep

Init ==
    /\ stamp = [r \in Runs |-> 0]
    /\ published = {}
    /\ available = {}

Publish(r) ==
    /\ r \in Runs \ published
    /\ stamp'[r] \in Nat
    /\ stamp' = [stamp EXCEPT ![r] = stamp'[r]]
    /\ published' = published \cup {r}
    /\ available' = available \cup {r}

Expire(r) ==
    /\ r \in available
    /\ Keep > 0
    /\ Outranked(r)
    /\ available' = available \ {r}
    /\ UNCHANGED <<stamp, published>>

Next == \E r \in Runs : Publish(r) \/ Expire(r)

Spec == Init /\ [][Next]_vars
=====================================================================================
