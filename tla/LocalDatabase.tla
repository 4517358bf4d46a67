-------------------------------- MODULE LocalDatabase --------------------------------
(***********************************************************************************)
(* What `cloner run` and `cloner restore` promise the owner of a local database: its *)
(* data stay as they are until one dump has been chosen that is whole and what it     *)
(* claims to be; from then on data may go, and nothing but that dump comes in.  A     *)
(* command that stops leaves what it has reached, and the next one starts from there. *)
(*                                                                                   *)
(* CloneDatabase and BackupRestore are shown to implement this.                       *)
(***********************************************************************************)
CONSTANTS
    Databases,  \* local databases
    Dumps,      \* dumps that are whole; neither Own nor None is one
    Own,        \* the data of the owner
    None        \* no dump has been chosen

VARIABLES
    content,    \* content[l]: the dumps (or Own) that data in database l come from
    chosen      \* chosen[l]: the dump that the command at work on it has chosen

Init ==
    /\ content = [l \in Databases |-> {Own}]
    /\ chosen = [l \in Databases |-> None]

Choose(l) ==
    /\ chosen[l] = None
    /\ \E d \in Dumps : chosen' = [chosen EXCEPT ![l] = d]
    /\ UNCHANGED content

\* Tables are dropped, a volume is removed, a part of the chosen dump is loaded.
Replace(l) ==
    /\ chosen[l] \in Dumps
    /\ \E data \in SUBSET (content[l] \cup {chosen[l]}) :
        content' = [content EXCEPT ![l] = data]
    /\ UNCHANGED chosen

\* The command ends, well or not.
Leave(l) ==
    /\ chosen[l] # None
    /\ chosen' = [chosen EXCEPT ![l] = None]
    /\ UNCHANGED content

Next == \E l \in Databases : Choose(l) \/ Replace(l) \/ Leave(l)

Spec == Init /\ [][Next]_<<content, chosen>>
=====================================================================================
