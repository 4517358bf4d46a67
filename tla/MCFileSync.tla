--------------------------------- MODULE MCFileSync ---------------------------------
(* Small instances of FileSync: a file or link beside a directory with one file, and a *)
(* file that the patterns filter.                                                     *)
EXTENDS FileSync

CONSTANTS photo, dir, nested, cache

Parents == [p \in Paths |-> IF p = nested THEN dir ELSE Root]
Kinds   == [p \in Paths |-> IF p = dir THEN {"dir", "file"}
                            ELSE IF p = photo THEN {"file", "link"} ELSE {"file"}]
\* Contents 1, 3, ... have one length and 2, 4, ... the other.
Lengths == [c \in 1 .. MaxWrites |-> 1 + (c % 2)]

\* The filtered file is on the local machine from the first.
MCInit == Init /\ (cache \in Paths => local[cache].kind = "file")
MCSpec == MCInit /\ [][Next]_vars
====================================================================================
