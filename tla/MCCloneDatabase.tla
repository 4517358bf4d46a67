------------------------------ MODULE MCCloneDatabase ------------------------------
(* Small instances of CloneDatabase.  The dumps differ in length, so that the rest of  *)
(* a longer file would show.                                                           *)
EXTENDS CloneDatabase

CONSTANTS r1, r2, r3, home, away, tmp_dump

Sizes     == [r \in Runs |-> IF r = r1 THEN 2 ELSE 1]
OneServer == [r \in Runs |-> tmp_dump]
OneMachine  == [r \in Runs |-> home]
TwoMachines == [r \in Runs |-> IF r = r1 THEN home ELSE away]

\* Each engine in each reset mode; beside them a Mongo database that is renamed, two
\* sides of different engines, and a Compose project whose service is not known.
OneEngine == {p \in Project : p.remote = p.local /\ p.serviced
                              /\ (p.renamed => p.local = "mongo" /\ p.reset = "drop-create")}
TwoEngines == {p \in Project : p.remote = "mysql" /\ p.local = "postgres" /\ p.serviced
                               /\ ~p.renamed /\ p.reset # "none"}
NoService == {p \in Project : p.remote = "postgres" /\ p.local = "postgres"
                              /\ ~p.serviced /\ ~p.renamed}
AllProjects == OneEngine \cup TwoEngines \cup NoService

PostgresResets == {p \in OneEngine : p.local = "postgres" /\ p.reset # "none"}
=====================================================================================
