--------------------------------- MODULE MCDbInfer ----------------------------------
(* Small instances of DbInfer: two services, one of them called `db`, and two engines, *)
(* of which one has its variables in the services.                                    *)
EXTENDS DbInfer

CONSTANTS cache, db, postgres, mysql

InOrder  == <<postgres, mysql>>
TwoNames == <<cache, db>>

\* Either one variable in the service, in one of the ways to write it, or none.
Says(k, expression) == [Blank EXCEPT ![k] = expression]
Environments == {Blank} \cup {Says(k, expression) : k \in {postgres, Generic},
                                                 expression \in {"text", "ref", "inherit"}}
                        \cup {Says(mysql, "required"), Says(postgres, "default")}
Few == [image : {postgres, mysql, "other"}, env : Environments, files : {{}, {postgres}}]

\* Of the operator's choices: no service, one that is missing, one of them after another.
Selections == {<<None, None>>, <<None, cache>>, <<db, cache>>, <<Gone, None>>}
Configs == {[target |-> t, engine |-> e, database |-> d, service |-> c[1], composeService |-> c[2],
             pod |-> n] :
               t \in Targets, e \in Engines \cup {None}, d \in BOOLEAN, c \in Selections, n \in BOOLEAN}

\* The service `cache` has an engine of its own or none, and variables in common with `db`.
Plain  == [image |-> "other", env |-> Blank, files |-> {}]
Caches == [image : {mysql, "other"}, files : {{}},
           env : {Blank, Says(postgres, "inherit"), Says(postgres, "text")}]

\* What the side does not have, or does not need, is not varied.
MCInit ==
    /\ config \in {c \in Configs : c.target # "compose" \/ c.database =>
                                    <<c.service, c.composeService>> = <<None, None>>}
    /\ config.target # "kubernetes" => ~config.pod
    /\ services \in IF config.target = "compose"
                    THEN {[s \in Services |-> IF s = cache THEN c ELSE d] : c \in Caches, d \in Few}
                    ELSE {[s \in Services |-> Plain]}
    /\ Init
    /\ config.target # "kubernetes" => podEnv = Blank
MCSpec == MCInit /\ [][Next]_vars
====================================================================================
