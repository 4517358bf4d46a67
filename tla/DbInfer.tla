---------------------------------- MODULE DbInfer ----------------------------------
(***********************************************************************************)
(* Which database a run works on, for one side of it: build_state, resolve_remote_db  *)
(* and resolve_local_db in src/src/dsl.rs, infer_db in src/src/compose.rs.  A chain of *)
(* reads, most of which may fail without a word, ends in a guess at the engine, the    *)
(* Compose service and the name of the database.  `cloner restore`, `cloner db` and    *)
(* `cloner k8s` work on the local side too, without a run (load_local_context).        *)
(*                                                                                   *)
(* A value of an environment is the name of the source it was written in.  Of the      *)
(* variables of an engine there is the one that names its database; user, password,   *)
(* host and port are picked from the same environment in the same way.                *)
(***********************************************************************************)
EXTENDS Integers, Sequences, FiniteSets, SequencesExt

CONSTANTS
    Order,        \* engines, in the order in which engine_from_env tries them
    Names,        \* services in the Compose file, in the order of a BTreeMap
    WellKnown,    \* those among them with a name such as `db` or `postgres`
    Descriptions, \* what the file may say of a service: [image, env, files]
    Targets,      \* which of "host", "compose", "kubernetes" occur
    Gone,         \* a service that an operator names and the file has not
    None

Engines  == ToSet(Order)
Services == ToSet(Names)

\* POSTGRES_DB, MYSQL_DATABASE, MONGO_INITDB_DATABASE; and DB_NAME.
Generic == "DB_NAME"
Keys    == Engines \cup {Generic}

\* The values of a service: literal text; ${DB_NAME}, ${DB_NAME:-text} and ${DB_NAME:?};
\* and a name without a value in an environment list.
Expressions == {"unset", "text", "ref", "default", "required", "inherit"}

ASSUME OrderAssumption == Order \in Seq(Engines) /\ Generic \notin Engines
ASSUME DescriptionAssumption ==
    Descriptions \subseteq [image : Engines \cup {"other"}, env : [Keys -> Expressions],
                            files : SUBSET Keys]
ASSUME NamesAssumption   == Names \in Seq(Services) /\ IsInjective(Names) /\ WellKnown \subseteq Services
ASSUME MarksAssumption   == Gone \notin Services /\ None \notin Services \cup {Gone} \cup Engines
ASSUME TargetsAssumption == Targets \subseteq {"host", "compose", "kubernetes"}

VARIABLES
    side,       \* "remote" or "local" of a run, or the local one of a "command"
    config,     \* what dl.js says
    envFile,    \* the .env file of the side
    podEnv,     \* the environment of its pod
    services,   \* its Compose file
    pc,         \* control state
    env,        \* app_env
    compose,    \* has the Compose file been read?
    asked,      \* the service whose env_file files have been read
    fileEnv,    \* what was in them
    pod,        \* is the name of the pod known?
    result      \* ResolvedDb

world == <<side, config, envFile, podEnv, services>>
vars  == <<world, pc, env, compose, asked, fileEnv, pod, result>>

Unset   == "unset"
Empty   == ""
Raw     == "raw"       \* the text of an expression that could not be expanded
Blank   == [k \in Keys |-> Unset]
Nothing == [engine |-> None, service |-> None, key |-> None, name |-> Unset]

\* BTreeMap::extend
Extend(old, new) == [k \in Keys |-> IF new[k] = Unset THEN old[k] ELSE new[k]]

Init ==
    /\ side \in {"remote", "local", "command"}
    /\ config \in [target : Targets, engine : Engines \cup {None}, database : BOOLEAN,
                   service : {None, Gone} \cup WellKnown, composeService : {None} \cup Services,
                   pod : BOOLEAN]
    /\ envFile \in {e \in [Keys -> {Unset, Empty, "env"}] : \A k \in Engines : e[k] # Empty}
    /\ podEnv \in [Keys -> {Unset, "pod"}]
    /\ services \in [Services -> Descriptions]
    /\ pc = "env"
    /\ env = Blank
    /\ compose = FALSE
    /\ asked = None
    /\ fileEnv = Blank
    /\ pod = config.pod
    /\ result = Nothing

\* Option::or and or_else, one after the other.
First(options) == LET at == SelectInSeq(options, LAMBDA x : x # None) IN
                  IF at = 0 THEN None ELSE options[at]
-------------------------------------------------------------------------------------
(* Services and engines.                                                             *)

\* resolve: database.remoteService or localService, else database.service; both stand
\* before the service of the side's `compose`.
Configured == First(<<config.service, config.composeService>>)

\* interpolate and expand_expr, as parse_compose_services uses them: an expression in
\* error stays as it is written.
Expand(k, expression) ==
    LET known == env[Generic] \notin {Unset, Empty} IN
    CASE expression = "unset"    -> Unset
      [] expression = "text"     -> "service"
      [] expression = "ref"      -> IF env[Generic] = Unset THEN Empty ELSE env[Generic]
      [] expression = "default"  -> IF known THEN env[Generic] ELSE "service"
      [] expression = "required" -> IF known THEN env[Generic] ELSE Raw
      [] expression = "inherit"  -> env[k]

ServiceEnv(s) == [k \in Keys |-> Expand(k, services[s].env[k])]

Max2(a, b) == IF a > b THEN a ELSE b

Bonus(applies) == IF applies THEN 20 ELSE 0

\* Mutant: no bonus for a service whose environment has the variables of the engine.
Score_noBonusForKeys(s, hint) ==
    LET image == services[s].image
        keys  == {e \in Engines : ServiceEnv(s)[e] # Unset}
        score == IF image \in Engines THEN 100 + Bonus(image = hint) ELSE 0
    IN  Max2(IF keys = {} THEN score ELSE Max2(score, 90),
             IF s \in WellKnown THEN 60 ELSE 0)

Score(s, hint) ==
    LET image  == services[s].image
        keys   == {e \in Engines : ServiceEnv(s)[e] # Unset}
        score  == IF image \in Engines THEN 100 + Bonus(image = hint) ELSE 0
        scored == IF keys = {} THEN score ELSE Max2(score, 90) + Bonus(hint \in keys)
    IN  Max2(scored, IF s \in WellKnown THEN 60 ELSE 0)

\* detect_service: the first of those with the highest score.
Detect(hint) ==
    LET ahead(i) == \A j \in 1 .. Len(Names) :
                        LET a == Score(Names[i], hint)
                            b == Score(Names[j], hint) IN a > b \/ (a = b /\ i <= j)
        best == {i \in 1 .. Len(Names) : ahead(i) /\ Score(Names[i], hint) > 0}
    IN  IF best = {} THEN None ELSE Names[CHOOSE i \in best : TRUE]

EngineFromEnv(e) ==
    First([i \in 1 .. Len(Order) |-> IF e[Order[i]] # Unset THEN Order[i] ELSE None])

Hint == First(<<config.engine, EngineFromEnv(env)>>)

\* Without an engine so far, the service's environment and then its image decide.
EngineOf(service) ==
    First(IF service = None THEN <<Hint>>
          ELSE <<Hint, EngineFromEnv(ServiceEnv(service)),
                 IF services[service].image \in Engines THEN services[service].image ELSE None>>)
-------------------------------------------------------------------------------------
(* The reads.                                                                        *)

\* A file that cannot be read is one that is empty.  load_local_context reads no pod.
ReadEnv ==
    /\ pc = "env"
    /\ env' \in {envFile, Blank}
    /\ pc' = CASE config.target = "kubernetes" /\ side # "command" -> "pod"
               [] config.target = "compose"                         -> "compose"
               [] OTHER                                             -> "infer"
    /\ UNCHANGED <<world, compose, asked, fileEnv, pod, result>>

\* resolve_pod, which may find none for a selector, and read_pod_env, which does not look
\* at the exit code of `env`.
ReadPod ==
    /\ pc = "pod"
    /\ \/ /\ pc' = "infer" /\ pod' = TRUE
          /\ \E read \in {podEnv, Blank} : env' = Extend(env, read)
       \/ pc' = "failed" /\ UNCHANGED <<env, pod>>
    /\ UNCHANGED <<world, compose, asked, fileEnv, result>>

\* A Compose file that is missing is an error on the remote side only; one that does not
\* parse is an error on both.
ReadCompose ==
    /\ pc = "compose"
    /\ \/ pc' = "files" /\ compose' = TRUE
       \/ pc' = "infer" /\ side # "remote" /\ UNCHANGED compose
       \/ pc' = "failed" /\ UNCHANGED compose
    /\ UNCHANGED <<world, env, asked, fileEnv, pod, result>>

\* Mutant: the service is detected without regard to database.engine.
ReadServiceFiles_anyEngine ==
    /\ pc = "files"
    /\ asked' = IF Configured # None THEN Configured ELSE Detect(None)
    /\ fileEnv' \in {Blank} \cup
            IF asked' \in Services
            THEN {[k \in Keys |-> IF k \in services[asked'].files THEN "files" ELSE Unset]} ELSE {}
    /\ pc' = "infer"
    /\ UNCHANGED <<world, env, compose, pod, result>>

\* The env_file files of the service: the engine that the .env file tells of is not asked.
ReadServiceFiles ==
    /\ pc = "files"
    /\ asked' = IF Configured # None THEN Configured ELSE Detect(config.engine)
    /\ fileEnv' \in {Blank} \cup
            IF asked' \in Services
            THEN {[k \in Keys |-> IF k \in services[asked'].files THEN "files" ELSE Unset]} ELSE {}
    /\ pc' = "infer"
    /\ UNCHANGED <<world, env, compose, pod, result>>
-------------------------------------------------------------------------------------
(* infer_db.                                                                         *)

\* Mutant: the service's environment is put in before the .env file.
Merged_envLast(service) ==
    Extend(Extend(fileEnv, IF service = None \/ ~compose THEN Blank ELSE ServiceEnv(service)), env)

Merged(service) ==
    Extend(Extend(fileEnv, env), IF service = None \/ ~compose THEN Blank ELSE ServiceEnv(service))

\* Mutant: without `!value.is_empty()`.
PickKey_takesEmpty(engine, merged) ==
    First(<<IF merged[engine] # Unset THEN engine ELSE None,
            IF merged[Generic] # Unset THEN Generic ELSE None>>)

\* pick: the first variable that is set and not empty.
PickKey(engine, merged) ==
    First(<<IF merged[engine] \notin {Unset, Empty} THEN engine ELSE None,
            IF merged[Generic] \notin {Unset, Empty} THEN Generic ELSE None>>)

Infer ==
    /\ pc = "infer"
    /\ LET hosted  == config.target = "compose"
           service == IF ~hosted THEN None
                      ELSE IF Configured # None \/ ~compose THEN Configured ELSE Detect(Hint)
           found   == service \in Services \/ service = None \/ ~compose
           engine  == EngineOf(IF compose THEN service ELSE None)
           key     == IF engine = None \/ config.database THEN None
                      ELSE PickKey(engine, Merged(service))
       IN  IF found /\ engine # None /\ (config.database \/ key # None)
           THEN /\ pc' = "done"
                /\ result' = [engine |-> engine, service |-> service, key |-> key,
                              name |-> IF key = None THEN "explicit" ELSE Merged(service)[key]]
           ELSE pc' = "failed" /\ UNCHANGED result
    /\ UNCHANGED <<world, env, compose, asked, fileEnv, pod>>

\* CommandTarget::wrap, around every command for the database: Compose needs the service,
\* kubectl the name of the pod.
Wrap ==
    /\ pc = "done"
    /\ pc' = IF \/ config.target = "compose" /\ result.service = None
                \/ config.target = "kubernetes" /\ ~pod
             THEN "refused" ELSE "wrapped"
    /\ UNCHANGED <<world, env, compose, asked, fileEnv, pod, result>>

Next == ReadEnv \/ ReadPod \/ ReadCompose \/ ReadServiceFiles \/ Infer \/ Wrap

Spec == Init /\ [][Next]_vars
-------------------------------------------------------------------------------------
Resolved == {"done", "wrapped", "refused"}

TypeOK ==
    /\ pc \in {"env", "pod", "compose", "files", "infer", "failed"} \cup Resolved
    /\ pod \in BOOLEAN
    /\ env \in [Keys -> {Unset, Empty, "env", "pod"}]
    /\ config.target # "kubernetes" => \A k \in Keys : env[k] # "pod"
    /\ asked \in Services \cup {Gone, None}
    /\ fileEnv \in [Keys -> {Unset, "files"}]
    /\ result.engine \in Engines \cup {None}
    /\ result.service \in Services \cup {Gone, None}
    /\ result.key \in Keys \cup {None}
    /\ result.name \in {Unset, Raw, "env", "pod", "service", "files", "explicit"}
    /\ pc \in Resolved <=> result.engine # None
    /\ pc = "refused" /\ config.target = "kubernetes" => side = "command"
    /\ asked # None => compose

\* The image or the environment of a service tells of the engine.
Shows(s, engine) == services[s].image = engine \/ ServiceEnv(s)[engine] # Unset

Detected == pc \in Resolved /\ compose /\ Configured = None

\* The commands of an engine are never sent into the container of another one while the
\* project has a service that shows this engine (dsl.md:197), however much else the
\* services there show and wherever the engine was learnt from.
EngineFitsService ==
    Detected /\ (\E s \in Services : Shows(s, result.engine)) =>
        result.service # None /\ Shows(result.service, result.engine)

\* The env_file files are those of the service that the database is in (dsl.md:188), not
\* of a cache or an application beside it; unless only the .env file tells of the engine,
\* which infer_db looks at (dsl.rs:823) and the search for the files does not (dsl.rs:808).
FilesOfTheService ==
    Detected /\ (config.engine # None \/ Hint = None) => asked = result.service

\* What the environment of the selected service says of its own database decides, whatever
\* the .env file and the env_file files say (dsl.md:187): the name that the server was
\* created with is the one that is dumped, dropped and restored.
ServiceDecides ==
    pc \in Resolved /\ compose /\ ~config.database /\ result.service # None =>
        LET said == ServiceEnv(result.service)[result.engine] IN
        said \notin {Unset, Empty} => result.name = said

=====================================================================================
