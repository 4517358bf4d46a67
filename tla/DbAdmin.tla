---------------------------------- MODULE DbAdmin ----------------------------------
(***********************************************************************************)
(* `cloner db create | reset | drop | migrate` (src/src/admin.rs, and admin_options   *)
(* of src/src/main.rs) on one database server.  A command is a sequence of            *)
(* statements, each atomic on the server, none in a transaction with the next: two    *)
(* commands interleave, an existence check is stale when it is used, and a command    *)
(* may stop between any two statements.  The server may be a Compose service, which   *)
(* all commands but migrate start, and wait for, before anything else.               *)
(*                                                                                   *)
(* What a statement does to roles and databases is modelled, its text is not.         *)
(* --migrate stands for --seed too, and --hstore for --postgis.                       *)
(***********************************************************************************)
EXTENDS Integers, FiniteSets

CONSTANTS
    Commands,    \* invocations of `cloner db`; each runs once
    Engines,     \* which of "postgres", "mysql" and "mongo" occur
    Databases,   \* names that an operator gives, system databases among them
    System,      \* the system databases of a PostgreSQL server
    Owners,      \* role names
    Passwords,   \* passwords given with --set-password
    Actions,     \* which of "create", "reset", "drop", "migrate" occur
    Composed,    \* whether the server is a Compose service
    Pings,       \* how often its readiness is asked (60)
    Switches,    \* which of --no-drop, --no-create, --migrate, --hstore, --dry-run
    None

ASSUME EngineAssumption  == Engines \subseteq {"postgres", "mysql", "mongo"}
ASSUME SystemAssumption  == System \subseteq Databases
ASSUME ActionsAssumption == Actions \subseteq {"create", "reset", "drop", "migrate"}
ASSUME StartAssumption   == Composed \in BOOLEAN /\ Pings \in Nat \ {0}

VARIABLES
    engine,      \* the engine of the server
    password,    \* password[r]: None when there is no role r
    there,       \* databases that exist
    schema,      \* databases that have their schema (public, in PostgreSQL)
    rows,        \* rows[d]: "none", "old" data, or "new" data of a migration
    grants,      \* grants[d]: the owners that may use d
    hstore,      \* databases with the extension
    cmd,         \* options of each command
    pc,          \* its next statement
    up,          \* the server: "down", "up" (started) or "ready"
    pings,       \* how often a command has asked whether it is ready
    alone        \* history: commands that no other one has overlapped

server == <<password, there, schema, rows, grants, hstore>>
starting == <<up, pings>>
vars   == <<engine, server, cmd, pc, starting, alone>>

\* A role belongs to the server, in MongoDB to a database.
Roles == (IF engine = "mongo" THEN Databases ELSE {None}) \X Owners

\* The switches that an action looks at.
Reads(action) ==
    CASE action = "create" -> {"migrate", "hstore", "dry-run"}
      [] action = "reset"  -> {"no-drop", "no-create", "migrate", "hstore", "dry-run"}
      [] OTHER             -> {"dry-run"}

Options ==
    {o \in [action : Actions, db : Databases, owner : Owners, password : Passwords \cup {None},
            flags : SUBSET Switches] :
        o.flags \subseteq Reads(o.action) /\ (o.action # "create" => o.password = None)}

ASSUME NoneAssumption == None \notin Owners \cup Passwords \cup Options

Init ==
    /\ engine \in Engines
    /\ password \in [Roles -> {None, "old password"}]
    /\ there \in SUBSET Databases
    /\ engine = "postgres" => System \subseteq there
    /\ schema = there
    /\ rows = [d \in Databases |-> IF d \in there THEN "old" ELSE "none"]
    /\ grants = [d \in Databases |-> {o \in Owners : engine = "mongo" /\ password[<<d, o>>] # None}]
    /\ hstore = {}
    /\ cmd = [c \in Commands |-> None]
    /\ pc = [c \in Commands |-> "idle"]
    /\ up \in (IF Composed THEN {"down", "ready"} ELSE {"ready"})
    /\ pings = [c \in Commands |-> 0]
    /\ alone = {}

Over == {"done", "failed", "refused", "killed"}
-------------------------------------------------------------------------------------
(* Options and refusals.                                                             *)

Set(c, flag) == flag \in cmd[c].flags

\* protect_postgres_db for reset and drop; create refuses "postgres" itself.
Protected(o) == CASE o.action = "create" -> o.db = "postgres"
                  [] o.action \in {"reset", "drop"} -> o.db \in System
                  [] OTHER -> FALSE

Refused(o) ==
    \/ engine = "postgres" /\ Protected(o)
    \/ engine # "postgres" /\ o.action = "reset" /\ "hstore" \in o.flags

\* Mutant: every reset asks pg_database first.
First_asksAlways(o) ==
    CASE o.action = "drop"   -> "drop"
      [] o.action = "create" -> IF engine = "postgres" THEN "ask role" ELSE "create missing"
      [] o.action = "reset"  -> "ask db"
      [] OTHER               -> "finish"

First(o) ==
    CASE o.action = "drop"   -> "drop"
      [] o.action = "create" -> IF engine = "postgres" THEN "ask role" ELSE "create missing"
      [] o.action = "reset"  -> IF engine = "postgres" THEN "ask db" ELSE "drop"
      [] OTHER               -> "finish"

Live == {b \in Commands : pc[b] \notin {"idle"} \cup Over}

\* The first statement.  A dry run prints its statements and executes none.
Begin(o) == IF Refused(o) THEN "refused"
            ELSE IF "dry-run" \in o.flags THEN "done" ELSE First(o)

\* A Compose service is started before the options are looked at.
Start(c) ==
    /\ pc[c] = "idle"
    /\ alone' = IF Live = {} THEN alone \cup {c} ELSE alone \ Live
    /\ \E o \in Options :
        /\ cmd' = [cmd EXCEPT ![c] = o]
        /\ pc' = [pc EXCEPT ![c] =
                    IF Composed /\ o.action # "migrate" /\ "dry-run" \notin o.flags THEN "up" ELSE Begin(o)]
    /\ UNCHANGED <<engine, server, starting>>

\* docker compose up -d
Up(c) ==
    /\ pc[c] = "up"
    /\ pc' = [pc EXCEPT ![c] = "ping"]
    /\ up' = IF up = "down" THEN "up" ELSE up
    /\ UNCHANGED <<engine, server, cmd, pings, alone>>

\* The server of a started service begins to accept connections.
ServerReady ==
    /\ up = "up"
    /\ up' = "ready"
    /\ UNCHANGED <<engine, server, cmd, pc, pings, alone>>

\* Whether it does is asked once a second, a bounded number of times.
Ping(c) ==
    /\ pc[c] = "ping"
    /\ pc' = [pc EXCEPT ![c] = IF up = "ready" THEN Begin(cmd[c])
                               ELSE IF pings[c] + 1 = Pings THEN "failed" ELSE "ping"]
    /\ pings' = [pings EXCEPT ![c] = IF up = "ready" THEN @ ELSE @ + 1]
    /\ UNCHANGED <<engine, server, cmd, up, alone>>

\* Statement `from` of c; it fails unless `ok`, and otherwise `to` is next.
Statement(c, from, ok, to) ==
    /\ pc[c] = from
    /\ pc' = [pc EXCEPT ![c] = IF ok /\ up = "ready" THEN to ELSE "failed"]
    /\ UNCHANGED <<engine, cmd, starting, alone>>

Db(c)     == cmd[c].db
RoleOf(c) == <<IF engine = "mongo" THEN Db(c) ELSE None, cmd[c].owner>>

HasRole(c) == password[RoleOf(c)] # None
HasDb(c)   == Db(c) \in there

\* --set-password, by default the name of the owner.
NewPassword(c) == IF cmd[c].password = None THEN cmd[c].owner ELSE cmd[c].password

Without(d) == /\ schema' = schema \ {d}
              /\ rows' = [rows EXCEPT ![d] = "none"]
              /\ hstore' = hstore \ {d}
-------------------------------------------------------------------------------------
(* PostgreSQL.                                                                       *)

\* Mutant: the password is set again whenever the role is there.
AskRole_alwaysAlters(c) ==
    /\ Statement(c, "ask role", TRUE, IF ~HasRole(c) THEN "create role" ELSE "alter role")
    /\ UNCHANGED server

\* SELECT 1 FROM pg_roles
AskRole(c) ==
    /\ Statement(c, "ask role", TRUE,
            IF ~HasRole(c) THEN "create role"
            ELSE IF cmd[c].password # None THEN "alter role" ELSE "ask db")
    /\ UNCHANGED server

\* CREATE ROLE fails on a role that has appeared since, ALTER ROLE on one that is gone.
SetRole(c) ==
    /\ \/ Statement(c, "create role", ~HasRole(c), "ask db")
       \/ Statement(c, "alter role", HasRole(c), "ask db")
    /\ password' = IF pc'[c] = "failed" THEN password
                   ELSE [password EXCEPT ![RoleOf(c)] = NewPassword(c)]
    /\ UNCHANGED <<there, schema, rows, grants, hstore>>

\* SELECT 1 FROM pg_database; a reset needs the database, a create makes it.
AskDb(c) ==
    /\ Statement(c, "ask db", cmd[c].action = "create" \/ HasDb(c),
            IF cmd[c].action = "create" THEN (IF HasDb(c) THEN "grant" ELSE "create db")
            ELSE IF ~Set(c, "no-drop") THEN "drop schema"
            ELSE IF ~Set(c, "no-create") THEN "create schema" ELSE "finish")
    /\ UNCHANGED server

\* CREATE DATABASE ... OWNER ...
CreateDb(c) ==
    /\ Statement(c, "create db", ~HasDb(c) /\ HasRole(c), "grant")
    /\ there' = IF pc'[c] = "failed" THEN there ELSE there \cup {Db(c)}
    /\ schema' = IF pc'[c] = "failed" THEN schema ELSE schema \cup {Db(c)}
    /\ UNCHANGED <<password, rows, grants, hstore>>

\* GRANT ... ON DATABASE
GrantDb(c) ==
    /\ Statement(c, "grant", HasDb(c) /\ HasRole(c), "grant schema")
    /\ UNCHANGED server

\* Mutant: the grant goes to the schema of the maintenance database.
GrantSchema_elsewhere(c) ==
    /\ Statement(c, "grant schema", HasRole(c), "finish")
    /\ UNCHANGED server

\* GRANT ALL ON SCHEMA public
GrantSchema(c) ==
    /\ Statement(c, "grant schema", Db(c) \in schema /\ HasRole(c), "finish")
    /\ grants' = IF pc'[c] = "failed" THEN grants
                 ELSE [grants EXCEPT ![Db(c)] = @ \cup {cmd[c].owner}]
    /\ UNCHANGED <<password, there, schema, rows, hstore>>

\* Mutant: without IF EXISTS.
DropSchema_mustExist(c) ==
    /\ Statement(c, "drop schema", Db(c) \in schema,
            IF Set(c, "no-create") THEN "finish" ELSE "create schema")
    /\ IF Db(c) \in schema
       THEN Without(Db(c)) /\ grants' = [grants EXCEPT ![Db(c)] = {}]
       ELSE UNCHANGED <<schema, rows, hstore, grants>>
    /\ UNCHANGED <<password, there>>

\* DROP SCHEMA IF EXISTS ... CASCADE
DropSchema(c) ==
    /\ Statement(c, "drop schema", HasDb(c),
            IF Set(c, "no-create") THEN "finish" ELSE "create schema")
    /\ IF HasDb(c)
       THEN Without(Db(c)) /\ grants' = [grants EXCEPT ![Db(c)] = {}]
       ELSE UNCHANGED <<schema, rows, hstore, grants>>
    /\ UNCHANGED <<password, there>>

\* CREATE SCHEMA ... AUTHORIZATION ...
CreateSchema(c) ==
    /\ Statement(c, "create schema", HasDb(c) /\ HasRole(c) /\ Db(c) \notin schema, "finish")
    /\ schema' = IF pc'[c] = "failed" THEN schema ELSE schema \cup {Db(c)}
    /\ grants' = IF pc'[c] = "failed" THEN grants ELSE [grants EXCEPT ![Db(c)] = {cmd[c].owner}]
    /\ UNCHANGED <<password, there, rows, hstore>>
-------------------------------------------------------------------------------------
(* MySQL and MongoDB, and what all engines share.                                    *)

\* DROP DATABASE, the only statement of a drop and the first of a reset.  In PostgreSQL
\* the privileges go with it; MySQL and MongoDB keep them by name.
DropDb(c) ==
    /\ Statement(c, "drop", TRUE,
            IF cmd[c].action = "drop" THEN "done"
            ELSE IF engine = "mysql" THEN "create again" ELSE "finish")
    /\ there' = there \ {Db(c)}
    /\ Without(Db(c))
    /\ grants' = IF engine = "postgres" THEN [grants EXCEPT ![Db(c)] = {}] ELSE grants
    /\ UNCHANGED password

\* CREATE DATABASE, after the drop of a MySQL reset.
CreateAgain(c) ==
    /\ Statement(c, "create again", ~HasDb(c), "finish")
    /\ there' = there \cup {Db(c)}
    /\ schema' = schema \cup {Db(c)}
    /\ UNCHANGED <<password, rows, grants, hstore>>

\* CREATE DATABASE IF NOT EXISTS; createCollection('_cloner_init').
CreateMissingDb(c) ==
    /\ Statement(c, "create missing", TRUE, "create user")
    /\ there' = there \cup {Db(c)}
    /\ schema' = schema \cup {Db(c)}
    /\ UNCHANGED <<password, rows, grants, hstore>>

\* CREATE USER IF NOT EXISTS; createUser, whose error 51003 (it exists) is ignored.
CreateUser(c) ==
    /\ Statement(c, "create user", TRUE, IF engine = "mysql" THEN "alter user" ELSE "finish")
    /\ password' = IF HasRole(c) THEN password
                   ELSE [password EXCEPT ![RoleOf(c)] = NewPassword(c)]
    /\ grants' = IF engine = "mongo" /\ ~HasRole(c)
                 THEN [grants EXCEPT ![Db(c)] = @ \cup {cmd[c].owner}] ELSE grants
    /\ UNCHANGED <<there, schema, rows, hstore>>

\* ALTER USER ... IDENTIFIED BY, with or without --set-password.
AlterUser(c) ==
    /\ Statement(c, "alter user", TRUE, "grant all")
    /\ password' = [password EXCEPT ![RoleOf(c)] = NewPassword(c)]
    /\ UNCHANGED <<there, schema, rows, grants, hstore>>

\* GRANT ALL PRIVILEGES ON <db>.*
GrantAll(c) ==
    /\ Statement(c, "grant all", TRUE, "finish")
    /\ grants' = [grants EXCEPT ![Db(c)] = @ \cup {cmd[c].owner}]
    /\ UNCHANGED <<password, there, schema, rows, hstore>>

\* rake works on the database that the project configures: here the one that is named.
Migrates(c) == cmd[c].action = "migrate" \/ Set(c, "migrate")

\* finish: the extension, then the migration, which needs a database to work on; and the
\* migration that `db migrate` is.
Finish(c) ==
    /\ Statement(c, "finish",
            /\ Set(c, "hstore")  => engine = "postgres" /\ Db(c) \in schema
            /\ Migrates(c)      => Db(c) \in schema \/ engine = "mongo", "done")
    /\ hstore' = IF pc'[c] = "done" /\ Set(c, "hstore") THEN hstore \cup {Db(c)} ELSE hstore
    /\ IF pc'[c] = "done" /\ Migrates(c)
       THEN /\ there' = there \cup {Db(c)}
            /\ schema' = schema \cup {Db(c)}
            /\ rows' = [rows EXCEPT ![Db(c)] = IF @ = "none" THEN "new" ELSE @]
       ELSE UNCHANGED <<there, schema, rows>>
    /\ UNCHANGED <<password, grants>>

\* The command stops, or the server does not answer.
Kill(c) ==
    /\ c \in Live
    /\ pc' = [pc EXCEPT ![c] = "killed"]
    /\ UNCHANGED <<engine, server, cmd, starting, alone>>

Next == ServerReady \/ \E c \in Commands :
    \/ Start(c) \/ Up(c) \/ Ping(c)
    \/ AskRole(c) \/ SetRole(c) \/ AskDb(c) \/ CreateDb(c) \/ GrantDb(c) \/ GrantSchema(c)
    \/ DropSchema(c) \/ CreateSchema(c)
    \/ DropDb(c) \/ CreateAgain(c) \/ CreateMissingDb(c) \/ CreateUser(c) \/ AlterUser(c)
    \/ GrantAll(c) \/ Finish(c) \/ Kill(c)

Spec == Init /\ [][Next]_vars
-------------------------------------------------------------------------------------
Statements ==
    CASE engine = "postgres" ->
            {"ask role", "create role", "alter role", "ask db", "create db", "grant", "grant schema",
             "drop schema", "create schema", "drop", "finish"}
      [] engine = "mysql" ->
            {"create missing", "create user", "alter user", "grant all", "drop", "create again", "finish"}
      [] OTHER -> {"create missing", "create user", "drop", "finish"}

TypeOK ==
    /\ password \in [Roles -> Owners \cup Passwords \cup {None, "old password"}]
    /\ schema \subseteq there /\ there \subseteq Databases
    /\ hstore \subseteq schema
    /\ rows \in [Databases -> {"none", "old", "new"}]
    /\ \A d \in Databases : rows[d] # "none" => d \in schema
    /\ grants \in [Databases -> SUBSET Owners]
    /\ cmd \in [Commands -> Options \cup {None}]
    /\ pc \in [Commands -> {"idle", "up", "ping"} \cup Over \cup Statements]
    /\ pings \in [Commands -> 0..Pings]
    /\ \A c \in Commands : pc[c] \in Statements => up = "ready" \/ cmd[c].action = "migrate"
    /\ alone \subseteq Commands
    /\ \A c \in Commands : pc[c] = "idle" <=> cmd[c] = None

Steps(c, action) == pc[c] \notin {"idle"} \cup Over /\ pc'[c] # pc[c] /\ cmd[c].action = action

Succeeds(c, action) == Steps(c, action) /\ pc'[c] = "done"

OnlyCreated(d) == \A c \in Commands : cmd[c] # None /\ Db(c) = d => cmd[c].action = "create"

\* However creates interleave, and wherever others were killed, a create that succeeds
\* leaves its role and a database that the role may use (admin.rs:221, 368, 417), unless
\* some command resets or drops that database.
CreateDelivers ==
    [][\A c \in Commands : Succeeds(c, "create") =>
        HasRole(c) /\ (OnlyCreated(Db(c)) => HasDb(c) /\ cmd[c].owner \in grants[Db(c)])]_vars

\* docs/guides/cli.md:196 says of `db create`: "Safe to re-run: existing roles/databases
\* are kept."  An existing role keeps its password unless --set-password is given, and a
\* database its data.  In MySQL the role does not: ALTER USER is always run (admin.rs:376).
CreateKeepsExisting ==
    [][\A c \in Commands : Steps(c, "create") =>
        /\ \A r \in Roles : password'[r] # password[r] =>
                password[r] = None \/ cmd[c].password # None \/ engine = "mysql"
        /\ \A d \in Databases : rows[d] = "old" => rows'[d] = "old"]_vars

\* A command that no other one overlaps can always be repeated: whatever killed commands
\* left half done, a reset fails only for want of the database or the role, a create
\* only where an interrupted reset, or one with --no-create, left no schema, a migration
\* for want of that schema or of the server, and any of them where the extension is asked
\* of another engine (admin.rs:221) or the server is not ready in time (admin.rs:151).
FailsOnlyWhenMissing ==
    [][\A c \in alone : c \in Live /\ pc'[c] = "failed" =>
        \/ cmd[c].action = "reset" /\ (Set(c, "no-drop") \/ Set(c, "no-create") \/ ~HasDb(c) \/ ~HasRole(c))
        \/ cmd[c].action = "create" /\ Db(c) \notin schema
        \/ cmd[c].action = "migrate" /\ (Db(c) \notin schema \/ up # "ready")
        \/ Set(c, "hstore") /\ engine # "postgres"
        \/ pings'[c] = Pings]_vars
=====================================================================================
