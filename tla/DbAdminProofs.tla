------------------------------- MODULE DbAdminProofs -------------------------------
(***********************************************************************************)
(* Theorems about DbAdmin for any number of commands, databases, owners and switches   *)
(* on every engine: the types, what a create delivers and what it keeps, and what a    *)
(* command that no other overlaps can fail of.                                       *)
(*                                                                                   *)
(* A step is one command's.  What it does to the other commands is small: it takes no   *)
(* role away, and only a reset or a drop takes a database or its grants.               *)
(***********************************************************************************)
EXTENDS DbAdmin, TLAPS

AllPc == {"idle", "up", "ping"} \cup Over \cup Statements

\* The statements of an action, on any engine.
Of(action) ==
    CASE action = "create"  -> {"ask role", "create role", "alter role", "ask db", "create db", "grant",
                                "grant schema", "create missing", "create user", "alter user",
                                "grant all", "finish"}
      [] action = "reset"   -> {"ask db", "drop schema", "create schema", "drop", "create again",
                                "finish"}
      [] action = "drop"    -> {"drop"}
      [] action = "migrate" -> {"finish"}

Belongs(c) ==
    /\ pc[c] \in {"up", "ping"} => "dry-run" \notin cmd[c].flags
    /\ pc[c] \in Statements => pc[c] \in Of(cmd[c].action) /\ (up = "ready" \/ cmd[c].action = "migrate")
    /\ pc[c] = "drop" /\ cmd[c].action = "reset" => engine # "postgres"
    /\ pc[c] = "alter role" => cmd[c].password # None

\* What a create has made so far.
Made(c) ==
    pc[c] \in Statements /\ cmd[c].action = "create" =>
        /\ pc[c] \in {"alter role", "ask db", "create db", "grant", "grant schema", "alter user",
                      "grant all", "finish"} => HasRole(c)
        /\ OnlyCreated(Db(c)) =>
            /\ pc[c] \in {"grant", "grant schema", "create user", "alter user", "grant all", "finish"}
                    => HasDb(c)
            /\ pc[c] = "finish" => cmd[c].owner \in grants[Db(c)]

\* What a command that no other one has overlapped still finds as it left it.
Finds(c) ==
    c \in alone =>
        /\ pc[c] = "create role" => ~HasRole(c)
        /\ pc[c] \in {"create db", "create again"} => ~HasDb(c)
        /\ pc[c] \in {"grant", "grant schema"} => HasDb(c)
        /\ pc[c] = "create schema" /\ ~Set(c, "no-drop") => Db(c) \notin schema
        /\ pc[c] = "finish" /\ cmd[c].action = "reset" /\ engine # "mongo" =>
                Set(c, "no-drop") \/ Set(c, "no-create") \/ Db(c) \in schema

Lonely(c) == c \in alone => pc[c] # "idle" /\ (c \in Live => Live = {c})

\* In MongoDB a user is created with its grant, and keeps it.
UsersHaveGrants ==
    engine = "mongo" => \A d \in Databases, o \in Owners : password[<<d, o>>] # None => o \in grants[d]

ServerOK ==
    /\ password \in [Roles -> Owners \cup Passwords \cup {None, "old password"}]
    /\ schema \subseteq there /\ there \subseteq Databases
    /\ hstore \subseteq schema
    /\ rows \in [Databases -> {"none", "old", "new"}]
    /\ \A d \in Databases : rows[d] # "none" => d \in schema
    /\ grants \in [Databases -> SUBSET Owners]
    /\ UsersHaveGrants

CommandsOK ==
    /\ cmd \in [Commands -> Options \cup {None}]
    /\ pc \in [Commands -> AllPc]
    /\ pings \in [Commands -> 0 .. Pings]
    /\ \A c \in Commands : pc[c] = "idle" <=> cmd[c] = None
    /\ \A c \in Commands : pc[c] \in {"idle", "up", "ping"} => pings[c] < Pings
    /\ alone \subseteq Commands

AdminInv ==
    /\ engine \in Engines
    /\ up \in {"down", "up", "ready"} /\ (Composed \/ up = "ready")
    /\ ServerOK /\ CommandsOK
    /\ \A c \in Commands : Belongs(c) /\ Made(c) /\ Finds(c) /\ Lonely(c)
-------------------------------------------------------------------------------------
LEMMA EngineIs == ASSUME AdminInv PROVE engine \in {"postgres", "mysql", "mongo"}
BY EngineAssumption DEF AdminInv

LEMMA StatementsAre ==
    /\ engine = "postgres" =>
        Statements = {"ask role", "create role", "alter role", "ask db", "create db", "grant",
                      "grant schema", "drop schema", "create schema", "drop", "finish"}
    /\ engine = "mysql" =>
        Statements = {"create missing", "create user", "alter user", "grant all", "drop",
                      "create again", "finish"}
    /\ engine = "mongo" => Statements = {"create missing", "create user", "drop", "finish"}
BY DEF Statements

LEMMA OfIs ==
    /\ Of("create") = {"ask role", "create role", "alter role", "ask db", "create db", "grant",
                       "grant schema", "create missing", "create user", "alter user", "grant all",
                       "finish"}
    /\ Of("reset") = {"ask db", "drop schema", "create schema", "drop", "create again", "finish"}
    /\ Of("drop") = {"drop"}
    /\ Of("migrate") = {"finish"}
BY DEF Of

LEMMA OptionIs ==
    ASSUME NEW o \in Options
    PROVE  /\ o # None /\ o.action \in Actions /\ o.db \in Databases /\ o.owner \in Owners
           /\ o.password \in Passwords \cup {None}
           /\ o.action \in {"create", "reset", "drop", "migrate"}
           /\ o.flags \subseteq Reads(o.action)
BY NoneAssumption, ActionsAssumption DEF Options

\* The statement that is next tells of the engine and of the action.
LEMMA Knows ==
    ASSUME AdminInv, NEW c \in Commands, pc[c] # "idle"
    PROVE  /\ cmd[c] \in Options /\ Db(c) \in Databases /\ cmd[c].owner \in Owners
           /\ cmd[c].action \in {"create", "reset", "drop", "migrate"}
           /\ pc[c] \in {"ask role", "create role", "alter role", "create db", "grant", "grant schema"}
                => engine = "postgres" /\ cmd[c].action = "create"
           /\ pc[c] = "ask db" => engine = "postgres" /\ cmd[c].action \in {"create", "reset"}
           /\ pc[c] \in {"drop schema", "create schema"} => engine = "postgres" /\ cmd[c].action = "reset"
           /\ pc[c] = "drop" => \/ cmd[c].action = "drop"
                                \/ cmd[c].action = "reset" /\ engine # "postgres"
           /\ pc[c] = "create again" => engine = "mysql" /\ cmd[c].action = "reset"
           /\ pc[c] \in {"create missing", "create user"} => engine # "postgres" /\ cmd[c].action = "create"
           /\ pc[c] \in {"alter user", "grant all"} => engine = "mysql" /\ cmd[c].action = "create"
           /\ pc[c] = "finish" => cmd[c].action \in {"create", "reset", "migrate"}
           /\ pc[c] \in Statements \ {"finish"} => up = "ready"
<1>1. cmd[c] \in Options /\ pc[c] \in AllPc
    BY DEF AdminInv, CommandsOK
<1>2. /\ Db(c) \in Databases /\ cmd[c].owner \in Owners
      /\ cmd[c].action \in {"create", "reset", "drop", "migrate"}
    BY <1>1, OptionIs DEF Db
<1>3. engine \in {"postgres", "mysql", "mongo"}
    BY EngineIs
<1>4. /\ pc[c] \in Statements => pc[c] \in Of(cmd[c].action) /\ (up = "ready" \/ cmd[c].action = "migrate")
      /\ pc[c] = "drop" /\ cmd[c].action = "reset" => engine # "postgres"
    BY DEF AdminInv, Belongs
<1>5. pc[c] \in {"idle", "up", "ping", "done", "failed", "refused", "killed"} \cup Statements
    BY <1>1 DEF AllPc, Over
<1>6. CASE engine = "postgres"
    BY <1>1, <1>2, <1>4, <1>5, <1>6, StatementsAre, OfIs
<1>7. CASE engine = "mysql"
    BY <1>1, <1>2, <1>4, <1>5, <1>7, StatementsAre, OfIs
<1>8. CASE engine = "mongo"
    BY <1>1, <1>2, <1>4, <1>5, <1>8, StatementsAre, OfIs
<1> QED
    BY <1>3, <1>6, <1>7, <1>8
-------------------------------------------------------------------------------------
(* A step of one command among the others.                                           *)

\* What it leaves to the others.
Spares(c) ==
    /\ \A r \in Roles : password[r] # None => password'[r] # None
    /\ \A d \in Databases : d # Db(c) \/ cmd[c].action = "create" =>
            (d \in there => d \in there') /\ grants[d] \subseteq grants'[d]

LEMMA RoleIs ==
    ASSUME AdminInv, NEW c \in Commands, pc[c] # "idle"
    PROVE  RoleOf(c) \in Roles
BY Knows DEF RoleOf, Roles

LEMMA MadeStays ==
    ASSUME AdminInv, NEW c \in Commands, NEW b \in Commands, b # c, pc[c] # "idle",
           Spares(c), pc'[b] = pc[b], UNCHANGED <<engine, cmd>>
    PROVE  Made(b)'
<1> SUFFICES ASSUME pc[b] \in Statements, cmd[b].action = "create" PROVE Made(b)'
    BY DEF Made, Statements
<1>1. pc[b] # "idle" /\ Made(b)
    BY StatementsAre, EngineIs DEF AdminInv
<1>2. HasRole(b) => HasRole(b)'
    <2>1. RoleOf(b)' = RoleOf(b)
        BY DEF RoleOf, Db
    <2>2. RoleOf(b) \in Roles
        BY <1>1, RoleIs
    <2> QED
        BY <2>1, <2>2 DEF Spares, HasRole
<1>3. /\ OnlyCreated(Db(b))' = OnlyCreated(Db(b)) /\ Db(b)' = Db(b)
    BY DEF OnlyCreated, Db
<1>4. cmd[c] # None /\ Db(b) \in Databases
    BY <1>1, Knows, OptionIs
<1>5. OnlyCreated(Db(b)) => Db(b) # Db(c) \/ cmd[c].action = "create"
    BY <1>4 DEF OnlyCreated
<1>6. OnlyCreated(Db(b)) => (HasDb(b) => HasDb(b)') /\ grants[Db(b)] \subseteq grants'[Db(b)]
    BY <1>3, <1>4, <1>5 DEF Spares, HasDb
<1> QED
    BY <1>1, <1>2, <1>3, <1>6 DEF Made

LEMMA Goes ==
    ASSUME AdminInv, NEW c \in Live, NEW x \in AllPc \ {"idle"}, NEW y \in 0 .. Pings,
           x \in {"up", "ping"} => y < Pings,
           pc' = [pc EXCEPT ![c] = x], pings' = [pings EXCEPT ![c] = y],
           UNCHANGED <<engine, cmd, alone>>,
           up' \in {"down", "up", "ready"}, up = "ready" => up' = "ready",
           ServerOK', Spares(c), Belongs(c)', Made(c)', Finds(c)'
    PROVE  AdminInv'
<1>1. /\ c \in Commands /\ pc[c] # "idle"
      /\ pc'[c] = x /\ pings'[c] = y
      /\ \A b \in Commands \ {c} : pc'[b] = pc[b] /\ pings'[b] = pings[b]
    BY DEF AdminInv, CommandsOK, Live
<1>2. CommandsOK'
    <2>1. AllPc' = AllPc
        BY DEF AllPc, Statements
    <2>2. pc' \in [Commands -> AllPc] /\ pings' \in [Commands -> 0 .. Pings]
        BY DEF AdminInv, CommandsOK
    <2>3. cmd[c] # None
        BY <1>1, Knows, OptionIs
    <2>4. \A b \in Commands : pc'[b] = "idle" <=> cmd'[b] = None
        BY <1>1, <2>3 DEF AdminInv, CommandsOK
    <2>5. \A b \in Commands : pc'[b] \in {"idle", "up", "ping"} => pings'[b] < Pings
        BY <1>1 DEF AdminInv, CommandsOK
    <2> QED
        BY <2>1, <2>2, <2>4, <2>5 DEF AdminInv, CommandsOK
<1>3. Live' \subseteq Live
    BY <1>1 DEF Live
<1>4. ASSUME NEW b \in Commands, b # c PROVE Belongs(b)' /\ Made(b)' /\ Finds(b)' /\ Lonely(b)'
    <2>1. pc'[b] = pc[b] /\ Belongs(b) /\ Finds(b) /\ Lonely(b)
        BY <1>1, <1>4 DEF AdminInv
    <2>2. Belongs(b)'
        BY <2>1 DEF Belongs, Statements
    <2>3. Made(b)'
        BY <1>1, <1>4, <2>1, MadeStays
    <2>4. b \in alone => b \notin Live
        BY <1>4, <2>1 DEF Lonely
    <2>5. Finds(b)'
        BY <2>1, <2>4 DEF Finds, Live, Over
    <2>6. Lonely(b)'
        BY <1>3, <2>1, <2>4 DEF Lonely
    <2> QED
        BY <2>2, <2>3, <2>5, <2>6
<1>5. Lonely(c)'
    <2>1. Lonely(c)
        BY <1>1 DEF AdminInv
    <2> QED
        BY <1>1, <1>3, <2>1 DEF Lonely
<1>6. engine' \in Engines /\ up' \in {"down", "up", "ready"} /\ (Composed \/ up' = "ready")
    BY DEF AdminInv
<1> QED
    BY <1>2, <1>4, <1>5, <1>6 DEF AdminInv

\* A statement: what follows a success remains to be shown, a failure changes nothing more.
LEMMA StatementGoes ==
    ASSUME AdminInv, NEW c \in Commands, NEW from, from \notin {"idle", "up", "ping", "finish"} \cup Over,
           NEW ok \in BOOLEAN, NEW to \in Statements \cup {"done"}, Statement(c, from, ok, to),
           ServerOK', Spares(c), ok => Belongs(c)' /\ Made(c)' /\ Finds(c)'
    PROVE  AdminInv'
<1>1. /\ pc[c] = from /\ pc' = [pc EXCEPT ![c] = IF ok /\ up = "ready" THEN to ELSE "failed"]
      /\ UNCHANGED <<engine, cmd, up, pings, alone>>
    BY DEF Statement, starting
<1>2. /\ c \in Live /\ up = "ready" /\ pc[c] \in Statements
      /\ pc \in [Commands -> AllPc] /\ pings \in [Commands -> 0 .. Pings]
    BY <1>1, Knows DEF Live, AdminInv, CommandsOK, AllPc
<1>3. PICK x : x = IF ok THEN to ELSE "failed"
    OBVIOUS
<1>4. x \in AllPc \ {"idle", "up", "ping"} /\ pc' = [pc EXCEPT ![c] = x] /\ pc'[c] = x
    BY <1>1, <1>2, <1>3, StatementsAre, EngineIs DEF AllPc, Over
<1>5. pings[c] \in 0 .. Pings /\ pings' = [pings EXCEPT ![c] = pings[c]]
    BY <1>1, <1>2
<1>6. ASSUME ~ok PROVE Belongs(c)' /\ Made(c)' /\ Finds(c)'
    <2>1. pc'[c] = "failed" /\ "failed" \notin Statements'
        BY <1>1, <1>3, <1>4, <1>6, StatementsAre, EngineIs DEF Statements
    <2> QED
        BY <2>1 DEF Belongs, Made, Finds
<1>7. up' \in {"down", "up", "ready"} /\ (up = "ready" => up' = "ready")
    BY <1>1, <1>2
<1> QED
    BY <1>1, <1>2, <1>4, <1>5, <1>6, <1>7, Goes

LEMMA ServerSame ==
    ASSUME ServerOK, UNCHANGED <<engine, server>>, NEW c
    PROVE  ServerOK' /\ Spares(c)
BY DEF ServerOK, UsersHaveGrants, Roles, server, Spares

LEMMA AskRoleStep == ASSUME AdminInv, NEW c \in Commands, AskRole(c) PROVE AdminInv'
<1>1. PICK to : /\ to = IF ~HasRole(c) THEN "create role"
                        ELSE IF cmd[c].password # None THEN "alter role" ELSE "ask db"
                /\ Statement(c, "ask role", TRUE, to)
    BY DEF AskRole
<1>2. /\ pc[c] = "ask role" /\ pc' = [pc EXCEPT ![c] = IF up = "ready" THEN to ELSE "failed"]
      /\ UNCHANGED <<engine, cmd, server, up, alone>>
    BY <1>1 DEF AskRole, Statement, starting
<1>3. engine = "postgres" /\ cmd[c].action = "create" /\ up = "ready"
    BY <1>2, Knows, StatementsAre
<1>4. pc'[c] = to /\ to \in {"create role", "alter role", "ask db"}
    BY <1>1, <1>2, <1>3 DEF AdminInv, CommandsOK
<1>5. HasRole(c)' = HasRole(c)
    BY <1>2 DEF HasRole, RoleOf, Db, server
<1>6. Belongs(c)'
    BY <1>1, <1>2, <1>3, <1>4, OfIs DEF Belongs
<1>7. Made(c)'
    BY <1>1, <1>4, <1>5 DEF Made
<1>8. Finds(c)'
    BY <1>1, <1>4, <1>5 DEF Finds
<1>9. ServerOK' /\ Spares(c)
    BY <1>2, ServerSame DEF AdminInv
<1>10. "ask role" \notin {"idle", "up", "ping", "finish"} \cup Over /\ to \in Statements \cup {"done"}
    BY <1>3, <1>4, StatementsAre DEF Over
<1> QED
    BY <1>1, <1>6, <1>7, <1>8, <1>9, <1>10, StatementGoes

\* What holds at any statement but "finish".
LEMMA Happens ==
    ASSUME AdminInv, NEW c \in Commands, NEW from, from \notin {"idle", "up", "ping", "finish"} \cup Over,
           NEW ok \in BOOLEAN, NEW to, Statement(c, from, ok, to)
    PROVE  /\ pc[c] = from /\ pc'[c] = (IF ok THEN to ELSE "failed")
           /\ UNCHANGED <<engine, cmd, up, alone>>
           /\ cmd[c] \in Options /\ Db(c) \in Databases /\ cmd[c].owner \in Owners
           /\ RoleOf(c) \in Roles /\ NewPassword(c) \in Owners \cup Passwords
           /\ up = "ready" /\ Belongs(c) /\ Made(c) /\ Finds(c)
           /\ ServerOK
<1>1. /\ pc[c] = from /\ pc' = [pc EXCEPT ![c] = IF ok /\ up = "ready" THEN to ELSE "failed"]
      /\ UNCHANGED <<engine, cmd, up, alone>>
    BY DEF Statement, starting
<1>2. /\ cmd[c] \in Options /\ Db(c) \in Databases /\ cmd[c].owner \in Owners
      /\ RoleOf(c) \in Roles /\ up = "ready"
      /\ pc \in [Commands -> AllPc]
    BY <1>1, Knows, RoleIs DEF AdminInv, CommandsOK, AllPc
<1>3. NewPassword(c) \in Owners \cup Passwords
    BY <1>2, OptionIs DEF NewPassword
<1> QED
    BY <1>1, <1>2, <1>3 DEF AdminInv

\* What is said of a command, in the next state.
LEMMA InNext ==
    ASSUME NEW c \in Commands, UNCHANGED <<engine, cmd>>
    PROVE  /\ Db(c)' = Db(c) /\ RoleOf(c)' = RoleOf(c)
           /\ HasRole(c)' = (password'[RoleOf(c)] # None) /\ HasDb(c)' = (Db(c) \in there')
           /\ OnlyCreated(Db(c))' = OnlyCreated(Db(c))
BY DEF Db, RoleOf, HasRole, HasDb, OnlyCreated

LEMMA SetRoleStep == ASSUME AdminInv, NEW c \in Commands, SetRole(c) PROVE AdminInv'
<1>1. PICK from \in {"create role", "alter role"}, ok \in BOOLEAN :
            Statement(c, from, ok, "ask db") /\ (ok <=> IF from = "create role" THEN ~HasRole(c) ELSE HasRole(c))
    BY DEF SetRole, HasRole
<1>2. from \notin {"idle", "up", "ping", "finish"} \cup Over
    BY DEF Over
<1>3. /\ pc[c] = from /\ pc'[c] = (IF ok THEN "ask db" ELSE "failed")
      /\ UNCHANGED <<engine, cmd, up, alone>>
      /\ RoleOf(c) \in Roles /\ NewPassword(c) \in Owners \cup Passwords
      /\ up = "ready" /\ ServerOK
    BY <1>1, <1>2, Happens, ZenonT(60)
<1>4. engine = "postgres" /\ cmd[c].action = "create"
    BY <1>3, Knows
<1>5. /\ password' = IF ~ok THEN password ELSE [password EXCEPT ![RoleOf(c)] = NewPassword(c)]
      /\ UNCHANGED <<there, schema, rows, grants, hstore>>
    BY <1>3 DEF SetRole
<1>6. ServerOK'
    BY <1>3, <1>4, <1>5 DEF ServerOK, UsersHaveGrants, Roles
<1>7. Spares(c)
    BY <1>3, <1>5, NoneAssumption DEF ServerOK, Spares
<1>8. ASSUME ok PROVE Belongs(c)' /\ Made(c)' /\ Finds(c)'
    <2>1. HasRole(c)'
        BY <1>3, <1>5, <1>8, InNext, NoneAssumption DEF ServerOK
    <2> QED
        BY <1>3, <1>4, <1>8, <2>1, OfIs DEF Belongs, Made, Finds
<1> QED
    BY <1>1, <1>2, <1>4, <1>6, <1>7, <1>8, StatementsAre, StatementGoes

LEMMA AskDbStep == ASSUME AdminInv, NEW c \in Commands, AskDb(c) PROVE AdminInv'
<1>1. PICK ok \in BOOLEAN, to \in {"grant", "create db", "drop schema", "create schema", "finish"} :
        /\ Statement(c, "ask db", ok, to)
        /\ ok <=> cmd[c].action = "create" \/ HasDb(c)
        /\ to = IF cmd[c].action = "create" THEN (IF HasDb(c) THEN "grant" ELSE "create db")
                ELSE IF ~Set(c, "no-drop") THEN "drop schema"
                ELSE IF ~Set(c, "no-create") THEN "create schema" ELSE "finish"
    BY DEF AskDb, HasDb
<1>2. "ask db" \notin {"idle", "up", "ping", "finish"} \cup Over
    BY DEF Over
<1>3. /\ pc[c] = "ask db" /\ pc'[c] = (IF ok THEN to ELSE "failed")
      /\ UNCHANGED <<engine, cmd, up, alone, server>>
      /\ up = "ready" /\ Made(c)
    BY <1>1, <1>2, Happens, ZenonT(60) DEF AskDb
<1>4. engine = "postgres" /\ cmd[c].action \in {"create", "reset"}
    BY <1>3, Knows
<1>5. ServerOK' /\ Spares(c)
    BY <1>3, ServerSame DEF AdminInv
<1>6. to \in {"grant", "create db", "drop schema", "create schema", "finish"}
      /\ to \in (IF cmd[c].action = "create" THEN {"grant", "create db"}
                 ELSE {"drop schema", "create schema", "finish"})
    BY <1>1
<1>7. /\ HasRole(c)' = HasRole(c) /\ HasDb(c)' = HasDb(c) /\ schema' = schema
      /\ Set(c, "no-drop")' = Set(c, "no-drop") /\ Set(c, "no-create")' = Set(c, "no-create")
    BY <1>3 DEF HasRole, HasDb, RoleOf, Db, Set, server
<1>8. ASSUME ok PROVE Belongs(c)' /\ Made(c)' /\ Finds(c)'
    <2>1. Belongs(c)'
        BY <1>3, <1>4, <1>6, <1>8, OfIs DEF Belongs
    <2>2. Made(c)'
        BY <1>1, <1>3, <1>4, <1>6, <1>7, <1>8, StatementsAre DEF Made
    <2>3. Finds(c)'
        BY <1>1, <1>3, <1>4, <1>6, <1>7, <1>8 DEF Finds
    <2> QED
        BY <2>1, <2>2, <2>3
<1>9. to \in Statements \cup {"done"}
    BY <1>4, <1>6, StatementsAre
<1> QED
    BY <1>1, <1>2, <1>5, <1>8, <1>9, StatementGoes

LEMMA CreateDbStep == ASSUME AdminInv, NEW c \in Commands, CreateDb(c) PROVE AdminInv'
<1>1. PICK ok \in BOOLEAN : Statement(c, "create db", ok, "grant") /\ (ok <=> ~HasDb(c) /\ HasRole(c))
    BY DEF CreateDb, HasDb, HasRole
<1>2. "create db" \notin {"idle", "up", "ping", "finish"} \cup Over
    BY DEF Over
<1>3. /\ pc[c] = "create db" /\ pc'[c] = (IF ok THEN "grant" ELSE "failed")
      /\ UNCHANGED <<engine, cmd, up, alone>>
      /\ Db(c) \in Databases /\ up = "ready" /\ Made(c) /\ ServerOK
    BY <1>1, <1>2, Happens, ZenonT(60)
<1>4. engine = "postgres" /\ cmd[c].action = "create"
    BY <1>3, Knows
<1>5. /\ there' = IF ~ok THEN there ELSE there \cup {Db(c)}
      /\ schema' = IF ~ok THEN schema ELSE schema \cup {Db(c)}
      /\ UNCHANGED <<password, rows, grants, hstore>>
    BY <1>3 DEF CreateDb
<1>6. ServerOK'
    BY <1>3, <1>4, <1>5 DEF ServerOK, UsersHaveGrants, Roles
<1>7. Spares(c)
    BY <1>3, <1>5 DEF Spares
<1>8. ASSUME ok PROVE Belongs(c)' /\ Made(c)' /\ Finds(c)'
    <2>1. HasRole(c)' /\ HasDb(c)'
        BY <1>1, <1>3, <1>5, <1>8, InNext DEF HasRole
    <2> QED
        BY <1>3, <1>4, <1>8, <2>1, OfIs DEF Belongs, Made, Finds
<1> QED
    BY <1>1, <1>2, <1>4, <1>6, <1>7, <1>8, StatementsAre, StatementGoes

LEMMA GrantDbStep == ASSUME AdminInv, NEW c \in Commands, GrantDb(c) PROVE AdminInv'
<1>1. PICK ok \in BOOLEAN : Statement(c, "grant", ok, "grant schema") /\ (ok <=> HasDb(c) /\ HasRole(c))
    BY DEF GrantDb, HasDb, HasRole
<1>2. "grant" \notin {"idle", "up", "ping", "finish"} \cup Over
    BY DEF Over
<1>3. /\ pc[c] = "grant" /\ pc'[c] = (IF ok THEN "grant schema" ELSE "failed")
      /\ UNCHANGED <<engine, cmd, up, alone, server>> /\ up = "ready"
    BY <1>1, <1>2, Happens, ZenonT(60) DEF GrantDb
<1>4. engine = "postgres" /\ cmd[c].action = "create"
    BY <1>3, Knows
<1>5. ServerOK' /\ Spares(c)
    BY <1>3, ServerSame DEF AdminInv
<1>6. ASSUME ok PROVE Belongs(c)' /\ Made(c)' /\ Finds(c)'
    <2>1. HasRole(c)' /\ HasDb(c)'
        BY <1>1, <1>3, <1>6, InNext, ZenonT(60) DEF HasRole, HasDb, server
    <2> QED
        BY <1>3, <1>4, <1>6, <2>1, OfIs DEF Belongs, Made, Finds
<1> QED
    BY <1>1, <1>2, <1>4, <1>5, <1>6, StatementsAre, StatementGoes

LEMMA GrantSchemaStep == ASSUME AdminInv, NEW c \in Commands, GrantSchema(c) PROVE AdminInv'
<1>1. PICK ok \in BOOLEAN :
        Statement(c, "grant schema", ok, "finish") /\ (ok <=> Db(c) \in schema /\ HasRole(c))
    BY DEF GrantSchema, HasRole
<1>2. "grant schema" \notin {"idle", "up", "ping", "finish"} \cup Over
    BY DEF Over
<1>3. /\ pc[c] = "grant schema" /\ pc'[c] = (IF ok THEN "finish" ELSE "failed")
      /\ UNCHANGED <<engine, cmd, up, alone>>
      /\ Db(c) \in Databases /\ cmd[c].owner \in Owners /\ up = "ready" /\ ServerOK
    BY <1>1, <1>2, Happens, ZenonT(60)
<1>4. engine = "postgres" /\ cmd[c].action = "create"
    BY <1>3, Knows
<1>5. /\ grants' = IF ~ok THEN grants ELSE [grants EXCEPT ![Db(c)] = @ \cup {cmd[c].owner}]
      /\ UNCHANGED <<password, there, schema, rows, hstore>>
    BY <1>3 DEF GrantSchema
<1>6. ServerOK'
    BY <1>3, <1>4, <1>5 DEF ServerOK, UsersHaveGrants, Roles
<1>7. Spares(c)
    BY <1>3, <1>5 DEF Spares, ServerOK
<1>8. ASSUME ok PROVE Belongs(c)' /\ Made(c)' /\ Finds(c)'
    <2>1. HasRole(c)' /\ HasDb(c)' /\ Db(c)' = Db(c)
        BY <1>1, <1>3, <1>5, <1>8, InNext DEF HasRole, ServerOK
    <2>2. cmd'[c].owner \in grants'[Db(c)]
        BY <1>3, <1>5, <1>8 DEF ServerOK
    <2> QED
        BY <1>3, <1>4, <1>8, <2>1, <2>2, OfIs DEF Belongs, Made, Finds
<1> QED
    BY <1>1, <1>2, <1>4, <1>6, <1>7, <1>8, StatementsAre, StatementGoes

LEMMA DropSchemaStep == ASSUME AdminInv, NEW c \in Commands, DropSchema(c) PROVE AdminInv'
<1>1. PICK ok \in BOOLEAN, to \in {"finish", "create schema"} :
        /\ Statement(c, "drop schema", ok, to) /\ (ok <=> HasDb(c))
        /\ to = IF Set(c, "no-create") THEN "finish" ELSE "create schema"
    <2>1. Statement(c, "drop schema", HasDb(c), IF Set(c, "no-create") THEN "finish" ELSE "create schema")
        BY DEF DropSchema
    <2>2. HasDb(c) \in BOOLEAN
        BY DEF HasDb
    <2> QED
        BY <2>1, <2>2
<1>2. "drop schema" \notin {"idle", "up", "ping", "finish"} \cup Over
    BY DEF Over
<1>3. /\ pc[c] = "drop schema" /\ pc'[c] = (IF ok THEN to ELSE "failed")
      /\ UNCHANGED <<engine, cmd, up, alone>> /\ Db(c) \in Databases /\ up = "ready" /\ ServerOK
    BY <1>1, <1>2, Happens, ZenonT(60)
<1>4. engine = "postgres" /\ cmd[c].action = "reset"
    BY <1>3, Knows
<1>5. /\ IF ok THEN /\ schema' = schema \ {Db(c)} /\ rows' = [rows EXCEPT ![Db(c)] = "none"]
                    /\ hstore' = hstore \ {Db(c)} /\ grants' = [grants EXCEPT ![Db(c)] = {}]
         ELSE UNCHANGED <<schema, rows, hstore, grants>>
      /\ UNCHANGED <<password, there>>
    BY <1>1 DEF DropSchema, Without
<1>6. ServerOK'
    BY <1>3, <1>4, <1>5 DEF ServerOK, UsersHaveGrants, Roles
<1>7. Spares(c)
    BY <1>3, <1>4, <1>5 DEF Spares, ServerOK
<1>8. ASSUME ok PROVE Belongs(c)' /\ Made(c)' /\ Finds(c)'
    <2>1. Db(c)' = Db(c) /\ Set(c, "no-create")' = Set(c, "no-create")
        BY <1>3 DEF Db, Set
    <2>2. Db(c)' \notin schema'
        BY <1>5, <1>8, <2>1
    <2>3. pc'[c] = to
        BY <1>3, <1>8
    <2>4. Belongs(c)' /\ Made(c)'
        BY <1>3, <1>4, <2>3, OfIs DEF Belongs, Made
    <2>5. Finds(c)'
        BY <1>1, <2>1, <2>2, <2>3 DEF Finds
    <2> QED
        BY <2>4, <2>5
<1> QED
    BY <1>1, <1>2, <1>4, <1>6, <1>7, <1>8, StatementsAre, StatementGoes

LEMMA CreateSchemaStep == ASSUME AdminInv, NEW c \in Commands, CreateSchema(c) PROVE AdminInv'
<1>1. PICK ok \in BOOLEAN :
        /\ Statement(c, "create schema", ok, "finish")
        /\ ok <=> HasDb(c) /\ HasRole(c) /\ Db(c) \notin schema
    BY DEF CreateSchema, HasDb, HasRole
<1>2. "create schema" \notin {"idle", "up", "ping", "finish"} \cup Over
    BY DEF Over
<1>3. /\ pc[c] = "create schema" /\ pc'[c] = (IF ok THEN "finish" ELSE "failed")
      /\ UNCHANGED <<engine, cmd, up, alone>>
      /\ Db(c) \in Databases /\ cmd[c].owner \in Owners /\ up = "ready" /\ ServerOK
    BY <1>1, <1>2, Happens, ZenonT(60)
<1>4. engine = "postgres" /\ cmd[c].action = "reset"
    BY <1>3, Knows
<1>5. /\ schema' = IF ~ok THEN schema ELSE schema \cup {Db(c)}
      /\ grants' = IF ~ok THEN grants ELSE [grants EXCEPT ![Db(c)] = {cmd[c].owner}]
      /\ UNCHANGED <<password, there, rows, hstore>>
    BY <1>3 DEF CreateSchema
<1>6. ServerOK'
    BY <1>1, <1>3, <1>4, <1>5 DEF ServerOK, UsersHaveGrants, Roles, HasDb
<1>7. Spares(c)
    BY <1>3, <1>4, <1>5 DEF Spares, ServerOK
<1>8. ASSUME ok PROVE Belongs(c)' /\ Made(c)' /\ Finds(c)'
    <2>1. Db(c)' \in schema' /\ pc'[c] = "finish"
        BY <1>3, <1>5, <1>8 DEF Db
    <2> QED
        BY <1>3, <1>4, <2>1, OfIs DEF Belongs, Made, Finds
<1> QED
    BY <1>1, <1>2, <1>4, <1>6, <1>7, <1>8, StatementsAre, StatementGoes

LEMMA DropDbStep == ASSUME AdminInv, NEW c \in Commands, DropDb(c) PROVE AdminInv'
<1>1. PICK to \in {"done", "create again", "finish"} :
        /\ Statement(c, "drop", TRUE, to)
        /\ to = IF cmd[c].action = "drop" THEN "done"
                ELSE IF engine = "mysql" THEN "create again" ELSE "finish"
    BY DEF DropDb
<1>2. "drop" \notin {"idle", "up", "ping", "finish"} \cup Over
    BY DEF Over
<1>3. /\ pc[c] = "drop" /\ pc'[c] = to
      /\ UNCHANGED <<engine, cmd, up, alone>> /\ Db(c) \in Databases /\ up = "ready" /\ ServerOK
    BY <1>1, <1>2, Happens, ZenonT(60)
<1>4. \/ cmd[c].action = "drop"
      \/ cmd[c].action = "reset" /\ engine \in {"mysql", "mongo"}
    BY <1>3, Knows, EngineIs
<1>5. /\ there' = there \ {Db(c)} /\ schema' = schema \ {Db(c)}
      /\ rows' = [rows EXCEPT ![Db(c)] = "none"] /\ hstore' = hstore \ {Db(c)}
      /\ grants' = IF engine = "postgres" THEN [grants EXCEPT ![Db(c)] = {}] ELSE grants
      /\ UNCHANGED password
    BY DEF DropDb, Without
<1>6. ServerOK'
    BY <1>3, <1>5 DEF ServerOK, UsersHaveGrants, Roles
<1>7. Spares(c)
    BY <1>3, <1>4, <1>5 DEF Spares, ServerOK
<1>8. Belongs(c)' /\ Made(c)' /\ Finds(c)'
    <2>1. ~HasDb(c)'
        BY <1>3, <1>5, InNext
    <2>2. to # "done" => cmd'[c].action = "reset" /\ engine' \in {"mysql", "mongo"}
        BY <1>1, <1>3, <1>4
    <2>3. "done" \notin Statements'
        BY <1>3, EngineIs, StatementsAre DEF Statements
    <2>4. Belongs(c)'
        BY <1>3, <2>2, <2>3, OfIs DEF Belongs
    <2>5. Made(c)'
        BY <1>3, <2>2, <2>3 DEF Made
    <2>6. to = "finish" => engine' = "mongo"
        BY <1>1, <1>3, <1>4
    <2>7. Finds(c)'
        BY <1>3, <2>1, <2>6 DEF Finds
    <2> QED
        BY <2>4, <2>5, <2>7
<1>9. to \in Statements \cup {"done"}
    BY <1>1, <1>4, StatementsAre
<1> QED
    BY <1>1, <1>2, <1>6, <1>7, <1>8, <1>9, StatementGoes

LEMMA CreateAgainStep == ASSUME AdminInv, NEW c \in Commands, CreateAgain(c) PROVE AdminInv'
<1>1. PICK ok \in BOOLEAN : Statement(c, "create again", ok, "finish")
    BY DEF CreateAgain, HasDb
<1>2. "create again" \notin {"idle", "up", "ping", "finish"} \cup Over
    BY DEF Over
<1>3. /\ pc[c] = "create again" /\ pc'[c] = (IF ok THEN "finish" ELSE "failed")
      /\ UNCHANGED <<engine, cmd, up, alone>> /\ Db(c) \in Databases /\ up = "ready" /\ ServerOK
    BY <1>1, <1>2, Happens, ZenonT(60)
<1>4. engine = "mysql" /\ cmd[c].action = "reset"
    BY <1>3, Knows
<1>5. /\ there' = there \cup {Db(c)} /\ schema' = schema \cup {Db(c)}
      /\ UNCHANGED <<password, rows, grants, hstore>>
    BY DEF CreateAgain
<1>6. ServerOK'
    BY <1>3, <1>5 DEF ServerOK, UsersHaveGrants, Roles
<1>7. Spares(c)
    BY <1>5 DEF Spares
<1>8. ASSUME ok PROVE Belongs(c)' /\ Made(c)' /\ Finds(c)'
    <2>1. Db(c)' \in schema' /\ pc'[c] = "finish"
        BY <1>3, <1>5, <1>8 DEF Db
    <2> QED
        BY <1>3, <1>4, <2>1, OfIs DEF Belongs, Made, Finds
<1> QED
    BY <1>1, <1>2, <1>4, <1>6, <1>7, <1>8, StatementsAre, StatementGoes

LEMMA CreateMissingDbStep == ASSUME AdminInv, NEW c \in Commands, CreateMissingDb(c) PROVE AdminInv'
<1>1. Statement(c, "create missing", TRUE, "create user")
    BY DEF CreateMissingDb
<1>2. "create missing" \notin {"idle", "up", "ping", "finish"} \cup Over
    BY DEF Over
<1>3. /\ pc[c] = "create missing" /\ pc'[c] = "create user"
      /\ UNCHANGED <<engine, cmd, up, alone>> /\ Db(c) \in Databases /\ up = "ready" /\ ServerOK
    BY <1>1, <1>2, Happens, ZenonT(60)
<1>4. engine \in {"mysql", "mongo"} /\ cmd[c].action = "create"
    BY <1>3, Knows, EngineIs
<1>5. /\ there' = there \cup {Db(c)} /\ schema' = schema \cup {Db(c)}
      /\ UNCHANGED <<password, rows, grants, hstore>>
    BY DEF CreateMissingDb
<1>6. ServerOK'
    BY <1>3, <1>5 DEF ServerOK, UsersHaveGrants, Roles
<1>7. Spares(c)
    BY <1>5 DEF Spares
<1>8. Belongs(c)' /\ Made(c)' /\ Finds(c)'
    <2>1. HasDb(c)'
        BY <1>3, <1>5, InNext
    <2> QED
        BY <1>3, <1>4, <2>1, OfIs DEF Belongs, Made, Finds
<1> QED
    BY <1>1, <1>2, <1>4, <1>6, <1>7, <1>8, StatementsAre, StatementGoes

LEMMA CreateUserStep == ASSUME AdminInv, NEW c \in Commands, CreateUser(c) PROVE AdminInv'
<1>1. PICK to \in {"alter user", "finish"} :
        /\ Statement(c, "create user", TRUE, to)
        /\ to = IF engine = "mysql" THEN "alter user" ELSE "finish"
    BY DEF CreateUser
<1>2. "create user" \notin {"idle", "up", "ping", "finish"} \cup Over
    BY DEF Over
<1>3. /\ pc[c] = "create user" /\ pc'[c] = to
      /\ UNCHANGED <<engine, cmd, up, alone>>
      /\ Db(c) \in Databases /\ cmd[c].owner \in Owners /\ up = "ready" /\ ServerOK /\ Made(c)
      /\ RoleOf(c) \in Roles /\ NewPassword(c) \in Owners \cup Passwords
    BY <1>1, <1>2, Happens, ZenonT(60)
<1>4. engine \in {"mysql", "mongo"} /\ cmd[c].action = "create"
    BY <1>3, Knows, EngineIs
<1>5. /\ password' = IF HasRole(c) THEN password ELSE [password EXCEPT ![RoleOf(c)] = NewPassword(c)]
      /\ grants' = IF engine = "mongo" /\ ~HasRole(c)
                   THEN [grants EXCEPT ![Db(c)] = @ \cup {cmd[c].owner}] ELSE grants
      /\ UNCHANGED <<there, schema, rows, hstore>>
    BY DEF CreateUser
<1>6. UsersHaveGrants'
    <2> SUFFICES ASSUME engine = "mongo", NEW d \in Databases, NEW o \in Owners, password'[<<d, o>>] # None
                 PROVE  o \in grants'[d]
        BY <1>3 DEF UsersHaveGrants
    <2>1. RoleOf(c) = <<Db(c), cmd[c].owner>>
        BY DEF RoleOf
    <2>2. <<d, o>> \in Roles
        BY DEF Roles
    <2>3. CASE password[<<d, o>>] # None
        BY <1>3, <1>5, <2>3 DEF ServerOK, UsersHaveGrants
    <2>4. CASE password[<<d, o>>] = None
        <3>1. ~HasRole(c) /\ <<d, o>> = RoleOf(c)
            BY <1>3, <1>5, <2>2, <2>4 DEF ServerOK
        <3>2. d = Db(c) /\ o = cmd[c].owner
            <4>1. <<d, o>> = <<Db(c), cmd[c].owner>>
                BY <2>1, <3>1
            <4>2. \A p, q, s, t : <<p, q>> = <<s, t>> => p = s /\ q = t
                OBVIOUS
            <4> QED
                BY <4>1, <4>2
        <3>3. grants'[Db(c)] = grants[Db(c)] \cup {cmd[c].owner}
            BY <1>3, <1>5, <3>1 DEF ServerOK
        <3> QED
            BY <3>2, <3>3
    <2> QED
        BY <2>3, <2>4
<1>7. ServerOK'
    BY <1>3, <1>5, <1>6 DEF ServerOK, Roles
<1>8. Spares(c)
    BY <1>3, <1>5, NoneAssumption DEF Spares, ServerOK
<1>9. Belongs(c)' /\ Made(c)' /\ Finds(c)'
    <2>1. HasRole(c)' /\ HasDb(c)' = HasDb(c) /\ Db(c)' = Db(c) /\ OnlyCreated(Db(c))' = OnlyCreated(Db(c))
        BY <1>3, <1>5, InNext, NoneAssumption DEF HasRole, HasDb, ServerOK
    <2>2. pc[c] \in Statements
        BY <1>3, <1>4, StatementsAre
    <2>3. OnlyCreated(Db(c)) => HasDb(c)
        BY <1>3, <1>4, <2>2 DEF Made
    <2>4. engine = "mongo" => cmd'[c].owner \in grants'[Db(c)]
        <3>1. ASSUME engine = "mongo", HasRole(c) PROVE cmd[c].owner \in grants[Db(c)]
            BY <1>3, <3>1 DEF ServerOK, UsersHaveGrants, HasRole, RoleOf
        <3> QED
            BY <1>3, <1>5, <3>1 DEF ServerOK
    <2>5. Belongs(c)'
        BY <1>3, <1>4, OfIs DEF Belongs
    <2>6. to = "finish" => engine = "mongo"
        BY <1>1, <1>4
    <2>7. Made(c)'
        BY <1>3, <2>1, <2>3, <2>4, <2>6 DEF Made
    <2>8. Finds(c)'
        BY <1>3, <1>4 DEF Finds
    <2> QED
        BY <2>5, <2>7, <2>8
<1>10. to \in Statements \cup {"done"}
    BY <1>1, <1>4, StatementsAre
<1> QED
    BY <1>1, <1>2, <1>7, <1>8, <1>9, <1>10, StatementGoes

LEMMA AlterUserStep == ASSUME AdminInv, NEW c \in Commands, AlterUser(c) PROVE AdminInv'
<1>1. Statement(c, "alter user", TRUE, "grant all")
    BY DEF AlterUser
<1>2. "alter user" \notin {"idle", "up", "ping", "finish"} \cup Over
    BY DEF Over
<1>3. /\ pc[c] = "alter user" /\ pc'[c] = "grant all"
      /\ UNCHANGED <<engine, cmd, up, alone>> /\ up = "ready" /\ ServerOK /\ Made(c)
      /\ RoleOf(c) \in Roles /\ NewPassword(c) \in Owners \cup Passwords
    BY <1>1, <1>2, Happens, ZenonT(60)
<1>4. engine = "mysql" /\ cmd[c].action = "create"
    BY <1>3, Knows
<1>5. /\ password' = [password EXCEPT ![RoleOf(c)] = NewPassword(c)]
      /\ UNCHANGED <<there, schema, rows, grants, hstore>>
    BY DEF AlterUser
<1>6. ServerOK'
    BY <1>3, <1>4, <1>5 DEF ServerOK, UsersHaveGrants, Roles
<1>7. Spares(c)
    BY <1>3, <1>5, NoneAssumption DEF Spares, ServerOK
<1>8. Belongs(c)' /\ Made(c)' /\ Finds(c)'
    <2>1. HasRole(c)' /\ HasDb(c)' = HasDb(c) /\ OnlyCreated(Db(c))' = OnlyCreated(Db(c))
        BY <1>3, <1>5, InNext, NoneAssumption DEF HasDb, ServerOK
    <2>2. OnlyCreated(Db(c)) => HasDb(c)
        BY <1>3, <1>4, StatementsAre DEF Made
    <2> QED
        BY <1>3, <1>4, <2>1, <2>2, OfIs DEF Belongs, Made, Finds
<1> QED
    BY <1>1, <1>2, <1>4, <1>6, <1>7, <1>8, StatementsAre, StatementGoes

LEMMA GrantAllStep == ASSUME AdminInv, NEW c \in Commands, GrantAll(c) PROVE AdminInv'
<1>1. Statement(c, "grant all", TRUE, "finish")
    BY DEF GrantAll
<1>2. "grant all" \notin {"idle", "up", "ping", "finish"} \cup Over
    BY DEF Over
<1>3. /\ pc[c] = "grant all" /\ pc'[c] = "finish"
      /\ UNCHANGED <<engine, cmd, up, alone>> /\ up = "ready" /\ ServerOK /\ Made(c)
      /\ Db(c) \in Databases /\ cmd[c].owner \in Owners
    BY <1>1, <1>2, Happens, ZenonT(60)
<1>4. engine = "mysql" /\ cmd[c].action = "create"
    BY <1>3, Knows
<1>5. /\ grants' = [grants EXCEPT ![Db(c)] = @ \cup {cmd[c].owner}]
      /\ UNCHANGED <<password, there, schema, rows, hstore>>
    BY DEF GrantAll
<1>6. ServerOK'
    BY <1>3, <1>4, <1>5 DEF ServerOK, UsersHaveGrants, Roles
<1>7. Spares(c)
    BY <1>3, <1>5 DEF Spares, ServerOK
<1>8. Belongs(c)' /\ Made(c)' /\ Finds(c)'
    <2>1. /\ HasRole(c)' = HasRole(c) /\ HasDb(c)' = HasDb(c) /\ Db(c)' = Db(c)
          /\ OnlyCreated(Db(c))' = OnlyCreated(Db(c))
        BY <1>3, <1>5, InNext DEF HasDb, HasRole
    <2>2. HasRole(c) /\ (OnlyCreated(Db(c)) => HasDb(c))
        BY <1>3, <1>4, StatementsAre DEF Made
    <2>3. cmd'[c].owner \in grants'[Db(c)]
        BY <1>3, <1>5 DEF ServerOK
    <2> QED
        BY <1>3, <1>4, <2>1, <2>2, <2>3, OfIs DEF Belongs, Made, Finds
<1> QED
    BY <1>1, <1>2, <1>4, <1>6, <1>7, <1>8, StatementsAre, StatementGoes

LEMMA FinishStep == ASSUME AdminInv, NEW c \in Commands, Finish(c) PROVE AdminInv'
<1>1. PICK x \in {"done", "failed"} :
        /\ pc[c] = "finish" /\ pc' = [pc EXCEPT ![c] = x]
        /\ UNCHANGED <<engine, cmd, up, pings, alone>>
        /\ x = "done" /\ Set(c, "hstore") => engine = "postgres" /\ Db(c) \in schema
    BY DEF Finish, Statement, starting
<1>2. /\ c \in Live /\ cmd[c] \in Options /\ Db(c) \in Databases
      /\ pc \in [Commands -> AllPc] /\ pings \in [Commands -> 0 .. Pings] /\ ServerOK
    BY <1>1, Knows DEF Live, Over, AdminInv, CommandsOK
<1>3. pc'[c] = x
    BY <1>1, <1>2
<1>4. /\ hstore' = IF x = "done" /\ Set(c, "hstore") THEN hstore \cup {Db(c)} ELSE hstore
      /\ IF x = "done" /\ Migrates(c)
         THEN /\ there' = there \cup {Db(c)} /\ schema' = schema \cup {Db(c)}
              /\ rows' = [rows EXCEPT ![Db(c)] = IF @ = "none" THEN "new" ELSE @]
         ELSE UNCHANGED <<there, schema, rows>>
      /\ UNCHANGED <<password, grants>>
    BY <1>3 DEF Finish
<1>5. ServerOK'
    <2>1. rows' \in [Databases -> {"none", "old", "new"}]
        BY <1>2, <1>4 DEF ServerOK
    <2>2. \A d \in Databases : rows'[d] # "none" => d \in schema'
        BY <1>2, <1>4 DEF ServerOK
    <2>3. schema \subseteq schema' /\ schema' \subseteq there' /\ there' \subseteq Databases
        BY <1>2, <1>4 DEF ServerOK
    <2>4. hstore' \subseteq schema'
        BY <1>1, <1>2, <1>4, <2>3 DEF ServerOK
    <2>5. Roles' = Roles /\ UsersHaveGrants'
        BY <1>1, <1>2, <1>4 DEF ServerOK, UsersHaveGrants, Roles
    <2> QED
        BY <1>2, <1>4, <2>1, <2>2, <2>3, <2>4, <2>5 DEF ServerOK
<1>6. Spares(c)
    BY <1>4 DEF Spares
<1>7. x \in AllPc \ {"idle", "up", "ping"}
    BY DEF AllPc, Over
<1>8. Belongs(c)' /\ Made(c)' /\ Finds(c)'
    <2>1. x \notin Statements'
        BY <1>1, EngineIs, StatementsAre DEF Statements
    <2> QED
        BY <1>3, <2>1 DEF Belongs, Made, Finds
<1>9. pings' = [pings EXCEPT ![c] = pings[c]] /\ pings[c] \in 0 .. Pings
    BY <1>1, <1>2
<1> QED
    BY <1>1, <1>2, <1>5, <1>6, <1>7, <1>8, <1>9, Goes DEF AdminInv

LEMMA KillStep == ASSUME AdminInv, NEW c \in Commands, Kill(c) PROVE AdminInv'
<1>1. /\ c \in Live /\ pc' = [pc EXCEPT ![c] = "killed"]
      /\ UNCHANGED <<engine, server, cmd, up, pings, alone>>
    BY DEF Kill, starting
<1>2. pc \in [Commands -> AllPc] /\ pings \in [Commands -> 0 .. Pings] /\ ServerOK
    BY DEF AdminInv, CommandsOK
<1>3. ServerOK' /\ Spares(c)
    BY <1>1, <1>2, ServerSame
<1>4. "killed" \in AllPc \ {"idle", "up", "ping"}
    BY DEF AllPc, Over
<1>5. Belongs(c)' /\ Made(c)' /\ Finds(c)'
    <2>1. pc'[c] = "killed" /\ "killed" \notin Statements'
        BY <1>1, <1>2, EngineIs, StatementsAre DEF Statements
    <2> QED
        BY <2>1 DEF Belongs, Made, Finds
<1>6. pings' = [pings EXCEPT ![c] = pings[c]] /\ pings[c] \in 0 .. Pings
    BY <1>1, <1>2
<1> QED
    BY <1>1, <1>3, <1>4, <1>5, <1>6, Goes DEF AdminInv

\* Where a command begins, once the server is asked.
LEMMA BeginIs ==
    ASSUME NEW o \in Options, engine \in {"postgres", "mysql", "mongo"}
    PROVE  /\ Begin(o) \in {"refused", "done", "drop", "ask role", "create missing", "ask db", "finish"}
           /\ "dry-run" \in o.flags => Begin(o) \in {"refused", "done"}
           /\ Begin(o) = "drop" => \/ o.action = "drop"
                                   \/ o.action = "reset" /\ engine # "postgres"
           /\ Begin(o) = "ask role" => o.action = "create" /\ engine = "postgres"
           /\ Begin(o) = "create missing" => o.action = "create" /\ engine # "postgres"
           /\ Begin(o) = "ask db" => o.action = "reset" /\ engine = "postgres"
           /\ Begin(o) = "finish" => o.action = "migrate"
           /\ Begin(o) = "done" => "dry-run" \in o.flags
<1>1. o.action \in {"create", "reset", "drop", "migrate"}
    BY OptionIs
<1>2. CASE o.action = "create"
    BY <1>2 DEF Begin, First
<1>3. CASE o.action = "reset"
    BY <1>3 DEF Begin, First
<1>4. CASE o.action = "drop"
    BY <1>4 DEF Begin, First
<1>5. CASE o.action = "migrate"
    BY <1>5 DEF Begin, First
<1> QED
    BY <1>1, <1>2, <1>3, <1>4, <1>5

\* Nothing is asked yet of a command that begins.
LEMMA Begun ==
    ASSUME NEW c \in Commands, cmd'[c] \in Options, pc'[c] = Begin(cmd'[c]), UNCHANGED engine,
           engine \in {"postgres", "mysql", "mongo"},
           "dry-run" \in cmd'[c].flags \/ cmd'[c].action = "migrate" \/ up' = "ready"
    PROVE  /\ pc'[c] \in AllPc \ {"idle", "up", "ping"}
           /\ Belongs(c)' /\ Made(c)' /\ Finds(c)'
<1>1. PICK o \in Options : o = cmd'[c]
    OBVIOUS
<1>2. PICK x : x = pc'[c]
    OBVIOUS
<1>3. /\ x \in {"refused", "done", "drop", "ask role", "create missing", "ask db", "finish"}
      /\ "dry-run" \in o.flags => x \in {"refused", "done"}
      /\ x = "drop" => \/ o.action = "drop"
                       \/ o.action = "reset" /\ engine # "postgres"
      /\ x = "ask role" => o.action = "create" /\ engine = "postgres"
      /\ x = "create missing" => o.action = "create" /\ engine # "postgres"
      /\ x = "ask db" => o.action = "reset" /\ engine = "postgres"
      /\ x = "finish" => o.action = "migrate"
    BY <1>1, <1>2, BeginIs
<1>4. Statements' = Statements
    BY DEF Statements
<1>5. x \in Statements <=> x \notin {"refused", "done"}
    <2>1. CASE engine = "postgres"
        BY <1>3, <2>1, StatementsAre
    <2>2. CASE engine = "mysql"
        BY <1>3, <2>2, StatementsAre
    <2>3. CASE engine = "mongo"
        BY <1>3, <2>3, StatementsAre
    <2> QED
        BY <2>1, <2>2, <2>3
<1>6. x \in AllPc \ {"idle", "up", "ping"}
    BY <1>3, <1>5 DEF AllPc, Over
<1>7. x \in Statements => x \in Of(o.action) /\ (up' = "ready" \/ o.action = "migrate")
    BY <1>1, <1>3, <1>5, OfIs
<1>8. Belongs(c)'
    BY <1>1, <1>2, <1>3, <1>4, <1>7 DEF Belongs
<1>9. Made(c)'
    BY <1>1, <1>2, <1>3 DEF Made
<1>10. Finds(c)'
    BY <1>1, <1>2, <1>3 DEF Finds
<1> QED
    BY <1>2, <1>6, <1>8, <1>9, <1>10

LEMMA UpStep == ASSUME AdminInv, NEW c \in Commands, Up(c) PROVE AdminInv'
<1>1. /\ pc[c] = "up" /\ pc' = [pc EXCEPT ![c] = "ping"] /\ up' = IF up = "down" THEN "up" ELSE up
      /\ UNCHANGED <<engine, server, cmd, pings, alone>>
    BY DEF Up
<1>2. /\ pc \in [Commands -> AllPc] /\ pings \in [Commands -> 0 .. Pings] /\ pings[c] < Pings
      /\ "dry-run" \notin cmd[c].flags /\ up \in {"down", "up", "ready"} /\ ServerOK
    BY <1>1 DEF AdminInv, CommandsOK, Belongs
<1>3. c \in Live /\ "ping" \in AllPc \ {"idle"}
    BY <1>1 DEF Live, Over, AllPc
<1>4. ServerOK' /\ Spares(c)
    BY <1>1, <1>2, ServerSame
<1>5. Belongs(c)' /\ Made(c)' /\ Finds(c)'
    <2>1. pc'[c] = "ping" /\ "ping" \notin Statements'
        BY <1>1, <1>2, EngineIs, StatementsAre DEF Statements
    <2> QED
        BY <1>1, <1>2, <2>1 DEF Belongs, Made, Finds
<1>6. pings' = [pings EXCEPT ![c] = pings[c]] /\ pings[c] \in 0 .. Pings
    BY <1>1, <1>2
<1>7. up' \in {"down", "up", "ready"} /\ (up = "ready" => up' = "ready")
    BY <1>1, <1>2
<1> QED
    BY <1>1, <1>2, <1>3, <1>4, <1>5, <1>6, <1>7, Goes

LEMMA PingStep == ASSUME AdminInv, NEW c \in Commands, Ping(c) PROVE AdminInv'
<1>1. /\ pc[c] = "ping" /\ UNCHANGED <<engine, server, cmd, up, alone>>
      /\ pc' = [pc EXCEPT ![c] = IF up = "ready" THEN Begin(cmd[c])
                                 ELSE IF pings[c] + 1 = Pings THEN "failed" ELSE "ping"]
      /\ pings' = [pings EXCEPT ![c] = IF up = "ready" THEN pings[c] ELSE pings[c] + 1]
    BY DEF Ping
<1>2. /\ pc \in [Commands -> AllPc] /\ pings \in [Commands -> 0 .. Pings] /\ pings[c] < Pings
      /\ "dry-run" \notin cmd[c].flags /\ up \in {"down", "up", "ready"} /\ ServerOK
      /\ cmd[c] \in Options
    BY <1>1, Knows DEF AdminInv, CommandsOK, Belongs
<1>3. c \in Live
    BY <1>1 DEF Live, Over
<1>4. ServerOK' /\ Spares(c)
    BY <1>1, <1>2, ServerSame
<1>5. CASE up = "ready"
    <2>1. pc' = [pc EXCEPT ![c] = Begin(cmd[c])] /\ pings' = [pings EXCEPT ![c] = pings[c]]
        BY <1>1, <1>5
    <2>2. pc'[c] = Begin(cmd'[c]) /\ cmd'[c] \in Options /\ up' = "ready"
        BY <1>1, <1>2, <1>5, <2>1 DEF Begin, Refused, First
    <2>3. engine \in {"postgres", "mysql", "mongo"} /\ UNCHANGED engine
        BY <1>1, EngineIs
    <2>4. pc'[c] \in AllPc' \ {"idle", "up", "ping"} /\ Belongs(c)' /\ Made(c)' /\ Finds(c)'
        BY <2>2, <2>3, Begun DEF AllPc, Statements
    <2>5. AllPc' = AllPc
        BY <2>3 DEF AllPc, Statements
    <2>6. pc'[c] = Begin(cmd[c])
        BY <1>2, <2>1
    <2>7. Begin(cmd[c]) \in AllPc \ {"idle"} /\ Begin(cmd[c]) \notin {"up", "ping"}
        BY <2>4, <2>5, <2>6
    <2> QED
        BY <1>1, <1>2, <1>3, <1>4, <1>5, <2>1, <2>4, <2>7, Goes
<1>6. CASE up # "ready"
    <2>1. PICK x \in {"failed", "ping"}, y \in 0 .. Pings :
            /\ x = IF pings[c] + 1 = Pings THEN "failed" ELSE "ping"
            /\ y = pings[c] + 1 /\ (x = "ping" => y < Pings)
            /\ pc' = [pc EXCEPT ![c] = x] /\ pings' = [pings EXCEPT ![c] = y]
        <3> DEFINE x == IF pings[c] + 1 = Pings THEN "failed" ELSE "ping"
                   y == pings[c] + 1
        <3>1. Pings \in Nat /\ pings[c] \in 0 .. Pings
            BY <1>2, StartAssumption
        <3>2. y \in 0 .. Pings /\ x \in {"failed", "ping"} /\ (x = "ping" => y < Pings)
            BY <1>2, <3>1
        <3>3. pc' = [pc EXCEPT ![c] = x] /\ pings' = [pings EXCEPT ![c] = y]
            BY <1>1, <1>6
        <3> QED
            BY <3>2, <3>3
    <2>2. x \in AllPc \ {"idle", "up"} /\ pc'[c] = x
        BY <1>2, <2>1 DEF AllPc, Over
    <2>3. x \notin Statements'
        BY <2>1, <1>1, EngineIs, StatementsAre DEF Statements
    <2>4. Belongs(c)' /\ Made(c)' /\ Finds(c)'
        BY <1>1, <1>2, <2>1, <2>2, <2>3 DEF Belongs, Made, Finds
    <2> QED
        BY <1>1, <1>2, <1>3, <1>4, <2>1, <2>2, <2>4, Goes
<1> QED
    BY <1>5, <1>6

LEMMA ServerReadyStep == ASSUME AdminInv, ServerReady PROVE AdminInv'
<1>1. up' = "ready" /\ UNCHANGED <<engine, server, cmd, pc, pings, alone>>
    BY DEF ServerReady
<1>2. ServerOK'
    BY <1>1 DEF AdminInv, ServerOK, UsersHaveGrants, Roles, server
<1>3. CommandsOK'
    BY <1>1 DEF AdminInv, CommandsOK, AllPc, Statements
<1>4. ASSUME NEW c \in Commands PROVE Belongs(c)' /\ Made(c)' /\ Finds(c)' /\ Lonely(c)'
    <2>1. Belongs(c) /\ Made(c) /\ Finds(c) /\ Lonely(c)
        BY DEF AdminInv
    <2>2. Belongs(c)'
        BY <1>1, <2>1 DEF Belongs, Statements
    <2>3. Made(c)'
        BY <1>1, <2>1 DEF Made, Statements, HasRole, HasDb, RoleOf, Db, OnlyCreated, server
    <2>4. Finds(c)'
        BY <1>1, <2>1 DEF Finds, HasRole, HasDb, RoleOf, Db, Set, server
    <2>5. Lonely(c)'
        BY <1>1, <2>1 DEF Lonely, Live
    <2> QED
        BY <2>2, <2>3, <2>4, <2>5
<1> QED
    BY <1>1, <1>2, <1>3, <1>4 DEF AdminInv

LEMMA StartStep == ASSUME AdminInv, NEW c \in Commands, Start(c) PROVE AdminInv'
<1>1. PICK o \in Options :
        /\ cmd' = [cmd EXCEPT ![c] = o]
        /\ pc' = [pc EXCEPT ![c] =
                    IF Composed /\ o.action # "migrate" /\ "dry-run" \notin o.flags THEN "up" ELSE Begin(o)]
    BY DEF Start
<1>2. /\ pc[c] = "idle" /\ alone' = IF Live = {} THEN alone \cup {c} ELSE alone \ Live
      /\ UNCHANGED <<engine, server, up, pings>>
    BY DEF Start, starting
<1>3. /\ cmd \in [Commands -> Options \cup {None}] /\ pc \in [Commands -> AllPc]
      /\ pings \in [Commands -> 0 .. Pings] /\ pings[c] < Pings
      /\ cmd[c] = None /\ c \notin alone /\ alone \subseteq Commands
      /\ ServerOK /\ (Composed \/ up = "ready")
    BY <1>2 DEF AdminInv, CommandsOK, Lonely
<1>4. /\ cmd'[c] = o
      /\ \A b \in Commands \ {c} : cmd'[b] = cmd[b] /\ pc'[b] = pc[b]
    BY <1>1, <1>3
<1>5. pc'[c] \in AllPc \ {"idle", "ping"} /\ Belongs(c)' /\ Made(c)' /\ Finds(c)'
    <2>1. CASE Composed /\ o.action # "migrate" /\ "dry-run" \notin o.flags
        <3>1. pc'[c] = "up"
            BY <1>1, <1>3, <2>1
        <3>2. "up" \notin Statements'
            BY <1>2, EngineIs, StatementsAre DEF Statements
        <3> QED
            BY <1>4, <2>1, <3>1, <3>2 DEF AllPc, Belongs, Made, Finds
    <2>2. CASE ~(Composed /\ o.action # "migrate" /\ "dry-run" \notin o.flags)
        <3>1. pc'[c] = Begin(o)
            BY <1>1, <1>3, <2>2
        <3>2. Begin(o) = Begin(o)'
            BY <1>2 DEF Begin, Refused, First
        <3>3. /\ engine \in {"postgres", "mysql", "mongo"} /\ UNCHANGED engine
              /\ "dry-run" \in cmd'[c].flags \/ cmd'[c].action = "migrate" \/ up' = "ready"
            BY <1>2, <1>3, <1>4, <2>2, EngineIs
        <3>4. pc'[c] = Begin(cmd'[c]) /\ cmd'[c] \in Options
            BY <1>4, <3>1, <3>2
        <3>5. pc'[c] \in AllPc \ {"idle", "up", "ping"} /\ Belongs(c)' /\ Made(c)' /\ Finds(c)'
            BY <3>3, <3>4, Begun
        <3> QED
            BY <3>5
    <2> QED
        BY <2>1, <2>2
<1>6. ServerOK'
    BY <1>2, <1>3 DEF ServerOK, UsersHaveGrants, Roles, server
<1>7. CommandsOK'
    <2>1. AllPc' = AllPc
        BY <1>2 DEF AllPc, Statements
    <2>2. cmd' \in [Commands -> Options \cup {None}] /\ pc' \in [Commands -> AllPc]
        <3>1. pc' = [pc EXCEPT ![c] = pc'[c]]
            BY <1>1, <1>3
        <3> QED
            BY <1>1, <1>3, <1>5, <3>1
    <2>3. alone' \subseteq Commands
        BY <1>2, <1>3
    <2>4. o # None
        BY OptionIs
    <2>5. \A b \in Commands : pc'[b] = "idle" <=> cmd'[b] = None
        BY <1>4, <1>5, <2>4 DEF AdminInv, CommandsOK
    <2>6. \A b \in Commands : pc'[b] \in {"idle", "up", "ping"} => pings'[b] < Pings
        BY <1>2, <1>3, <1>4 DEF AdminInv, CommandsOK
    <2> QED
        BY <1>2, <1>3, <2>1, <2>2, <2>3, <2>5, <2>6 DEF CommandsOK
<1>8. Lonely(c)'
    <2>1. c \in alone' => Live = {}
        BY <1>2, <1>3
    <2>2. Live = {} => Live' \subseteq {c}
        BY <1>4 DEF Live
    <2> QED
        BY <1>5, <2>1, <2>2 DEF Lonely
<1>9. ASSUME NEW b \in Commands, b # c PROVE Belongs(b)' /\ Made(b)' /\ Finds(b)' /\ Lonely(b)'
    <2>1. /\ pc'[b] = pc[b] /\ cmd'[b] = cmd[b] /\ (b \in alone' => b \in alone /\ b \notin Live)
          /\ Belongs(b) /\ Made(b) /\ Finds(b) /\ Lonely(b)
        BY <1>2, <1>4, <1>9 DEF AdminInv
    <2>2. Belongs(b)'
        BY <1>2, <2>1 DEF Belongs, Statements
    <2>3. OnlyCreated(Db(b))' => OnlyCreated(Db(b))
        BY <1>3, <1>4, <2>1 DEF OnlyCreated, Db
    <2>4. Made(b)'
        <3>1. HasRole(b)' = HasRole(b) /\ HasDb(b)' = HasDb(b) /\ Db(b)' = Db(b) /\ grants' = grants
            BY <1>2, <2>1 DEF HasRole, RoleOf, HasDb, Db, server
        <3>2. Statements' = Statements
            BY <1>2 DEF Statements
        <3> QED
            BY <2>1, <2>3, <3>1, <3>2 DEF Made
    <2>5. Finds(b)'
        BY <2>1 DEF Finds, Live, Over
    <2>6. Lonely(b)'
        BY <1>4, <1>9, <2>1 DEF Lonely, Live
    <2> QED
        BY <2>2, <2>4, <2>5, <2>6
<1> QED
    BY <1>2, <1>5, <1>6, <1>7, <1>8, <1>9 DEF AdminInv

LEMMA AdminInit == ASSUME Init PROVE AdminInv
<1>1. engine \in {"postgres", "mysql", "mongo"} /\ engine \in Engines
    BY EngineAssumption DEF Init
<1>2. ServerOK
    <2>1. password \in [Roles -> Owners \cup Passwords \cup {None, "old password"}]
        BY DEF Init
    <2>2. UsersHaveGrants
        BY DEF Init, UsersHaveGrants
    <2> QED
        BY <2>1, <2>2 DEF Init, ServerOK
<1>3. CommandsOK
    <2>1. cmd \in [Commands -> Options \cup {None}] /\ pc \in [Commands -> AllPc] /\ alone \subseteq Commands
        BY DEF Init, AllPc
    <2>2. 0 \in 0 .. Pings /\ 0 < Pings
        BY StartAssumption
    <2>3. /\ pings \in [Commands -> 0 .. Pings]
          /\ \A c \in Commands : pings[c] = 0 /\ cmd[c] = None /\ pc[c] = "idle"
        BY <2>2 DEF Init
    <2> QED
        BY <2>1, <2>2, <2>3 DEF CommandsOK
<1>4. ASSUME NEW c \in Commands PROVE Belongs(c) /\ Made(c) /\ Finds(c) /\ Lonely(c)
    <2>1. pc[c] = "idle" /\ "idle" \notin Statements /\ c \notin alone
        BY <1>1, StatementsAre DEF Init
    <2> QED
        BY <2>1 DEF Belongs, Made, Finds, Lonely
<1> QED
    BY <1>1, <1>2, <1>3, <1>4 DEF Init, AdminInv

\* What a command may do next.
Step(c) ==
    \/ Start(c) \/ Up(c) \/ Ping(c)
    \/ AskRole(c) \/ SetRole(c) \/ AskDb(c) \/ CreateDb(c) \/ GrantDb(c) \/ GrantSchema(c)
    \/ DropSchema(c) \/ CreateSchema(c)
    \/ DropDb(c) \/ CreateAgain(c) \/ CreateMissingDb(c) \/ CreateUser(c) \/ AlterUser(c)
    \/ GrantAll(c) \/ Finish(c) \/ Kill(c)

LEMMA AdminStep == ASSUME AdminInv, [Next]_vars PROVE AdminInv'
<1>1. CASE UNCHANGED vars
    <2>1. UNCHANGED <<engine, password, there, schema, rows, grants, hstore, cmd, pc, up, pings, alone>>
        BY <1>1 DEF vars, server, starting
    <2>2. Roles' = Roles /\ Statements' = Statements /\ AllPc' = AllPc /\ Live' = Live
        BY <2>1 DEF Roles, Statements, AllPc, Live
    <2>3. ServerOK' /\ CommandsOK'
        BY <2>1, <2>2 DEF AdminInv, ServerOK, CommandsOK, UsersHaveGrants
    <2>4. ASSUME NEW c \in Commands PROVE Belongs(c)' /\ Made(c)' /\ Finds(c)' /\ Lonely(c)'
        <3>1. /\ HasRole(c)' = HasRole(c) /\ HasDb(c)' = HasDb(c) /\ Db(c)' = Db(c)
              /\ OnlyCreated(Db(c))' = OnlyCreated(Db(c))
            BY <2>1 DEF HasRole, RoleOf, HasDb, Db, OnlyCreated
        <3>2. Belongs(c) /\ Made(c) /\ Finds(c) /\ Lonely(c)
            BY DEF AdminInv
        <3>3. Belongs(c)'
            BY <2>1, <2>2, <3>2 DEF Belongs
        <3>4. Made(c)'
            BY <2>1, <2>2, <3>1, <3>2 DEF Made
        <3>5. Finds(c)'
            BY <2>1, <3>1, <3>2 DEF Finds, Set
        <3>6. Lonely(c)'
            BY <2>1, <2>2, <3>2 DEF Lonely
        <3> QED
            BY <3>3, <3>4, <3>5, <3>6
    <2> QED
        BY <2>1, <2>3, <2>4 DEF AdminInv
<1>2. CASE ServerReady
    BY <1>2, ServerReadyStep
<1>3. ASSUME NEW c \in Commands, Step(c) PROVE AdminInv'
    BY <1>3, StartStep, UpStep, PingStep, AskRoleStep, SetRoleStep, AskDbStep, CreateDbStep, GrantDbStep,
       GrantSchemaStep, DropSchemaStep, CreateSchemaStep, DropDbStep, CreateAgainStep, CreateMissingDbStep,
       CreateUserStep, AlterUserStep, GrantAllStep, FinishStep, KillStep DEF Step
<1> QED
    BY <1>1, <1>2, <1>3 DEF Next, Step

LEMMA AdminAlways == Spec => []AdminInv
BY AdminInit, AdminStep, PTL DEF Spec
-------------------------------------------------------------------------------------
\* The state is well formed: a statement belongs to the engine and is sent to a server that
\* is ready, or is a migration's; rows lie in a schema, a schema in a database that is there.
THEOREM AdminTypes == Spec => []TypeOK
<1>1. AdminInv => TypeOK
    BY DEF AdminInv, ServerOK, CommandsOK, Belongs, TypeOK, AllPc
<1> QED
    BY <1>1, AdminAlways, PTL
-------------------------------------------------------------------------------------
(* What one step of a command does.                                                  *)

LEMMA ItsOwnStep ==
    ASSUME AdminInv, [Next]_vars, NEW c \in Commands, pc'[c] # pc[c]
    PROVE  Step(c)
<1>1. ASSUME NEW b \in Commands, Step(b), b # c PROVE FALSE
    <2>1. \E x : pc' = [pc EXCEPT ![b] = x]
        <3>1. CASE \/ AskRole(b) \/ SetRole(b) \/ AskDb(b) \/ CreateDb(b) \/ GrantDb(b) \/ GrantSchema(b)
                   \/ DropSchema(b) \/ CreateSchema(b)
            BY <3>1 DEF Statement, AskRole, SetRole, AskDb, CreateDb, GrantDb, GrantSchema, DropSchema,
                        CreateSchema
        <3>2. CASE \/ DropDb(b) \/ CreateAgain(b) \/ CreateMissingDb(b) \/ CreateUser(b) \/ AlterUser(b)
                   \/ GrantAll(b) \/ Finish(b)
            BY <3>2 DEF Statement, DropDb, CreateAgain, CreateMissingDb, CreateUser, AlterUser, GrantAll,
                        Finish
        <3>3. CASE Start(b) \/ Up(b) \/ Ping(b) \/ Kill(b)
            BY <3>3 DEF Start, Up, Ping, Kill
        <3> QED
            BY <1>1, <3>1, <3>2, <3>3 DEF Step
    <2> QED
        BY <1>1, <2>1 DEF AdminInv, CommandsOK
<1>2. ~(UNCHANGED vars) /\ ~ServerReady
    BY DEF vars, ServerReady
<1> QED
    BY <1>1, <1>2 DEF Next, Step

LEMMA OnePc ==
    ASSUME AdminInv, NEW c \in Commands, NEW x, pc' = [pc EXCEPT ![c] = x]
    PROVE  pc'[c] = x
BY DEF AdminInv, CommandsOK

\* Where a command that has begun may fail.
LEMMA Fails ==
    ASSUME AdminInv, NEW c \in Commands, Step(c), pc[c] # "idle", pc'[c] = "failed"
    PROVE  \/ pc[c] = "ping" /\ pings'[c] = Pings
           \/ pc[c] = "create role" /\ HasRole(c)
           \/ pc[c] = "alter role" /\ ~HasRole(c)
           \/ pc[c] = "ask db" /\ cmd[c].action # "create" /\ ~HasDb(c)
           \/ pc[c] = "create db" /\ ~(~HasDb(c) /\ HasRole(c))
           \/ pc[c] = "grant" /\ ~(HasDb(c) /\ HasRole(c))
           \/ pc[c] = "grant schema" /\ ~(Db(c) \in schema /\ HasRole(c))
           \/ pc[c] = "drop schema" /\ ~HasDb(c)
           \/ pc[c] = "create schema" /\ ~(HasDb(c) /\ HasRole(c) /\ Db(c) \notin schema)
           \/ pc[c] = "create again" /\ HasDb(c)
           \/ /\ pc[c] = "finish"
              /\ \/ up # "ready"
                 \/ Set(c, "hstore") /\ ~(engine = "postgres" /\ Db(c) \in schema)
                 \/ Migrates(c) /\ ~(Db(c) \in schema \/ engine = "mongo")
<1>1. ASSUME NEW from, from \notin {"idle", "up", "ping", "finish"} \cup Over, NEW ok \in BOOLEAN, NEW to,
             to # "failed", Statement(c, from, ok, to)
      PROVE  pc[c] = from /\ ~ok
    BY <1>1, Happens
<1>2. ~Start(c) /\ ~Up(c) /\ ~Kill(c)
    BY OnePc DEF Start, Up, Kill
<1>3. CASE Ping(c)
    <2>1. /\ pc[c] = "ping" /\ pc'[c] = IF up = "ready" THEN Begin(cmd[c])
                                       ELSE IF pings[c] + 1 = Pings THEN "failed" ELSE "ping"
          /\ pings' = [pings EXCEPT ![c] = IF up = "ready" THEN pings[c] ELSE pings[c] + 1]
        BY <1>3, OnePc DEF Ping
    <2>2. Begin(cmd[c]) # "failed"
        BY <2>1, Knows, EngineIs, BeginIs
    <2> QED
        BY <2>1, <2>2 DEF AdminInv, CommandsOK
<1>4. CASE AskRole(c)
    <2>1. PICK to : to \in {"create role", "alter role", "ask db"} /\ Statement(c, "ask role", TRUE, to)
        BY <1>4 DEF AskRole
    <2> QED
        BY <1>1, <2>1 DEF Over
<1>5. CASE SetRole(c)
    <2>1. HasRole(c) \in BOOLEAN
        BY DEF HasRole
    <2> QED
        BY <1>1, <1>5, <2>1 DEF SetRole, Over
<1>6. CASE AskDb(c)
    <2>1. PICK to : /\ to \in {"grant", "create db", "drop schema", "create schema", "finish"}
                    /\ Statement(c, "ask db", cmd[c].action = "create" \/ HasDb(c), to)
        BY <1>6 DEF AskDb
    <2> QED
        BY <1>1, <2>1 DEF Over
<1>7. CASE CreateDb(c)
    BY <1>1, <1>7 DEF CreateDb, Over
<1>8. CASE GrantDb(c)
    BY <1>1, <1>8 DEF GrantDb, Over
<1>9. CASE GrantSchema(c)
    BY <1>1, <1>9 DEF GrantSchema, Over
<1>10. CASE DropSchema(c)
    <2>1. PICK to : to \in {"create schema", "finish"} /\ Statement(c, "drop schema", HasDb(c), to)
        BY <1>10 DEF DropSchema
    <2>2. HasDb(c) \in BOOLEAN
        BY DEF HasDb
    <2> QED
        BY <1>1, <2>1, <2>2 DEF Over
<1>11. CASE CreateSchema(c)
    BY <1>1, <1>11 DEF CreateSchema, Over
<1>12. CASE DropDb(c)
    <2>1. PICK to : to \in {"create again", "finish", "done"} /\ Statement(c, "drop", TRUE, to)
        BY <1>12 DEF DropDb
    <2> QED
        BY <1>1, <2>1 DEF Over
<1>13. CASE CreateAgain(c)
    BY <1>1, <1>13 DEF CreateAgain, Over
<1>14. CASE CreateMissingDb(c)
    BY <1>1, <1>14 DEF CreateMissingDb, Over
<1>15. CASE CreateUser(c)
    <2>1. PICK to : to \in {"alter user", "finish"} /\ Statement(c, "create user", TRUE, to)
        BY <1>15 DEF CreateUser
    <2> QED
        BY <1>1, <2>1 DEF Over
<1>16. CASE AlterUser(c)
    BY <1>1, <1>16 DEF AlterUser, Over
<1>17. CASE GrantAll(c)
    BY <1>1, <1>17 DEF GrantAll, Over
<1>18. CASE Finish(c)
    BY <1>18, OnePc DEF Finish, Statement
<1> QED
    BY <1>2, <1>3, <1>4, <1>5, <1>6, <1>7, <1>8, <1>9, <1>10, <1>11, <1>12, <1>13, <1>14, <1>15, <1>16,
       <1>17, <1>18 DEF Step

\* A create ends with "finish".
LEMMA Finishes ==
    ASSUME AdminInv, NEW c \in Commands, Step(c), pc[c] # "idle", cmd[c].action = "create", pc'[c] = "done"
    PROVE  pc[c] = "finish"
<1>1. ASSUME NEW from, from \notin {"idle", "up", "ping", "finish"} \cup Over, NEW ok \in BOOLEAN, NEW to,
             to # "done", Statement(c, from, ok, to)
      PROVE  FALSE
    BY <1>1, Happens
<1>2. ~Start(c) /\ ~Up(c) /\ ~Kill(c)
    BY OnePc DEF Start, Up, Kill
<1>3. CASE Ping(c)
    <2>1. /\ pc[c] = "ping" /\ pc'[c] = IF up = "ready" THEN Begin(cmd[c])
                                       ELSE IF pings[c] + 1 = Pings THEN "failed" ELSE "ping"
        BY <1>3, OnePc DEF Ping
    <2>2. "dry-run" \notin cmd[c].flags
        BY <2>1 DEF AdminInv, Belongs
    <2>3. Begin(cmd[c]) # "done"
        BY <2>1, <2>2, Knows, EngineIs, BeginIs
    <2> QED
        BY <2>1, <2>3
<1>4. CASE AskRole(c)
    <2>1. PICK to : to \in {"create role", "alter role", "ask db"} /\ Statement(c, "ask role", TRUE, to)
        BY <1>4 DEF AskRole
    <2> QED
        BY <1>1, <2>1 DEF Over
<1>5. CASE SetRole(c)
    <2>1. HasRole(c) \in BOOLEAN
        BY DEF HasRole
    <2> QED
        BY <1>1, <1>5, <2>1 DEF SetRole, Over
<1>6. CASE AskDb(c)
    <2>1. PICK to : /\ to \in {"grant", "create db", "drop schema", "create schema", "finish"}
                    /\ Statement(c, "ask db", cmd[c].action = "create" \/ HasDb(c), to)
        BY <1>6 DEF AskDb
    <2> QED
        BY <1>1, <2>1 DEF Over
<1>7. ~CreateDb(c) /\ ~GrantDb(c) /\ ~GrantSchema(c)
    BY <1>1 DEF CreateDb, GrantDb, GrantSchema, Over
<1>8. ~DropSchema(c) /\ ~CreateSchema(c) /\ ~DropDb(c) /\ ~CreateAgain(c)
    BY Knows DEF DropSchema, CreateSchema, DropDb, CreateAgain, Statement
<1>9. ~CreateMissingDb(c) /\ ~AlterUser(c) /\ ~GrantAll(c)
    BY <1>1 DEF CreateMissingDb, AlterUser, GrantAll, Over
<1>10. CASE CreateUser(c)
    <2>1. PICK to : to \in {"alter user", "finish"} /\ Statement(c, "create user", TRUE, to)
        BY <1>10 DEF CreateUser
    <2> QED
        BY <1>1, <2>1 DEF Over
<1>11. CASE Finish(c)
    BY <1>11 DEF Finish, Statement
<1> QED
    BY <1>2, <1>3, <1>4, <1>5, <1>6, <1>7, <1>8, <1>9, <1>10, <1>11 DEF Step

\* What a create changes of roles and rows.
LEMMA Keeps ==
    ASSUME AdminInv, NEW c \in Commands, Step(c), pc[c] # "idle", cmd[c].action = "create"
    PROVE  /\ \/ password' = password
              \/ /\ \A r \in Roles : r # RoleOf(c) => password'[r] = password[r]
                 /\ ~HasRole(c) \/ cmd[c].password # None \/ engine = "mysql"
           /\ \A d \in Databases : rows[d] = "old" => rows'[d] = "old"
<1>1. CASE Start(c) \/ Up(c) \/ Ping(c) \/ Kill(c)
    BY <1>1 DEF Start, Up, Ping, Kill, server
<1>2. CASE AskRole(c) \/ AskDb(c) \/ GrantDb(c)
    BY <1>2 DEF AskRole, AskDb, GrantDb, server
<1>3. CASE CreateDb(c) \/ GrantSchema(c) \/ CreateMissingDb(c) \/ GrantAll(c)
    BY <1>3 DEF CreateDb, GrantSchema, CreateMissingDb, GrantAll
<1>4. ~DropSchema(c) /\ ~CreateSchema(c) /\ ~DropDb(c) /\ ~CreateAgain(c)
    BY Knows DEF DropSchema, CreateSchema, DropDb, CreateAgain, Statement
<1>5. password \in [Roles -> Owners \cup Passwords \cup {None, "old password"}]
      /\ rows \in [Databases -> {"none", "old", "new"}]
    BY DEF AdminInv, ServerOK
<1>6. CASE SetRole(c)
    <2>1. pc[c] \in {"create role", "alter role"} /\ rows' = rows
        BY <1>6 DEF SetRole, Statement
    <2>2. password' = password \/ password' = [password EXCEPT ![RoleOf(c)] = NewPassword(c)]
        BY <1>6 DEF SetRole
    <2>3. pc[c] = "alter role" => cmd[c].password # None
        BY DEF AdminInv, Belongs
    <2>4. pc[c] = "create role" /\ HasRole(c) => password' = password
        <3>1. ASSUME pc[c] = "create role", HasRole(c) PROVE pc'[c] = "failed"
            BY <1>6, <3>1, OnePc DEF SetRole, Statement
        <3> QED
            BY <1>6, <3>1 DEF SetRole
    <2> QED
        BY <1>5, <2>1, <2>2, <2>3, <2>4
<1>7. CASE CreateUser(c)
    <2>1. rows' = rows /\ password' = IF HasRole(c) THEN password
                                     ELSE [password EXCEPT ![RoleOf(c)] = NewPassword(c)]
        BY <1>7 DEF CreateUser
    <2> QED
        BY <1>5, <2>1
<1>8. CASE AlterUser(c)
    <2>1. engine = "mysql"
        BY <1>8, Knows DEF AlterUser, Statement
    <2>2. rows' = rows /\ password' = [password EXCEPT ![RoleOf(c)] = NewPassword(c)]
        BY <1>8 DEF AlterUser
    <2> QED
        BY <1>5, <2>1, <2>2
<1>9. CASE Finish(c)
    <2>1. password' = password
        BY <1>9 DEF Finish
    <2>2. rows' = rows \/ rows' = [rows EXCEPT ![Db(c)] = IF @ = "none" THEN "new" ELSE @]
        BY <1>9 DEF Finish
    <2> QED
        BY <1>5, <2>1, <2>2
<1> QED
    BY <1>1, <1>2, <1>3, <1>4, <1>6, <1>7, <1>8, <1>9 DEF Step
-------------------------------------------------------------------------------------
\* However creates of one database interleave with each other and with what was killed, one
\* that succeeds leaves its role, and a database that the role may use.
THEOREM CreatesDeliver == Spec => CreateDelivers
<1> DEFINE Delivers ==
        \A c \in Commands : Succeeds(c, "create") =>
            HasRole(c) /\ (OnlyCreated(Db(c)) => HasDb(c) /\ cmd[c].owner \in grants[Db(c)])
<1>1. ASSUME AdminInv, [Next]_vars PROVE Delivers
    <2> SUFFICES ASSUME NEW c \in Commands, Succeeds(c, "create")
                 PROVE  HasRole(c) /\ (OnlyCreated(Db(c)) => HasDb(c) /\ cmd[c].owner \in grants[Db(c)])
        OBVIOUS
    <2>1. pc[c] # "idle" /\ pc'[c] # pc[c] /\ pc'[c] = "done" /\ cmd[c].action = "create"
        BY DEF Succeeds, Steps
    <2>2. Step(c)
        BY <1>1, <2>1, ItsOwnStep
    <2>3. pc[c] = "finish"
        BY <1>1, <2>1, <2>2, Finishes
    <2>4. pc[c] \in Statements
        BY <1>1, <2>3, EngineIs, StatementsAre
    <2>5. Made(c)
        BY <1>1 DEF AdminInv
    <2> QED
        BY <2>1, <2>3, <2>4, <2>5 DEF Made
<1>2. Spec => [][Delivers]_vars
    BY <1>1, AdminAlways, PTL DEF Spec
<1> QED
    BY <1>2 DEF CreateDelivers

\* A create can be run again: it takes no password from a role that has one unless it is told
\* to, or the engine is MySQL, and no data from a database.
THEOREM CreatesKeep == Spec => CreateKeepsExisting
<1> DEFINE Kept ==
        \A c \in Commands : Steps(c, "create") =>
            /\ \A r \in Roles : password'[r] # password[r] =>
                    password[r] = None \/ cmd[c].password # None \/ engine = "mysql"
            /\ \A d \in Databases : rows[d] = "old" => rows'[d] = "old"
<1>1. ASSUME AdminInv, [Next]_vars PROVE Kept
    <2> SUFFICES ASSUME NEW c \in Commands, Steps(c, "create")
                 PROVE  /\ \A r \in Roles : password'[r] # password[r] =>
                                password[r] = None \/ cmd[c].password # None \/ engine = "mysql"
                        /\ \A d \in Databases : rows[d] = "old" => rows'[d] = "old"
        OBVIOUS
    <2>1. pc[c] # "idle" /\ pc'[c] # pc[c] /\ cmd[c].action = "create"
        BY DEF Steps
    <2>2. Step(c)
        BY <1>1, <2>1, ItsOwnStep
    <2>3. /\ \/ password' = password
             \/ /\ \A r \in Roles : r # RoleOf(c) => password'[r] = password[r]
                /\ ~HasRole(c) \/ cmd[c].password # None \/ engine = "mysql"
          /\ \A d \in Databases : rows[d] = "old" => rows'[d] = "old"
        BY <1>1, <2>1, <2>2, Keeps
    <2> QED
        BY <2>3 DEF HasRole
<1>2. Spec => [][Kept]_vars
    BY <1>1, AdminAlways, PTL DEF Spec
<1> QED
    BY <1>2 DEF CreateKeepsExisting

\* A command that no other one overlaps fails only for want of what the server lacked before it.
THEOREM FailuresAreMissing == Spec => FailsOnlyWhenMissing
<1> DEFINE Missing(c) ==
        \/ cmd[c].action = "reset" /\ (Set(c, "no-drop") \/ Set(c, "no-create") \/ ~HasDb(c) \/ ~HasRole(c))
        \/ cmd[c].action = "create" /\ Db(c) \notin schema
        \/ cmd[c].action = "migrate" /\ (Db(c) \notin schema \/ up # "ready")
        \/ Set(c, "hstore") /\ engine # "postgres"
        \/ pings'[c] = Pings
    Missed == \A c \in alone : c \in Live /\ pc'[c] = "failed" => Missing(c)
<1>1. ASSUME AdminInv, [Next]_vars PROVE Missed
    <2> SUFFICES ASSUME NEW c \in alone, c \in Live, pc'[c] = "failed" PROVE Missing(c)
        OBVIOUS
    <2>1. c \in Commands /\ pc[c] # "idle" /\ pc[c] # "failed" /\ pc'[c] # pc[c]
        BY DEF Live, Over
    <2>2. Step(c)
        BY <1>1, <2>1, ItsOwnStep
    <2>3. /\ Belongs(c) /\ Made(c) /\ Finds(c) /\ c \in alone
          /\ engine \in {"postgres", "mysql", "mongo"}
        BY <1>1, <2>1, EngineIs DEF AdminInv
    <2>4. CASE pc[c] = "ping" /\ pings'[c] = Pings
        BY <2>4
    <2>5. ~(pc[c] = "create role" /\ HasRole(c))
        BY <2>3 DEF Finds
    <2>6. pc[c] \in {"alter role", "create db", "grant", "grant schema"} =>
            HasRole(c) /\ cmd[c].action = "create"
        <3>1. ASSUME pc[c] \in {"alter role", "create db", "grant", "grant schema"}
              PROVE  cmd[c].action = "create" /\ pc[c] \in Statements
            BY <1>1, <2>1, <3>1, Knows, StatementsAre
        <3> QED
            BY <2>3, <3>1 DEF Made
    <2>7. CASE pc[c] = "ask db" /\ cmd[c].action # "create" /\ ~HasDb(c)
        BY <1>1, <2>1, <2>7, Knows
    <2>8. ~(pc[c] = "create db" /\ ~(~HasDb(c) /\ HasRole(c))) /\ ~(pc[c] = "grant" /\ ~(HasDb(c) /\ HasRole(c)))
        BY <2>3, <2>6 DEF Finds
    <2>9. CASE pc[c] = "grant schema" /\ ~(Db(c) \in schema /\ HasRole(c))
        BY <2>6, <2>9
    <2>10. CASE pc[c] = "drop schema" /\ ~HasDb(c)
        BY <1>1, <2>1, <2>10, Knows
    <2>11. CASE pc[c] = "create schema" /\ ~(HasDb(c) /\ HasRole(c) /\ Db(c) \notin schema)
        <3>1. cmd[c].action = "reset"
            BY <1>1, <2>1, <2>11, Knows
        <3>2. Set(c, "no-drop") \/ Db(c) \notin schema
            BY <2>3, <2>11 DEF Finds
        <3> QED
            BY <2>11, <3>1, <3>2
    <2>12. ~(pc[c] = "create again" /\ HasDb(c))
        BY <2>3 DEF Finds
    <2>13. CASE /\ pc[c] = "finish"
                /\ \/ up # "ready"
                   \/ Set(c, "hstore") /\ ~(engine = "postgres" /\ Db(c) \in schema)
                   \/ Migrates(c) /\ ~(Db(c) \in schema \/ engine = "mongo")
        <3>1. cmd[c].action \in {"create", "reset", "migrate"} /\ pc[c] \in Statements
            BY <1>1, <2>1, <2>3, <2>13, Knows, StatementsAre
        <3>2. up # "ready" => cmd[c].action = "migrate"
            BY <2>3, <3>1 DEF Belongs
        <3>3. cmd[c].action = "reset" /\ engine # "mongo" =>
                    Set(c, "no-drop") \/ Set(c, "no-create") \/ Db(c) \in schema
            BY <2>3, <2>13 DEF Finds
        <3> QED
            BY <2>3, <2>13, <3>1, <3>2, <3>3
    <2> QED
        BY <1>1, <2>1, <2>2, <2>4, <2>5, <2>6, <2>7, <2>8, <2>9, <2>10, <2>11, <2>12, <2>13, Fails
<1>2. Spec => [][Missed]_vars
    BY <1>1, AdminAlways, PTL DEF Spec
<1> QED
    BY <1>2 DEF FailsOnlyWhenMissing
=====================================================================================
