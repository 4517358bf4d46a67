--------------------------------- MODULE SshSession ---------------------------------
(***********************************************************************************)
(* The one SSH connection of a run (src/src/ssh.rs): how it is made (Ssh::connect),   *)
(* how long it lives, and what the run reads and does over it (build_state,           *)
(* resolve_remote_db, run_database_core and run_files_core in src/src/dsl.rs).        *)
(*                                                                                   *)
(* RuntimeState keeps the connection for the whole run and never makes a second one.  *)
(* Keys are offered in the documented order (docs/guides/dsl.md, "Authentication      *)
(* order"); the server closes the connection after `Limit` refusals, as OpenSSH does. *)
(* The network can lose the connection, or fall silent, at every step.                *)
(***********************************************************************************)
EXTENDS Integers, Sequences, FiniteSets

CONSTANTS
    Keys,      \* key pairs
    Limit,     \* refusals after which the server hangs up (MaxAuthTries of sshd)
    None

ASSUME LimitAssumption == Limit \in Nat \ {0}
ASSUME KeysAssumption  == IsFiniteSet(Keys)

VARIABLES
    setup,     \* what this run finds: agent, identity file, password, server (never changes)
    phase,     \* control state of the run
    offered,   \* how many identities of the agent have been offered
    refusals,  \* credentials that the server has refused
    link,      \* the connection: "up", "silent", "lost" by the network, "closed" by the server
    position,  \* reads that are over
    got        \* got[i]: how the i-th read ended

vars == <<setup, phase, offered, refusals, link, position, got>>

\* Lists of keys without repetition.
Identities ==
    {s \in UNION {[1..n -> Keys] : n \in 0..Cardinality(Keys)} : \A i, j \in DOMAIN s : s[i] = s[j] => i = j}

Setups ==
    [agent    : Identities,                       \* what it lists; nothing without an agent
     unsigned : SUBSET Keys,                      \* identities the agent then does not sign with
     file     : Keys \cup {"unloadable", None},   \* the identity file
     password : {"right", "wrong", None},         \* an empty password counts as none
     accepted : SUBSET Keys,                      \* authorized on the server
     host     : {"trusted", "unknown"},           \* to check_server_key
     target   : {"compose", "pod"}]               \* where the remote database runs

\* What build_state and resolve_remote_db read before the dump, in this order.
Reads(target) == IF target = "compose" THEN <<"env_file", "compose", "service_env">>
                                       ELSE <<"env_file", "pod", "pod_env">>
Steps == 3

\* Ssh::exec returns Ok with the output so far and code 0 when the channel ends without
\* an exit status: the connection was lost ("cut"), or a signal ended the command.
Outcomes == {"whole", "absent", "killed", "cut", "unreachable"}

ASSUME NoneAssumption == None \notin Outcomes

\* What a read that ended in `how` does to the run: the Compose file and the pod are
\* needed, half of either may or may not be understood, and all else counts as empty.
After(name, how) ==
    IF name \in {"compose", "pod"}
    THEN CASE how = "whole"                    -> {"session"}
           [] how \in {"killed", "cut"}        -> {"session", "failed"}
           [] how \in {"absent", "unreachable"} -> {"failed"}
    ELSE IF name = "pod_env" /\ how = "unreachable" THEN {"failed"} ELSE {"session"}

LoggingIn == {"connect", "agent", "file", "password"}
Over      == {"done", "failed"}

Init ==
    /\ setup \in Setups
    /\ phase = "connect"
    /\ offered = 0
    /\ refusals = 0
    /\ link = "up"
    /\ position = 0
    /\ got = [i \in 1..Steps |-> None]

Go(where) == phase' = where
Up == link = "up"

\* The client knows that the connection is gone: every request fails at once.
Gone == link \in {"lost", "closed"}
-------------------------------------------------------------------------------------
\* client::connect.  check_server_key trusts a key of known_hosts, a certificate, and,
\* unless it is strict, every key.
Connect ==
    /\ phase = "connect"
    /\ IF Gone THEN Go("failed")
       ELSE Up /\ Go(IF setup.host = "trusted" THEN "agent" ELSE "failed")
    /\ UNCHANGED <<setup, offered, refusals, link, position, got>>

\* The server refuses a credential, and hangs up at the limit.
Refuse(next) ==
    /\ refusals' = refusals + 1
    /\ link' = IF refusals + 1 = Limit THEN "closed" ELSE link
    /\ Go(next)

Accept == Go("session") /\ UNCHANGED <<refusals, link>>
Skip(next) == Go(next) /\ UNCHANGED <<refusals, link>>

\* Mutant: an identity that the agent does not sign with ends the loop with `?`.
OfferIdentity_stops ==
    /\ phase = "agent" /\ offered < Len(setup.agent)
    /\ offered' = offered + 1
    /\ LET key == setup.agent[offered + 1] IN
        IF Gone THEN Skip("failed")
        ELSE /\ Up
             /\ IF key \notin setup.accepted THEN Refuse("agent")
                ELSE IF key \in setup.unsigned THEN Skip("failed")
                ELSE Accept
    /\ UNCHANGED <<setup, position, got>>

\* One identity of the agent.  best_supported_rsa_hash()? fails when the connection is
\* gone; an agent that does not sign is one more reason to try the next.
OfferIdentity ==
    /\ phase = "agent" /\ offered < Len(setup.agent)
    /\ offered' = offered + 1
    /\ LET key == setup.agent[offered + 1] IN
        IF Gone THEN Skip("failed")
        ELSE /\ Up
             /\ IF key \notin setup.accepted THEN Refuse("agent")
                ELSE IF key \in setup.unsigned THEN Skip("agent")
                ELSE Accept
    /\ UNCHANGED <<setup, position, got>>

EndAgent ==
    /\ phase = "agent" /\ offered = Len(setup.agent)
    /\ Go("file")
    /\ UNCHANGED <<setup, offered, refusals, link, position, got>>

\* find_identity, load_secret_key: one file; one that cannot be loaded is remembered
\* for the message only.
OfferFile ==
    /\ phase = "file"
    /\ IF setup.file \notin Keys THEN Skip("password")
       ELSE IF Gone THEN Skip("failed")
       ELSE Up /\ IF setup.file \in setup.accepted THEN Accept ELSE Refuse("password")
    /\ UNCHANGED <<setup, offered, position, got>>

OfferPassword ==
    /\ phase = "password"
    /\ IF setup.password = None \/ Gone THEN Skip("failed")
       ELSE Up /\ IF setup.password = "right" THEN Accept ELSE Refuse("failed")
    /\ UNCHANGED <<setup, offered, position, got>>
-------------------------------------------------------------------------------------
EndRead(how) ==
    /\ position' = position + 1
    /\ got' = [got EXCEPT ![position + 1] = how]
    /\ phase' \in After(Reads(setup.target)[position + 1], how)

\* read_file, kubectl get pods, kubectl exec env.
Read ==
    /\ phase = "session" /\ position < Steps
    /\ IF Gone THEN EndRead("unreachable")
       ELSE Up /\ \E how \in {"whole", "absent", "killed"} : EndRead(how)
    /\ UNCHANGED <<setup, offered, refusals, link>>

\* Mutant: the read is left to be tried again.
CutRead_again ==
    /\ phase = "session" /\ position < Steps /\ Up
    /\ got' = [got EXCEPT ![position + 1] = "cut"]
    /\ link' = "lost"
    /\ UNCHANGED <<setup, phase, position, offered, refusals>>

\* The connection goes while the output of a read arrives: what has arrived counts.
CutRead ==
    /\ phase = "session" /\ position < Steps /\ Up
    /\ EndRead("cut")
    /\ link' = "lost"
    /\ UNCHANGED <<setup, offered, refusals>>

\* Mutant: ssh_mut makes a new connection when the old one is gone.
Dump_reconnects ==
    /\ phase = "session" /\ position = Steps
    /\ phase' \in {"dumped", "failed"}
    /\ link' = "up"
    /\ UNCHANGED <<setup, offered, refusals, position, got>>

\* dump_remote and fetch_dump; without its exit status the dump has no size to parse.
Dump ==
    /\ phase = "session" /\ position = Steps
    /\ IF Gone THEN Go("failed") ELSE Up /\ phase' \in {"dumped", "failed"}
    /\ UNCHANGED <<setup, offered, refusals, link, position, got>>

\* reset_local and restore_local need no connection, and can take longer than it lives.
RestoreLocal ==
    /\ phase = "dumped"
    /\ phase' \in {"restored", "failed"}
    /\ UNCHANGED <<setup, offered, refusals, link, position, got>>

\* run_files_core: ssh.sftp() on the connection of the dump.
SyncFiles ==
    /\ phase = "restored"
    /\ IF Gone THEN Go("failed") ELSE Up /\ phase' \in {"done", "failed"}
    /\ UNCHANGED <<setup, offered, refusals, link, position, got>>

Run == Connect \/ OfferIdentity \/ EndAgent \/ OfferFile \/ OfferPassword
       \/ Read \/ Dump \/ RestoreLocal \/ SyncFiles
-------------------------------------------------------------------------------------
\* The network resets the connection, or swallows everything from now on.
Lose ==
    /\ phase \notin Over /\ Up
    /\ link' \in {"lost", "silent"}
    /\ UNCHANGED <<setup, phase, offered, refusals, position, got>>

\* Mutant: no inactivity_timeout, the default of the library.
Timeout_never == link = "silent" /\ FALSE /\ UNCHANGED vars

\* inactivity_timeout: russh ends a connection on which nothing has come for an hour;
\* a read that waits for its output then ends like any other that is cut.
Timeout ==
    /\ link = "silent"
    /\ link' = "lost"
    /\ IF phase = "session" /\ position < Steps
       THEN EndRead("cut")
       ELSE UNCHANGED <<phase, position, got>>
    /\ UNCHANGED <<setup, offered, refusals>>

Next == Run \/ CutRead \/ Lose \/ Timeout

\* The server, the agent and the database commands answer while the connection is up;
\* the timer of the client runs.  Nothing makes the network fail, or keeps it from it.
Spec == Init /\ [][Next]_vars /\ WF_vars(Run) /\ WF_vars(Timeout)
-------------------------------------------------------------------------------------
TypeOK ==
    /\ setup \in Setups
    /\ phase \in LoggingIn \cup {"session", "dumped", "restored"} \cup Over
    /\ offered \in 0..Len(setup.agent)
    /\ refusals \in 0..Limit
    /\ (link = "closed") => refusals = Limit
    /\ link \in {"up", "silent", "lost", "closed"}
    /\ position \in 0..Steps
    /\ got \in [1..Steps -> Outcomes \cup {None}]
    /\ \A i \in 1..Steps : (got[i] = None) <=> i > position

\* All that the client has to offer, in the documented order.
Credentials ==
    setup.agent
    \o (IF setup.file \in Keys THEN <<setup.file>> ELSE <<>>)
    \o (IF setup.password # None THEN <<setup.password>> ELSE <<>>)

Refused(i) == Credentials[i] \notin setup.accepted \cup {"right"}
Works(i)   == ~Refused(i) /\ ~(i <= Len(setup.agent) /\ Credentials[i] \in setup.unsigned)

CanLogIn ==
    /\ setup.host = "trusted"
    /\ \E i \in DOMAIN Credentials :
        Works(i) /\ Cardinality({j \in 1..(i - 1) : Refused(j)}) < Limit

\* A run logs in whenever one of its credentials works and fewer than `Limit` refused
\* ones come before it in the documented order (docs/guides/dsl.md:129), whatever the
\* agent lists, does not sign, or the identity file holds; unless the network fails.
ConnectsWhenItCan ==
    phase = "connect" /\ CanLogIn ~> phase = "session" \/ link \in {"silent", "lost"}

\* A connection that breaks while the run reads what to dump is never noticed by the
\* read (ssh.rs:213), and half an .env file names another database; the run must not get
\* as far as a dump then.  Only a command that a signal ends on the server escapes this.
DumpsOnWhatItRead ==
    phase \in {"dumped", "restored", "done"} =>
        \A i \in 1..Steps : got[i] \in {"whole", "absent", "killed"}

\* Every run ends, also when the network falls silent in the middle of a command that
\* nothing else bounds: channel.wait() has no time limit of its own (ssh.rs:200).
RunsEnd == <>(phase \in Over)
=====================================================================================
