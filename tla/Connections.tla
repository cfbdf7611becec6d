---------------------------- MODULE Connections ----------------------------
(***************************************************************************)
(* The connection manager (db/connection.rs, commands/connection.rs) with  *)
(* the SSH tunnels of its connections and the file of trusted host keys    *)
(* (db/ssh_tunnel).  A connection is prepared outside the manager's lock   *)
(* (tunnel, pool, test query) and then registered; a command takes a pool  *)
(* handle under the lock and uses it after the lock; a disconnect takes    *)
(* the connection out under the lock and closes it after the lock.         *)
(***************************************************************************)
EXTENDS Naturals, FiniteSets

CONSTANTS
    Conns,        \* runtime connections; every connect draws a fresh id
    Probes,       \* the members of Conns that test_connection opens
    Engine,       \* [Conns -> engines]
    Via,          \* [Conns -> Hosts \cup {Nil}], the SSH server of a connection
    Hosts,        \* SSH servers
    Keys,         \* host keys
    Commands,     \* commands that use a connection
    Nil,
    MaxKeyChanges \* bound: how often servers change their keys

ASSUME ConnectionsAssumption ==
    /\ Probes \subseteq Conns
    /\ Engine \in [Conns -> {"MySql", "Postgres", "Sqlite", "SqlServer", "ClickHouse"}]
    /\ Via \in [Conns -> Hosts \cup {Nil}]
    /\ Nil \notin Hosts \cup Keys \cup Conns \cup Commands \cup {"Normal", "Force", "Idle"}
    /\ Conns \cap Hosts = {}
    /\ Keys # {}
    /\ MaxKeyChanges \in Nat

VARIABLES
    stage,      \* how far each connection is
    tunnel,     \* its ssh process: "none", "up" or "closed"
    askpass,    \* connections whose SSH password lies in a temporary file
    metadata,   \* connections whose page metadata may be cached
    recent,     \* connections used within the idle limit
    closing,    \* [Conns -> the mode of the disconnect that took it, or Nil]
    command,    \* [Commands -> what the command does]
    hostsLock,  \* KNOWN_HOSTS_LOCK: who holds it
    known,      \* the file of trusted keys, [Hosts -> Keys \cup {Nil}]
    clearing,   \* the clear_known_host in flight: its host and its copy of the file
    serverKey,  \* the key each server shows
    keyChanges

connVars == <<stage, tunnel, askpass, metadata, recent, closing>>
hostVars == <<hostsLock, known, clearing, serverKey, keyChanges>>
vars == <<connVars, command, hostVars>>

Stages == {"new", "wait", "handshake", "build", "test", "tested", "active",
           "taken", "shut", "gone", "failed"}
Modes == {"Normal", "Force", "Idle"}
NoCommand == [at |-> "idle", conn |-> Nil, fresh |-> FALSE]
NoClear == [host |-> Nil, copy |-> [h \in Hosts |-> Nil]]

TypeOK ==
    /\ stage \in [Conns -> Stages]
    /\ tunnel \in [Conns -> {"none", "up", "closed"}]
    /\ askpass \in SUBSET Conns
    /\ metadata \in SUBSET Conns
    /\ recent \in SUBSET Conns
    /\ closing \in [Conns -> Modes \cup {Nil}]
    /\ command \in [Commands -> [at : {"idle", "using", "broken"},
                                 conn : Conns \cup {Nil}, fresh : BOOLEAN]]
    /\ hostsLock \in Conns \cup Hosts \cup {Nil}
    /\ known \in [Hosts -> Keys \cup {Nil}]
    /\ clearing \in [host : Hosts \cup {Nil}, copy : [Hosts -> Keys \cup {Nil}]]
    /\ serverKey \in [Hosts -> Keys]
    /\ keyChanges \in 0..MaxKeyChanges

Init ==
    /\ stage = [c \in Conns |-> "new"]
    /\ tunnel = [c \in Conns |-> "none"]
    /\ askpass = {}
    /\ metadata = {}
    /\ recent = {}
    /\ closing = [c \in Conns |-> Nil]
    /\ command = [u \in Commands |-> NoCommand]
    /\ hostsLock = Nil
    /\ known = [h \in Hosts |-> Nil]
    /\ clearing = NoClear
    /\ serverKey = [h \in Hosts |-> CHOOSE k \in Keys : TRUE]
    /\ keyChanges = 0

-----------------------------------------------------------------------------
(* Preparing a connection. *)

\* Whether a tunnel was started, and what closing it leaves.
Closed(t) == IF t = "up" THEN "closed" ELSE t

\* prepare_*_connection and test_*_connection begin: SQLite refuses a tunnel,
\* the others start one when the configuration names an SSH server.
Prepare(c) ==
    /\ stage[c] = "new"
    /\ stage' = [stage EXCEPT ![c] =
          IF Via[c] = Nil THEN "build"
          ELSE IF Engine[c] = "Sqlite" THEN "failed" ELSE "wait"]
    /\ UNCHANGED <<tunnel, askpass, metadata, recent, closing, command, hostVars>>

\* prepare_askpass writes the password for ssh to a temporary file;
\* CleanupPaths removes it when it is dropped.
WriteAskpass(c) == askpass' = askpass \cup {c}
CleanupPaths(c) == askpass' = askpass \ {c}

\* SshTunnel::start takes the host key lock and starts ssh.
StartTunnel(c) ==
    /\ stage[c] = "wait"
    /\ hostsLock = Nil
    /\ hostsLock' = c
    /\ WriteAskpass(c)
    /\ stage' = [stage EXCEPT ![c] = "handshake"]
    /\ UNCHANGED <<tunnel, metadata, recent, closing, command, known, clearing,
                   serverKey, keyChanges>>

\* ssh checks the host key (StrictHostKeyChecking=accept-new: an unknown key
\* is recorded, a changed one refused) and forwards the port, exits or lets
\* the 60 attempts pass; every way out removes the password file.
Handshake(c) ==
    LET h == Via[c]
        trusted == known[h] \in {Nil, serverKey[h]} IN
    /\ stage[c] = "handshake"
    /\ hostsLock' = Nil
    /\ CleanupPaths(c)
    /\ known' = IF trusted THEN [known EXCEPT ![h] = serverKey[h]] ELSE known
    /\ \/ /\ trusted
          /\ tunnel' = [tunnel EXCEPT ![c] = "up"]
          /\ stage' = [stage EXCEPT ![c] = "build"]
       \/ /\ stage' = [stage EXCEPT ![c] = "failed"]
          /\ UNCHANGED tunnel
    /\ UNCHANGED <<metadata, recent, closing, command, clearing, serverKey, keyChanges>>

\* Every error after the tunnel came up closes it, explicitly or when it is
\* dropped.
Fail(c) ==
    /\ stage' = [stage EXCEPT ![c] = "failed"]
    /\ tunnel' = [tunnel EXCEPT ![c] = Closed(@)]

\* The options are refused (certificates, addresses) or the pool is built.
BuildPool(c) ==
    /\ stage[c] = "build"
    /\ \/ Fail(c)
       \/ stage' = [stage EXCEPT ![c] = "test"] /\ UNCHANGED tunnel
    /\ UNCHANGED <<askpass, metadata, recent, closing, command, hostVars>>

\* The test query; a probe closes pool and tunnel whatever its result.
TestPool(c) ==
    /\ stage[c] = "test"
    /\ \/ Fail(c)
       \/ IF c \in Probes
          THEN /\ stage' = [stage EXCEPT ![c] = "gone"]
               /\ tunnel' = [tunnel EXCEPT ![c] = Closed(@)]
          ELSE stage' = [stage EXCEPT ![c] = "tested"] /\ UNCHANGED tunnel
    /\ UNCHANGED <<askpass, metadata, recent, closing, command, hostVars>>

\* connect registers the connection under the manager's lock and opens the
\* metadata cache for it.
Register(c) ==
    /\ stage[c] = "tested"
    /\ stage' = [stage EXCEPT ![c] = "active"]
    /\ metadata' = metadata \cup {c}
    /\ recent' = recent \cup {c}
    /\ UNCHANGED <<tunnel, askpass, closing, command, hostVars>>

-----------------------------------------------------------------------------
(* Using a connection. *)

\* get_database_pool_and_touch and its relatives: the handle is cloned and
\* the activity noted under one lock.
Use(u, c) ==
    /\ command[u].at = "idle"
    /\ stage[c] = "active"
    /\ command' = [command EXCEPT ![u] = [at |-> "using", conn |-> c, fresh |-> TRUE]]
    /\ recent' = recent \cup {c}
    /\ UNCHANGED <<stage, tunnel, askpass, metadata, closing, hostVars>>

\* pool_for_ping takes a handle without noting activity.
Ping(u, c) ==
    /\ command[u].at = "idle"
    /\ stage[c] = "active"
    /\ command' = [command EXCEPT ![u] = [at |-> "using", conn |-> c, fresh |-> FALSE]]
    /\ UNCHANGED <<connVars, hostVars>>

\* The command ends, or notices that its tunnel is gone.
EndUse(u) ==
    /\ command[u].at = "using"
    /\ command' = [command EXCEPT ![u] =
          IF tunnel[command[u].conn] = "closed"
          THEN [@ EXCEPT !.at = "broken"] ELSE NoCommand]
    /\ UNCHANGED <<connVars, hostVars>>

\* The command reports its error.
Report(u) ==
    /\ command[u].at = "broken"
    /\ command' = [command EXCEPT ![u] = NoCommand]
    /\ UNCHANGED <<connVars, hostVars>>

\* The idle limit passes without activity on the connection.
GoIdle(c) ==
    /\ stage[c] = "active"
    /\ c \in recent
    /\ recent' = recent \ {c}
    /\ command' = [u \in Commands |->
          IF command[u].conn = c THEN [command[u] EXCEPT !.fresh = FALSE] ELSE command[u]]
    /\ UNCHANGED <<stage, tunnel, askpass, metadata, closing, hostVars>>

-----------------------------------------------------------------------------
(* Closing a connection. *)

\* Faulty: idleness was decided under an earlier lock.
TakeStale(c, mode) ==
    /\ stage[c] = "active"
    /\ stage' = [stage EXCEPT ![c] = "taken"]
    /\ closing' = [closing EXCEPT ![c] = mode]
    /\ metadata' = metadata \ {c}
    /\ UNCHANGED <<tunnel, askpass, recent, command, hostVars>>

\* take_for_disconnect: idleness is decided and the connection removed under
\* one lock, which also closes its metadata.
Take(c, mode) ==
    /\ stage[c] = "active"
    /\ mode = "Idle" => c \notin recent
    /\ stage' = [stage EXCEPT ![c] = "taken"]
    /\ closing' = [closing EXCEPT ![c] = mode]
    /\ metadata' = metadata \ {c}
    /\ UNCHANGED <<tunnel, askpass, recent, command, hostVars>>

\* ActiveDatabaseConnection::disconnect closes the tunnel first.
ShutTunnel(c) ==
    /\ stage[c] = "taken"
    /\ stage' = [stage EXCEPT ![c] = "shut"]
    /\ tunnel' = [tunnel EXCEPT ![c] = Closed(@)]
    /\ UNCHANGED <<askpass, metadata, recent, closing, command, hostVars>>

Borrowed(c) == \E u \in Commands : command[u].at = "using" /\ command[u].conn = c

\* close_database: the MySQL pool waits for the sessions that are lent out,
\* the others do not; a forced close gives up after two seconds.
ClosePool(c) ==
    /\ stage[c] = "shut"
    /\ Engine[c] = "MySql" /\ closing[c] # "Force" => ~Borrowed(c)
    /\ stage' = [stage EXCEPT ![c] = "gone"]
    /\ UNCHANGED <<tunnel, askpass, metadata, recent, closing, command, hostVars>>

-----------------------------------------------------------------------------
(* Trusted host keys. *)

\* A server is reinstalled.
ChangeKey(h, k) ==
    /\ keyChanges < MaxKeyChanges
    /\ k # serverKey[h]
    /\ serverKey' = [serverKey EXCEPT ![h] = k]
    /\ keyChanges' = keyChanges + 1
    /\ UNCHANGED <<connVars, command, hostsLock, known, clearing>>

\* clear_known_host copies the file under the lock; a host that is not in it
\* needs nothing.
StartClear(h) ==
    /\ clearing = NoClear
    /\ hostsLock = Nil
    /\ known[h] # Nil
    /\ hostsLock' = h
    /\ clearing' = [host |-> h, copy |-> known]
    /\ UNCHANGED <<connVars, command, known, serverKey, keyChanges>>

\* ssh-keygen edits the copy, which replaces the file; when the tool fails or
\* a pattern covers several servers the file stays as it is.
FinishClear ==
    /\ clearing # NoClear
    /\ known' \in {known, [clearing.copy EXCEPT ![clearing.host] = Nil]}
    /\ hostsLock' = IF hostsLock = clearing.host THEN Nil ELSE hostsLock
    /\ clearing' = NoClear
    /\ UNCHANGED <<connVars, command, serverKey, keyChanges>>

-----------------------------------------------------------------------------
Next ==
    \/ \E c \in Conns : \/ Prepare(c) \/ StartTunnel(c) \/ Handshake(c)
                        \/ BuildPool(c) \/ TestPool(c) \/ Register(c)
                        \/ GoIdle(c) \/ ShutTunnel(c) \/ ClosePool(c)
                        \/ \E mode \in Modes : Take(c, mode)
    \/ \E u \in Commands : \/ EndUse(u) \/ Report(u)
                           \/ \E c \in Conns : Use(u, c) \/ Ping(u, c)
    \/ \E h \in Hosts : \/ StartClear(h)
                        \/ \E k \in Keys : ChangeKey(h, k)
    \/ FinishClear

\* The runtime keeps polling a preparation and a close; nothing makes a query
\* end, a user act or a server answer a command.
Fairness ==
    /\ \A c \in Conns : /\ WF_vars(ShutTunnel(c))
                        /\ WF_vars(ClosePool(c))
                        /\ WF_vars(Handshake(c))
    /\ WF_vars(FinishClear)

Spec == Init /\ [][Next]_vars /\ Fairness

-----------------------------------------------------------------------------
(* Properties. *)

\* An ssh process runs only for a connection that is being prepared, is
\* registered or is about to be shut, and the file with the SSH password
\* exists only while ssh logs in: whatever fails, nothing stays behind.
TunnelOwned ==
    /\ \A c \in Conns : tunnel[c] = "up" =>
          stage[c] \in {"build", "test", "tested", "active", "taken"}
    /\ \A c \in askpass : stage[c] = "handshake"

\* An idle disconnect never takes a connection from a command that got its
\* handle within the idle limit.
IdleSparesUse ==
    \A u \in Commands :
        command[u].at = "using" /\ command[u].fresh => closing[command[u].conn] # "Idle"

\* No failure leaves an ssh process or the file with its password behind, and
\* an idle disconnect spares a command that has just got its handle.
ConnectionsKept == TypeOK /\ TunnelOwned /\ IdleSparesUse

\* A trusted host key leaves the file only when the user clears that host: a
\* clean-up never writes back a copy that misses the key another connection
\* has just recorded.
PinsKept ==
    [][\A h \in Hosts : known[h] # Nil /\ known'[h] # known[h] =>
          clearing.host = h /\ known'[h] = Nil]_vars

\* A forced disconnect ends although a query never does.
ForceEnds == \A c \in Conns : closing[c] = "Force" ~> stage[c] = "gone"
=============================================================================
