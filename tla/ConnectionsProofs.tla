-------------------------- MODULE ConnectionsProofs ---------------------------
(***************************************************************************)
(* The connection manager keeps what it promises for any number of         *)
(* connections, commands and servers: nothing is left behind by a failure, *)
(* an idle disconnect spares a command in use, and no trusted key is lost. *)
(* A table page is the one that counting rows would show, and no page is   *)
(* older than a change of the table that was answered (TablePages): the    *)
(* invariant names the key that each read of the metadata found, and ties  *)
(* the cache, every cursor a client may send and every load under way to   *)
(* it.                                                                     *)
(***************************************************************************)
EXTENDS Connections, TablePages, Induction, FiniteSetTheorems, TLAPS

(***************************************************************************)
(* The inductive invariant.                                                *)
(***************************************************************************)
\* A disconnect has a mode exactly once it took the connection out of the map.
ModeIsTaken ==
    \A c \in Conns : closing[c] # Nil => stage[c] \in {"taken", "shut", "gone"}

\* A command in use holds a handle, and one that got it within the idle limit
\* keeps its connection recent for as long as the connection is registered.
HandleIsRecent ==
    \A u \in Commands : command[u].at = "using" =>
        /\ command[u].conn \in Conns
        /\ command[u].fresh /\ stage[command[u].conn] = "active" =>
              command[u].conn \in recent

\* KNOWN_HOSTS_LOCK is held from the start of ssh to the end of its log-in.
LoginHoldsLock == \A c \in Conns : stage[c] = "handshake" => hostsLock = c

\* It is held, too, while a host is cleared, so the copy that is edited is
\* still the file when it replaces the file.
ClearHoldsLock ==
    clearing # NoClear =>
        /\ clearing.host \in Hosts
        /\ hostsLock = clearing.host
        /\ clearing.copy = known

ConnectionsInv ==
    /\ ConnectionsKept
    /\ ModeIsTaken
    /\ HandleIsRecent
    /\ LoginHoldsLock
    /\ ClearHoldsLock

Handle == [at : {"idle", "using", "broken"}, conn : Conns \cup {Nil}, fresh : BOOLEAN]

\* A command that has not begun holds nothing.
LEMMA NoCommandIsHandle == NoCommand \in Handle
BY DEF NoCommand, Handle

\* The empty slot of a clearing is well typed.
LEMMA NoClearType ==
    NoClear \in [host : Hosts \cup {Nil}, copy : [Hosts -> Keys \cup {Nil}]]
BY DEF NoClear

\* The invariant holds before the first command.
LEMMA ConnectionsInit == Init => ConnectionsInv
<1> SUFFICES ASSUME Init PROVE ConnectionsInv
  OBVIOUS
<1> USE ConnectionsAssumption
<1>1. TypeOK
  <2>1. (CHOOSE k \in Keys : TRUE) \in Keys
    OBVIOUS
  <2>2. serverKey \in [Hosts -> Keys]
    BY <2>1 DEF Init
  <2>3. command \in [Commands -> Handle]
    BY NoCommandIsHandle DEF Init
  <2> QED
    BY <2>2, <2>3, NoClearType DEF Init, TypeOK, Handle, Stages, Modes
<1>2. \A u \in Commands : command[u].at = "idle"
  BY DEF Init, NoCommand
<1>3. TunnelOwned /\ ModeIsTaken /\ LoginHoldsLock /\ ClearHoldsLock
  BY DEF Init, TunnelOwned, ModeIsTaken, LoginHoldsLock, ClearHoldsLock
<1>4. IdleSparesUse /\ HandleIsRecent
  BY <1>2 DEF IdleSparesUse, HandleIsRecent
<1> QED
  BY <1>1, <1>3, <1>4 DEF ConnectionsInv, ConnectionsKept

(***************************************************************************)
(* The steps, by what they change.                                         *)
(***************************************************************************)
\* Preparing: the connection was not yet registered and is not taken.
Preparing(c) ==
    Prepare(c) \/ StartTunnel(c) \/ Handshake(c) \/ BuildPool(c) \/ TestPool(c) \/ Register(c)
Leaving(c) == (\E mode \in Modes : Take(c, mode)) \/ ShutTunnel(c) \/ ClosePool(c)

\* A step of a preparation or of a close keeps every part.
LEMMA PreparingKeeps ==
    ASSUME ConnectionsInv, NEW c \in Conns, Preparing(c)
    PROVE  ConnectionsInv'
<1> USE ConnectionsAssumption
<1> USE DEF ConnectionsInv, ConnectionsKept
<1>1. CASE Prepare(c)
  BY <1>1 DEF Prepare, TypeOK, Stages, Modes, TunnelOwned, IdleSparesUse, ModeIsTaken,
              HandleIsRecent, LoginHoldsLock, ClearHoldsLock, NoClear, hostVars
<1>2. CASE StartTunnel(c)
  BY <1>2 DEF StartTunnel, WriteAskpass, TypeOK, Stages, Modes, TunnelOwned, IdleSparesUse,
              ModeIsTaken, HandleIsRecent, LoginHoldsLock, ClearHoldsLock, NoClear
<1>3. CASE Handshake(c)
  <2>1. hostsLock = c /\ clearing = NoClear
    BY <1>3 DEF Handshake, LoginHoldsLock, ClearHoldsLock
  <2>2. PICK kn : kn = known'
    OBVIOUS
  <2>3. known' \in [Hosts -> Keys \cup {Nil}]
    BY <1>3 DEF Handshake, TypeOK
  <2>4. TypeOK'
    BY <1>3, <2>3 DEF Handshake, CleanupPaths, TypeOK, Stages
  <2>5. TunnelOwned'
    BY <1>3 DEF Handshake, CleanupPaths, TypeOK, TunnelOwned
  <2>6. stage' \in [Conns -> Stages] /\ \A d \in Conns \ {c} : stage'[d] = stage[d]
    BY <1>3 DEF Handshake, TypeOK, Stages
  <2>7. stage'[c] \in {"build", "failed"}
    BY <1>3 DEF Handshake, TypeOK
  <2>8. IdleSparesUse' /\ ModeIsTaken'
    BY <1>3, <2>6, <2>7 DEF Handshake, TypeOK, IdleSparesUse, ModeIsTaken
  <2>9. HandleIsRecent'
    BY <1>3, <2>6, <2>7 DEF Handshake, TypeOK, HandleIsRecent
  <2>10. LoginHoldsLock'
    BY <2>1, <2>6, <2>7 DEF LoginHoldsLock
  <2>11. ClearHoldsLock'
    BY <1>3, <2>1 DEF Handshake, ClearHoldsLock, NoClear
  <2> QED
    BY <2>4, <2>5, <2>8, <2>9, <2>10, <2>11
<1>4. CASE BuildPool(c)
  BY <1>4 DEF BuildPool, Fail, Closed, TypeOK, Stages, Modes, TunnelOwned, IdleSparesUse,
              ModeIsTaken, HandleIsRecent, LoginHoldsLock, ClearHoldsLock, NoClear, hostVars
<1>5. CASE TestPool(c)
  BY <1>5 DEF TestPool, Fail, Closed, TypeOK, Stages, Modes, TunnelOwned, IdleSparesUse,
              ModeIsTaken, HandleIsRecent, LoginHoldsLock, ClearHoldsLock, NoClear, hostVars
<1>6. CASE Register(c)
  BY <1>6 DEF Register, TypeOK, Stages, Modes, TunnelOwned, IdleSparesUse,
              ModeIsTaken, HandleIsRecent, LoginHoldsLock, ClearHoldsLock, NoClear, hostVars
<1> QED
  BY <1>1, <1>2, <1>3, <1>4, <1>5, <1>6 DEF Preparing

\* Taking a connection out of the pool, closing its pool and shutting its tunnel keep
\* the invariant.
LEMMA LeavingKeeps ==
    ASSUME ConnectionsInv, NEW c \in Conns, Leaving(c)
    PROVE  ConnectionsInv'
<1> USE ConnectionsAssumption
<1> USE DEF ConnectionsInv, ConnectionsKept
<1>1. ASSUME NEW mode \in Modes, Take(c, mode) PROVE ConnectionsInv'
  <2>1. TypeOK' /\ TunnelOwned' /\ ModeIsTaken' /\ LoginHoldsLock' /\ ClearHoldsLock'
    BY <1>1 DEF Take, TypeOK, Stages, Modes, TunnelOwned, ModeIsTaken, LoginHoldsLock,
                ClearHoldsLock, NoClear, hostVars
  <2>2. HandleIsRecent'
    BY <1>1 DEF Take, TypeOK, HandleIsRecent
  <2>3. ASSUME NEW u \in Commands, command[u].at = "using", command[u].fresh
        PROVE  closing'[command[u].conn] # "Idle"
    <3>1. CASE command[u].conn = c
      <4>1. c \in recent
        BY <1>1, <2>3, <3>1 DEF Take, HandleIsRecent
      <4>2. mode # "Idle"
        BY <4>1, <1>1 DEF Take
      <4> QED
        BY <4>2, <1>1, <3>1 DEF Take, TypeOK
    <3>2. CASE command[u].conn # c
      BY <3>2, <2>3, <1>1 DEF Take, TypeOK, HandleIsRecent, IdleSparesUse
    <3> QED
      BY <3>1, <3>2
  <2>4. IdleSparesUse'
    BY <2>3, <1>1 DEF Take, IdleSparesUse
  <2> QED
    BY <2>1, <2>2, <2>4
<1>2. CASE ShutTunnel(c)
  BY <1>2 DEF ShutTunnel, Closed, TypeOK, Stages, Modes, TunnelOwned, IdleSparesUse,
              ModeIsTaken, HandleIsRecent, LoginHoldsLock, ClearHoldsLock, NoClear, hostVars
<1>3. CASE ClosePool(c)
  BY <1>3 DEF ClosePool, TypeOK, Stages, Modes, TunnelOwned, IdleSparesUse,
              ModeIsTaken, HandleIsRecent, LoginHoldsLock, ClearHoldsLock, NoClear, hostVars
<1> QED
  BY <1>1, <1>2, <1>3 DEF Leaving

\* Taking, using and giving back a handle.
LEMMA UsingKeeps ==
    ASSUME ConnectionsInv, NEW u \in Commands,
           EndUse(u) \/ Report(u) \/ \E c \in Conns : Use(u, c) \/ Ping(u, c)
    PROVE  ConnectionsInv'
<1> USE ConnectionsAssumption
<1> USE DEF ConnectionsInv, ConnectionsKept
<1>1. UNCHANGED <<stage, tunnel, askpass, metadata, closing, hostVars>>
  BY DEF EndUse, Report, Use, Ping, connVars
<1>2. recent' \in SUBSET Conns /\ recent \subseteq recent'
  BY DEF EndUse, Report, Use, Ping, connVars, TypeOK
<1>3. PICK x \in Handle : command' = [command EXCEPT ![u] = x]
                          /\ (x.at = "using" => /\ x.conn \in Conns
                                                /\ stage[x.conn] = "active"
                                                /\ x.fresh => x.conn \in recent')
  <2>1. CASE EndUse(u)
    <3>1. PICK y : y = command[u]
      OBVIOUS
    <3>2. y \in Handle
      BY <3>1 DEF TypeOK, Handle
    <3>3. PICK z : z = (IF tunnel[y.conn] = "closed" THEN [y EXCEPT !.at = "broken"]
                        ELSE NoCommand)
      OBVIOUS
    <3>4. z \in Handle /\ z.at # "using"
      BY <3>2, <3>3 DEF NoCommand, Handle
    <3>5. command' = [command EXCEPT ![u] = z]
      BY <2>1, <3>1, <3>3 DEF EndUse, TypeOK
    <3> QED
      BY <3>4, <3>5
  <2>2. CASE Report(u)
    BY <2>2, NoCommandIsHandle DEF Report, NoCommand
  <2>3. ASSUME NEW c \in Conns, NEW new \in BOOLEAN, stage[c] = "active",
               command' = [command EXCEPT ![u] = [at |-> "using", conn |-> c, fresh |-> new]],
               new => c \in recent'
        PROVE  \E x \in Handle :
                  command' = [command EXCEPT ![u] = x]
                  /\ (x.at = "using" => /\ x.conn \in Conns
                                        /\ stage[x.conn] = "active"
                                        /\ x.fresh => x.conn \in recent')
    <3>1. PICK x : x = [at |-> "using", conn |-> c, fresh |-> new]
      OBVIOUS
    <3>2. x \in Handle /\ x.at = "using" /\ x.conn = c /\ x.fresh = new
      BY <3>1, Zenon DEF Handle
    <3>3. command' = [command EXCEPT ![u] = x]
      BY <3>1, <2>3
    <3>4. x.fresh => x.conn \in recent'
      BY <3>2, <2>3
    <3> QED
      BY <3>2, <3>3, <3>4, <2>3
  <2>4. ASSUME NEW c \in Conns, Use(u, c)
        PROVE  \E new \in BOOLEAN :
                  /\ stage[c] = "active"
                  /\ command' = [command EXCEPT ![u] = [at |-> "using", conn |-> c, fresh |-> new]]
                  /\ new => c \in recent'
    BY <2>4 DEF Use
  <2>5. ASSUME NEW c \in Conns, Ping(u, c)
        PROVE  \E new \in BOOLEAN :
                  /\ stage[c] = "active"
                  /\ command' = [command EXCEPT ![u] = [at |-> "using", conn |-> c, fresh |-> new]]
                  /\ new => c \in recent'
    BY <2>5 DEF Ping
  <2> QED
    BY <2>1, <2>2, <2>3, <2>4, <2>5
<1>4. command \in [Commands -> Handle]
  BY DEF TypeOK, Handle
<1>5. command' \in [Commands -> Handle]
  BY <1>3, <1>4
<1>6. command'[u] = x /\ \A v \in Commands \ {u} : command'[v] = command[v]
  BY <1>3, <1>4
<1>7. TypeOK'
  BY <1>1, <1>2, <1>5 DEF TypeOK, Handle, hostVars
<1>8. TunnelOwned' /\ ModeIsTaken' /\ LoginHoldsLock' /\ ClearHoldsLock'
  BY <1>1 DEF TunnelOwned, ModeIsTaken, LoginHoldsLock, ClearHoldsLock, NoClear, hostVars
<1>9. HandleIsRecent'
  BY <1>1, <1>2, <1>3, <1>6 DEF HandleIsRecent
<1>10. IdleSparesUse'
  <2> SUFFICES ASSUME NEW v \in Commands, command'[v].at = "using", command'[v].fresh
               PROVE  closing[command'[v].conn] # "Idle"
    BY <1>1 DEF IdleSparesUse
  <2>1. CASE v = u
    <3>1. closing[x.conn] = Nil
      BY <1>3, <1>6, <2>1 DEF ModeIsTaken
    <3> QED
      BY <3>1, <1>6, <2>1
  <2>2. CASE v # u
    BY <2>2, <1>6 DEF IdleSparesUse
  <2> QED
    BY <2>1, <2>2
<1> QED
  BY <1>7, <1>8, <1>9, <1>10

\* The idle limit passes: the commands of the connection lose their claim.
LEMMA GoIdleKeeps ==
    ASSUME ConnectionsInv, NEW c \in Conns, GoIdle(c)
    PROVE  ConnectionsInv'
<1> USE ConnectionsAssumption
<1> USE DEF ConnectionsInv, ConnectionsKept
<1>1. UNCHANGED <<stage, tunnel, askpass, metadata, closing, hostVars>> /\ recent' = recent \ {c}
  BY DEF GoIdle
<1>2. command \in [Commands -> Handle]
  BY DEF TypeOK, Handle
<1>3. \A u \in Commands :
        /\ command'[u] \in Handle
        /\ command'[u].at = command[u].at
        /\ command'[u].conn = command[u].conn
        /\ command'[u].fresh => command[u].fresh /\ command[u].conn # c
  <2> SUFFICES ASSUME NEW u \in Commands
               PROVE  /\ command'[u] \in Handle
                      /\ command'[u].at = command[u].at
                      /\ command'[u].conn = command[u].conn
                      /\ command'[u].fresh => command[u].fresh /\ command[u].conn # c
    OBVIOUS
  <2>1. PICK y \in Handle : y = command[u]
    BY <1>2
  <2>2. CASE y.conn = c
    <3>1. command'[u] = [y EXCEPT !.fresh = FALSE]
      BY <2>1, <2>2 DEF GoIdle
    <3>2. PICK z : z = [y EXCEPT !.fresh = FALSE]
      OBVIOUS
    <3>3. z \in Handle /\ z.at = y.at /\ z.conn = y.conn /\ ~z.fresh
      BY <3>2 DEF Handle
    <3> QED
      BY <3>1, <3>2, <3>3, <2>1
  <2>3. CASE y.conn # c
    BY <2>1, <2>3 DEF GoIdle
  <2> QED
    BY <2>2, <2>3
<1>4. command' \in [Commands -> Handle]
  BY <1>3 DEF GoIdle
<1>5. TypeOK'
  BY <1>1, <1>4 DEF TypeOK, Handle, hostVars
<1>6. TunnelOwned' /\ ModeIsTaken' /\ LoginHoldsLock' /\ ClearHoldsLock'
  BY <1>1 DEF TunnelOwned, ModeIsTaken, LoginHoldsLock, ClearHoldsLock, NoClear, hostVars
<1>7. HandleIsRecent' /\ IdleSparesUse'
  BY <1>1, <1>3 DEF HandleIsRecent, IdleSparesUse
<1> QED
  BY <1>5, <1>6, <1>7

\* A server changes its key, or the user clears a host.
LEMMA HostsKeep ==
    ASSUME ConnectionsInv,
           FinishClear \/ \E h \in Hosts : StartClear(h) \/ \E k \in Keys : ChangeKey(h, k)
    PROVE  ConnectionsInv'
<1> USE ConnectionsAssumption
<1> USE DEF ConnectionsInv, ConnectionsKept
<1>1. UNCHANGED <<connVars, command>>
  BY DEF FinishClear, StartClear, ChangeKey
<1>2. TunnelOwned' /\ IdleSparesUse' /\ ModeIsTaken' /\ HandleIsRecent'
  BY <1>1 DEF connVars, TunnelOwned, IdleSparesUse, ModeIsTaken, HandleIsRecent
<1> DEFINE HostsOK ==
      /\ hostsLock \in Conns \cup Hosts \cup {Nil}
      /\ known \in [Hosts -> Keys \cup {Nil}]
      /\ clearing \in [host : Hosts \cup {Nil}, copy : [Hosts -> Keys \cup {Nil}]]
      /\ serverKey \in [Hosts -> Keys]
      /\ keyChanges \in 0..MaxKeyChanges
      /\ LoginHoldsLock
      /\ ClearHoldsLock
<1>3. HostsOK'
  <2>1. CASE FinishClear
    <3>1. known' \in [Hosts -> Keys \cup {Nil}]
      BY <2>1 DEF FinishClear, TypeOK
    <3>2. \A c \in Conns : stage[c] # "handshake"
      BY <2>1 DEF FinishClear, LoginHoldsLock, ClearHoldsLock
    <3> QED
      BY <2>1, <1>1, <3>1, <3>2, NoClearType
         DEF FinishClear, TypeOK, connVars, LoginHoldsLock, ClearHoldsLock
  <2>2. ASSUME NEW h \in Hosts, StartClear(h) PROVE HostsOK'
    <3>1. PICK cl : cl = [host |-> h, copy |-> known]
      OBVIOUS
    <3>2. cl \in [host : Hosts \cup {Nil}, copy : [Hosts -> Keys \cup {Nil}]]
          /\ cl.host = h /\ cl.copy = known
      BY <3>1 DEF TypeOK
    <3>3. \A c \in Conns : stage[c] # "handshake"
      BY <2>2 DEF StartClear, LoginHoldsLock
    <3> QED
      BY <2>2, <1>1, <3>1, <3>2, <3>3
         DEF StartClear, TypeOK, connVars, LoginHoldsLock, ClearHoldsLock
  <2>3. ASSUME NEW h \in Hosts, NEW k \in Keys, ChangeKey(h, k) PROVE HostsOK'
    BY <2>3, <1>1 DEF ChangeKey, TypeOK, connVars, LoginHoldsLock, ClearHoldsLock, NoClear
  <2> QED
    BY <2>1, <2>2, <2>3
<1>4. TypeOK'
  BY <1>1, <1>3 DEF TypeOK, connVars
<1> QED
  BY <1>2, <1>3, <1>4

\* Every step of commands, tunnels, restarts and clearings keeps the invariant.
LEMMA ConnectionsStep == ConnectionsInv /\ [Next]_vars => ConnectionsInv'
<1> SUFFICES ASSUME ConnectionsInv, [Next]_vars PROVE ConnectionsInv'
  OBVIOUS
<1>1. CASE UNCHANGED vars
  BY <1>1 DEF vars, connVars, hostVars, ConnectionsInv, ConnectionsKept, TypeOK, TunnelOwned,
              IdleSparesUse, ModeIsTaken, HandleIsRecent, LoginHoldsLock, ClearHoldsLock
<1>2. CASE Next
  BY <1>2, PreparingKeeps, LeavingKeeps, UsingKeeps, GoIdleKeeps, HostsKeep
     DEF Next, Preparing, Leaving
<1> QED
  BY <1>1, <1>2

-----------------------------------------------------------------------------
(* For every set of connections and servers: an ssh process belongs to a
   connection that is being prepared, registered or about to be shut, the file
   with its password exists only while it logs in, and an idle disconnect never
   takes a connection from a command that got its handle within the limit. *)
THEOREM ConnectionsHold == Spec => []ConnectionsKept
<1>1. ConnectionsInv => ConnectionsKept
  BY DEF ConnectionsInv
<1> QED
  BY <1>1, ConnectionsInit, ConnectionsStep, PTL DEF Spec

(* A step changes a trusted key only while its host is cleared, and then
   removes it: nothing written back by clear_known_host undoes what an ssh
   process recorded. *)
LEMMA PinsStep ==
    ConnectionsInv /\ [Next]_vars =>
        [\A h \in Hosts : known[h] # Nil /\ known'[h] # known[h] =>
            clearing.host = h /\ known'[h] = Nil]_vars
<1> SUFFICES ASSUME ConnectionsInv, Next, NEW h \in Hosts, known[h] # Nil, known'[h] # known[h]
             PROVE  clearing.host = h /\ known'[h] = Nil
  OBVIOUS
<1>1. known \in [Hosts -> Keys \cup {Nil}]
  BY DEF ConnectionsInv, ConnectionsKept, TypeOK
<1>2. (\E c \in Conns : Handshake(c)) \/ FinishClear
  BY DEF Next, Prepare, StartTunnel, BuildPool, TestPool, Register, GoIdle, ShutTunnel,
         ClosePool, Take, EndUse, Report, Use, Ping, StartClear, ChangeKey, hostVars
<1>3. ASSUME NEW c \in Conns, Handshake(c) PROVE FALSE
  BY <1>1, <1>3 DEF Handshake
<1>4. CASE FinishClear
  BY <1>1, <1>4 DEF FinishClear, ConnectionsInv, ClearHoldsLock
<1> QED
  BY <1>2, <1>3, <1>4

\* A clean-up of known hosts never writes back a copy that misses the key another
\* connection recorded meanwhile (known_hosts.rs): a key only goes when its host is
\* cleared.
THEOREM TrustedKeysKept == Spec => PinsKept
<1> QED
  BY ConnectionsInit, ConnectionsStep, PinsStep, PTL DEF Spec, PinsKept

-------------------------------------------------------------------------------
(* TablePages: cached metadata, cursors and pages. *)

\* The order of two rows is strict and total.
LEMMA Comparing ==
  ASSUME NEW o \in Orders
  PROVE  /\ \A r, s \in Rows : ~(Before(r, s, o) /\ Before(s, r, o))
         /\ \A r, s \in Rows : r # s => Before(r, s, o) \/ Before(s, r, o)
         /\ \A r, s, t \in Rows : Before(r, s, o) /\ Before(s, t, o) => Before(r, t, o)
<1>1. o.key \in {"a", "b"} /\ o.asc \in BOOLEAN
  BY DEF Orders
<1>2. PICK k \in {"a", "b"} : k = o.key
  BY <1>1
<1>3. \A r \in Rows : r[k] \in Nat
  BY PagesConstants
<1>4. \A r, s \in Rows : r[k] = s[k] => r = s
  BY PagesConstants
<1>5. CASE o.asc
  <2>1. \A r, s : Before(r, s, o) <=> r[k] < s[k]
    BY <1>2, <1>5 DEF Before
  <2> QED BY <1>3, <1>4, <2>1
<1>6. CASE ~o.asc
  <2>1. \A r, s : Before(r, s, o) <=> r[k] > s[k]
    BY <1>2, <1>6 DEF Before
  <2> QED BY <1>3, <1>4, <2>1
<1> QED BY <1>1, <1>5, <1>6

\* Sorted by a total order, the rows of a set stand in the sequence where their rank is.
LEMMA Ranks ==
  ASSUME NEW o \in Orders, NEW S, S \subseteq Rows
  PROVE  /\ IsFiniteSet(S) /\ Cardinality(S) \in Nat
         /\ \A r \in S : Rank(r, S, o) \in 0 .. Cardinality(S) - 1
         /\ \A r, s \in S : Before(r, s, o) => Rank(r, S, o) < Rank(s, S, o)
         /\ \A r, s \in S : Rank(r, S, o) = Rank(s, S, o) => r = s
         /\ \A i \in 1 .. Cardinality(S) :
               InOrder(S, o)[i] \in S /\ Rank(InOrder(S, o)[i], S, o) = i - 1
         /\ \A r \in S : \A i \in 1 .. Cardinality(S) : Rank(r, S, o) = i - 1 => InOrder(S, o)[i] = r
         /\ InOrder(S, o) \in Seq(S) /\ Len(InOrder(S, o)) = Cardinality(S)
<1>1. IsFiniteSet(S) /\ Cardinality(S) \in Nat
  BY PagesConstants, FS_Subset, FS_CardinalityType
<1>2. PICK n \in Nat : n = Cardinality(S)
  BY <1>1
<1> DEFINE P(r) == {s \in S : Before(s, r, o)}
<1>3. ASSUME NEW r \in S
      PROVE  IsFiniteSet(P(r)) /\ Rank(r, S, o) = Cardinality(P(r)) /\ Rank(r, S, o) \in 0 .. n - 1
  <2>1. PICK A : A = P(r)
    OBVIOUS
  <2>2. A \subseteq S /\ r \notin A
    BY <2>1, Comparing
  <2>3. IsFiniteSet(A) /\ Cardinality(A) <= n /\ (n = Cardinality(A) => S = A)
    <3>1. A \in SUBSET S
      BY <2>2
    <3> QED BY <1>1, <1>2, <3>1, FS_Subset
  <2>4. Cardinality(A) \in Nat
    BY <2>3, FS_CardinalityType
  <2>5. Cardinality(A) # n
    BY <2>2, <2>3
  <2>6. Rank(r, S, o) = Cardinality(A)
    BY <2>1 DEF Rank
  <2>7. PICK a \in Nat : a = Cardinality(A)
    BY <2>4
  <2>8. a \in 0 .. n - 1
    BY <2>3, <2>5, <2>7
  <2> QED BY <2>1, <2>3, <2>6, <2>7, <2>8
<1>4. ASSUME NEW r \in S, NEW s \in S, Before(r, s, o) PROVE Rank(r, S, o) < Rank(s, S, o)
  <2>1. PICK A : A = P(r)
    OBVIOUS
  <2>2. PICK B : B = P(s)
    OBVIOUS
  <2>3. A \subseteq B /\ r \in B /\ r \notin A
    BY <1>4, <2>1, <2>2, Comparing
  <2>4. IsFiniteSet(B) /\ Rank(r, S, o) = Cardinality(A) /\ Rank(s, S, o) = Cardinality(B)
        /\ IsFiniteSet(A)
    BY <1>3, <2>1, <2>2
  <2>5. A \in SUBSET B
    BY <2>3
  <2>6. Cardinality(A) <= Cardinality(B) /\ (Cardinality(B) = Cardinality(A) => B = A)
    BY <2>4, <2>5, FS_Subset
  <2>7. Cardinality(A) \in Nat /\ Cardinality(B) \in Nat
    BY <2>4, FS_CardinalityType
  <2>8. PICK a, b \in Nat : a = Cardinality(A) /\ b = Cardinality(B)
    BY <2>7
  <2>9. a < b
    BY <2>3, <2>6, <2>8
  <2> QED BY <2>4, <2>8, <2>9
<1>5. ASSUME NEW r \in S, NEW s \in S, Rank(r, S, o) = Rank(s, S, o) PROVE r = s
  <2>3. Rank(r, S, o) \in 0 .. n - 1
    BY <1>3
  <2>1. Rank(r, S, o) \in Int
    BY <2>3
  <2>2. ~Before(r, s, o) /\ ~Before(s, r, o)
    BY <1>4, <1>5, <2>1
  <2> QED BY <2>2, Comparing
<1> HIDE DEF P
<1>6. PICK f : f = [r \in S |-> Rank(r, S, o)]
  OBVIOUS
<1>7. f \in Injection(S, 0 .. n - 1)
  <2>1. f \in [S -> 0 .. n - 1]
    BY <1>3, <1>6
  <2>2. \A a, b \in S : f[a] = f[b] => a = b
    BY <1>5, <1>6
  <2> QED BY <2>1, <2>2 DEF Injection, IsInjective
<1>8. PICK T : T = 0 .. n - 1
  OBVIOUS
<1>9. IsFiniteSet(T) /\ Cardinality(T) = n
  <2>1. n - 1 \in Int /\ 0 \in Int
    OBVIOUS
  <2>2. IsFiniteSet(0 .. n - 1) /\ Cardinality(0 .. n - 1) = IF 0 > n - 1 THEN 0 ELSE n - 1 - 0 + 1
    BY <2>1, FS_Interval
  <2>3. (IF 0 > n - 1 THEN 0 ELSE n - 1 - 0 + 1) = n
    OBVIOUS
  <2> QED BY <1>8, <2>2, <2>3
<1>10. f \in Surjection(S, T)
  <2>1. f \in Injection(S, T)
    BY <1>7, <1>8
  <2>2. Cardinality(S) = Cardinality(T) <=> f \in Surjection(S, T)
    BY <1>9, <2>1, FS_Injection
  <2> QED BY <1>2, <1>9, <2>2
<1>11. \A j \in 0 .. n - 1 : \E r \in S : Rank(r, S, o) = j
  BY <1>6, <1>8, <1>10 DEF Surjection
<1>12. ASSUME NEW i \in 1 .. n
       PROVE  InOrder(S, o)[i] \in S /\ Rank(InOrder(S, o)[i], S, o) = i - 1
  <2>1. i - 1 \in 0 .. n - 1
    OBVIOUS
  <2>2. \E r \in S : Rank(r, S, o) = i - 1
    BY <1>11, <2>1
  <2>3. InOrder(S, o)[i] = CHOOSE r \in S : Rank(r, S, o) = i - 1
    BY <1>2 DEF InOrder
  <2> QED BY <2>2, <2>3
<1>13. InOrder(S, o) \in [1 .. n -> S]
  <2>1. InOrder(S, o) = [i \in 1 .. n |-> InOrder(S, o)[i]]
    BY <1>2 DEF InOrder
  <2> QED BY <1>12, <2>1
<1>14. InOrder(S, o) \in Seq(S) /\ Len(InOrder(S, o)) = n
  BY <1>13
<1> QED BY <1>1, <1>2, <1>3, <1>4, <1>5, <1>12, <1>14

\* The rows beyond a row, in the same order: counting goes on behind it.
LEMMA BeyondRow ==
  ASSUME NEW o \in Orders, NEW v \in Rows, NEW B, B = {r \in Rows : Before(v, r, o)}
  PROVE  /\ Rank(v, Rows, o) + 1 \in 1 .. Cardinality(Rows)
         /\ Cardinality(B) = Cardinality(Rows) - (Rank(v, Rows, o) + 1)
         /\ \A i \in 1 .. Cardinality(B) : InOrder(B, o)[i] = InOrder(Rows, o)[Rank(v, Rows, o) + 1 + i]
<1>0. IsFiniteSet(Rows) /\ Cardinality(Rows) \in Nat
  BY Ranks
<1>1. PICK N \in Nat : N = Cardinality(Rows)
  BY <1>0
<1>2. PICK q \in 0 .. N - 1 : q = Rank(v, Rows, o)
  BY <1>1, Ranks
<1>3. PICK P : P = {s \in Rows : Before(s, v, o)}
  OBVIOUS
<1>4. IsFiniteSet(P) /\ Cardinality(P) = q /\ v \notin P
  <2>1. P \in SUBSET Rows /\ v \notin P
    BY <1>3, Comparing
  <2> QED BY <1>0, <1>2, <1>3, <2>1, FS_Subset DEF Rank
<1>5. PICK Q : Q = P \cup {v}
  OBVIOUS
<1>6. IsFiniteSet(Q) /\ Cardinality(Q) = q + 1 /\ Q \subseteq Rows
  <2>1. IsFiniteSet(P \cup {v}) /\ Cardinality(P \cup {v}) = IF v \in P THEN Cardinality(P) ELSE Cardinality(P) + 1
    BY <1>4, FS_AddElement
  <2> QED BY <1>3, <1>4, <1>5, <2>1
<1>7. B = Rows \ Q /\ Rows \cap Q = Q
  BY <1>3, <1>5, <1>6, Comparing
<1>8. Cardinality(B) = N - (q + 1)
  <2>1. Cardinality(Rows \ Q) = Cardinality(Rows) - Cardinality(Rows \cap Q)
    BY <1>0, FS_Difference
  <2> QED BY <1>1, <1>6, <1>7, <2>1
<1>9. B \subseteq Rows
  OBVIOUS
<1>10. PICK n \in Nat : n = Cardinality(B)
  BY <1>9, Ranks
<1>11. ASSUME NEW r \in B PROVE Rank(r, B, o) = Rank(r, Rows, o) - (q + 1)
  <2>1. PICK A : A = {s \in Rows : Before(s, r, o)}
    OBVIOUS
  <2>2. {s \in B : Before(s, r, o)} = A \ Q /\ A \cap Q = Q
    <3>1. \A s \in Q : Before(s, r, o)
      BY <1>3, <1>5, <1>9, Comparing
    <3> QED BY <1>6, <1>7, <2>1, <3>1
  <2>3. IsFiniteSet(A)
    <3>1. A \in SUBSET Rows
      BY <2>1
    <3> QED BY <1>0, <3>1, FS_Subset
  <2>4. Cardinality(A \ Q) = Cardinality(A) - Cardinality(A \cap Q)
    BY <2>3, FS_Difference
  <2> QED BY <1>6, <2>1, <2>2, <2>4 DEF Rank
<1>12. ASSUME NEW i \in 1 .. n PROVE InOrder(B, o)[i] = InOrder(Rows, o)[q + 1 + i]
  <2>1. PICK r \in B : r = InOrder(B, o)[i] /\ Rank(r, B, o) = i - 1
    <3>1. InOrder(B, o)[i] \in B /\ Rank(InOrder(B, o)[i], B, o) = i - 1
      BY <1>9, <1>10, Ranks
    <3> QED BY <3>1
  <2>2. r \in Rows /\ Rank(r, Rows, o) \in 0 .. N - 1
    BY <1>1, <1>9, Ranks
  <2>3. PICK m \in 0 .. N - 1 : m = Rank(r, Rows, o)
    BY <2>2
  <2>4. m = q + i
    <3>1. i - 1 = m - (q + 1)
      BY <1>11, <2>1, <2>3
    <3> QED BY <3>1
  <2>5. PICK j \in 1 .. N : j = q + 1 + i
    <3>1. q + 1 + i \in 1 .. N
      BY <1>8, <1>10
    <3> QED BY <3>1
  <2>6. Rank(r, Rows, o) = j - 1
    BY <2>3, <2>4, <2>5
  <2>7. InOrder(Rows, o)[j] = r
    BY <1>1, <2>2, <2>6, Ranks
  <2> QED BY <2>1, <2>5, <2>7
<1>13. q + 1 \in 1 .. N
  OBVIOUS
<1> QED BY <1>1, <1>2, <1>8, <1>10, <1>12, <1>13

\* The rows before a row, in the opposite order: counting goes backwards.
Opposite(o) == [o EXCEPT !.asc = (o.asc # TRUE)]

\* The opposite order turns every comparison around.
LEMMA OppositeOrder ==
  ASSUME NEW o \in Orders
  PROVE  /\ Opposite(o) \in Orders /\ Opposite(o).key = o.key /\ Opposite(o).asc = ~o.asc
         /\ \A r, s \in Rows : Before(r, s, Opposite(o)) <=> Before(s, r, o)
<1>1. o.key \in {"a", "b"} /\ o.asc \in BOOLEAN /\ DOMAIN o = {"key", "asc"}
  BY DEF Orders
<1>2. Opposite(o) \in Orders /\ Opposite(o).key = o.key /\ Opposite(o).asc = ~o.asc
  BY <1>1 DEF Opposite, Orders
<1>3. PICK k \in {"a", "b"} : k = o.key
  BY <1>1
<1>4. \A r \in Rows : r[k] \in Nat
  BY PagesConstants
<1>5. ASSUME NEW r \in Rows, NEW s \in Rows PROVE Before(r, s, Opposite(o)) <=> Before(s, r, o)
  <2>1. CASE o.asc
    BY <1>1, <1>2, <1>3, <1>4, <2>1 DEF Before
  <2>2. CASE ~o.asc
    BY <1>1, <1>2, <1>3, <1>4, <2>2 DEF Before
  <2> QED BY <2>1, <2>2
<1> QED BY <1>2, <1>5

\* The rows before a row, read backwards, are the rows in front of it in the whole table.
LEMMA RowsBefore ==
  ASSUME NEW o \in Orders, NEW v \in Rows, NEW B, B = {r \in Rows : Before(r, v, o)}
  PROVE  /\ Cardinality(B) = Rank(v, Rows, o)
         /\ \A i \in 1 .. Cardinality(B) :
               InOrder(B, Opposite(o))[i] = InOrder(Rows, o)[Rank(v, Rows, o) + 1 - i]
<1>0. IsFiniteSet(Rows) /\ Cardinality(Rows) \in Nat
  BY Ranks
<1>1. PICK N \in Nat : N = Cardinality(Rows)
  BY <1>0
<1>2. PICK q \in 0 .. N - 1 : q = Rank(v, Rows, o)
  BY <1>1, Ranks
<1>3. Cardinality(B) = q
  BY <1>2 DEF Rank
<1>4. B \subseteq Rows /\ IsFiniteSet(B)
  <2>1. B \in SUBSET Rows
    OBVIOUS
  <2> QED BY <1>0, <2>1, FS_Subset
<1>5. PICK o2 \in Orders : o2 = Opposite(o)
  BY OppositeOrder
<1>6. \A r, s \in Rows : Before(r, s, o2) <=> Before(s, r, o)
  BY <1>5, OppositeOrder
<1>7. ASSUME NEW r \in B
      PROVE  Rank(r, B, o2) = q - 1 - Rank(r, Rows, o) /\ Rank(r, Rows, o) \in 0 .. N - 1
  <2>1. PICK A : A = {s \in Rows : Before(s, r, o)}
    OBVIOUS
  <2>2. A \subseteq B /\ r \in B /\ r \notin A /\ r \in Rows
    BY <1>4, <2>1, Comparing
  <2>3. IsFiniteSet(A)
    <3>1. A \in SUBSET B
      BY <2>2
    <3> QED BY <1>4, <3>1, FS_Subset
  <2>4. PICK C : C = A \cup {r}
    OBVIOUS
  <2>5. IsFiniteSet(C) /\ Cardinality(C) = Cardinality(A) + 1 /\ B \cap C = C
    <3>1. IsFiniteSet(A \cup {r}) /\ Cardinality(A \cup {r}) = IF r \in A THEN Cardinality(A) ELSE Cardinality(A) + 1
      BY <2>3, FS_AddElement
    <3> QED BY <2>2, <2>4, <3>1
  <2>6. {s \in B : Before(s, r, o2)} = B \ C
    <3>1. \A s \in B : Before(s, r, o2) <=> Before(r, s, o)
      BY <1>4, <1>6, <2>2
    <3>2. \A s \in B : Before(r, s, o) <=> s \notin C
      BY <1>4, <2>1, <2>2, <2>4, Comparing
    <3> QED BY <3>1, <3>2
  <2>7. Cardinality(B \ C) = Cardinality(B) - Cardinality(B \cap C)
    BY <1>4, FS_Difference
  <2>8. PICK a \in Nat : a = Cardinality(A)
    BY <2>3, FS_CardinalityType
  <2>9. Rank(r, B, o2) = q - (a + 1)
    BY <1>3, <2>5, <2>6, <2>7, <2>8 DEF Rank
  <2>10. Rank(r, Rows, o) = a
    BY <2>1, <2>8 DEF Rank
  <2>11. Rank(r, Rows, o) \in 0 .. N - 1
    BY <1>1, <2>2, Ranks
  <2> QED BY <2>9, <2>10, <2>11
<1>8. ASSUME NEW i \in 1 .. q PROVE InOrder(B, o2)[i] = InOrder(Rows, o)[q + 1 - i]
  <2>1. PICK r \in B : r = InOrder(B, o2)[i] /\ Rank(r, B, o2) = i - 1
    <3>1. InOrder(B, o2)[i] \in B /\ Rank(InOrder(B, o2)[i], B, o2) = i - 1
      BY <1>3, <1>4, Ranks
    <3> QED BY <3>1
  <2>2. PICK m \in 0 .. N - 1 : m = Rank(r, Rows, o) /\ r \in Rows
    BY <1>4, <1>7
  <2>3. i - 1 = q - 1 - m
    BY <1>7, <2>1, <2>2
  <2>4. PICK j \in 1 .. N : j = q + 1 - i
    <3>1. q + 1 - i \in 1 .. N
      OBVIOUS
    <3> QED BY <3>1
  <2>5. Rank(r, Rows, o) = j - 1
    BY <2>2, <2>3, <2>4
  <2>6. InOrder(Rows, o)[j] = r
    BY <1>1, <2>2, <2>5, Ranks
  <2> QED BY <2>1, <2>4, <2>6
<1> QED BY <1>2, <1>3, <1>5, <1>8

\* What a page holds.
PageLength(n, from) == IF from + PageSize <= n THEN PageSize ELSE IF from < n THEN n - from ELSE 0

\* A page is a stretch of at most PageSize rows.
LEMMA PageIs ==
  ASSUME NEW S, NEW s \in Seq(S), NEW from \in Nat
  PROVE  /\ Page(s, from) \in Seq(S) /\ Len(Page(s, from)) = PageLength(Len(s), from)
         /\ PageLength(Len(s), from) \in Nat
         /\ \A i \in 1 .. PageLength(Len(s), from) : Page(s, from)[i] = s[from + i]
<1>1. PICK N \in Nat : N = Len(s)
  BY LenProperties
<1>2. PICK to \in Nat : to = IF from + PageSize <= N THEN from + PageSize ELSE N
  BY PagesConstants
<1>3. to <= N
  BY <1>2
<1>4. \A i \in from + 1 .. to : s[i] \in S
  <2> SUFFICES ASSUME NEW i \in from + 1 .. to PROVE s[i] \in S
    OBVIOUS
  <2>1. i \in 1 .. Len(s)
    BY <1>1, <1>3
  <2> QED BY <2>1, ElementOfSeq
<1>5. Page(s, from) = SubSeq(s, from + 1, to)
  BY <1>1, <1>2 DEF Page
<1>6. PICK m \in Int : m = from + 1
  OBVIOUS
<1>7. /\ SubSeq(s, m, to) \in Seq(S)
      /\ Len(SubSeq(s, m, to)) = (IF m <= to THEN to - m + 1 ELSE 0)
      /\ \A i \in 1 .. to - m + 1 : SubSeq(s, m, to)[i] = s[m + i - 1]
  <2>1. \A i \in m .. to : s[i] \in S
    BY <1>4, <1>6
  <2>2. to \in Int
    OBVIOUS
  <2> QED BY <2>1, <2>2, SubSeqProperties
<1>8. PICK n \in Nat : n = PageLength(N, from) /\ n = (IF m <= to THEN to - m + 1 ELSE 0)
                       /\ (n # 0 => n = to - m + 1)
  <2>1. PICK k \in Nat \ {0} : k = PageSize
    BY PagesConstants
  <2>2. CASE from + k <= N
    <3>1. PageLength(N, from) = k
      BY <2>1, <2>2 DEF PageLength
    <3>2. m <= to /\ to - m + 1 = k
      BY <1>2, <1>6, <2>1, <2>2
    <3> QED BY <2>1, <3>1, <3>2
  <2>3. CASE ~(from + k <= N) /\ from < N
    <3>1. PageLength(N, from) = N - from /\ N - from \in Nat
      BY <2>1, <2>3 DEF PageLength
    <3>2. m <= to /\ to - m + 1 = N - from
      BY <1>2, <1>6, <2>1, <2>3
    <3> QED BY <3>1, <3>2
  <2>4. CASE ~(from + k <= N) /\ ~(from < N)
    <3>1. PageLength(N, from) = 0
      BY <2>1, <2>4 DEF PageLength
    <3>2. ~(m <= to)
      BY <1>2, <1>6, <2>1, <2>4
    <3> QED BY <3>1, <3>2
  <2> QED BY <2>2, <2>3, <2>4
<1>9. ASSUME NEW i \in 1 .. n PROVE Page(s, from)[i] = s[from + i]
  <2>1. i \in 1 .. to - m + 1 /\ m + i - 1 = from + i
    BY <1>6, <1>8
  <2> QED BY <1>5, <1>6, <1>7, <2>1
<1> QED BY <1>1, <1>5, <1>6, <1>7, <1>8, <1>9

\* The rows of a page are those from its offset on.
LEMMA PageRow ==
  ASSUME NEW S, NEW s \in Seq(S), NEW from \in Nat, NEW i \in 1 .. PageLength(Len(s), from)
  PROVE  Page(s, from)[i] = s[from + i]
BY PageIs

\* The first page behind the first m rows is the page at offset m.
LEMMA PageForward ==
  ASSUME NEW S, NEW s \in Seq(S), NEW t \in Seq(S), NEW m \in Nat, m <= Len(s), Len(t) = Len(s) - m,
         \A i \in 1 .. Len(t) : t[i] = s[m + i]
  PROVE  Page(t, 0) = Page(s, m)
<1>1. PICK N, n \in Nat : N = Len(s) /\ n = Len(t)
  BY LenProperties
<1>2. PICK a \in Seq(S) : a = Page(t, 0)
  BY PageIs
<1>3. PICK b \in Seq(S) : b = Page(s, m)
  BY PageIs
<1>4. PICK k \in Nat : k = PageLength(n, 0) /\ k = PageLength(N, m) /\ k <= n
  <2>1. n = N - m
    BY <1>1
  <2>2. PICK z \in Nat \ {0} : z = PageSize
    BY PagesConstants
  <2>3. CASE z <= n
    <3>1. PageLength(n, 0) = z
      BY <2>2, <2>3 DEF PageLength
    <3>2. PageLength(N, m) = z
      BY <2>1, <2>2, <2>3 DEF PageLength
    <3> QED BY <2>3, <3>1, <3>2
  <2>4. CASE ~(z <= n) /\ 0 < n
    <3>1. PageLength(n, 0) = n
      BY <2>2, <2>4 DEF PageLength
    <3>2. PageLength(N, m) = n
      BY <2>1, <2>2, <2>4 DEF PageLength
    <3> QED BY <3>1, <3>2
  <2>5. CASE ~(z <= n) /\ ~(0 < n)
    <3>1. PageLength(n, 0) = 0
      BY <2>2, <2>5 DEF PageLength
    <3>2. PageLength(N, m) = 0
      BY <2>1, <2>2, <2>5 DEF PageLength
    <3> QED BY <3>1, <3>2
  <2> QED BY <2>3, <2>4, <2>5
<1>5. Len(a) = k /\ Len(b) = k
  BY <1>1, <1>2, <1>3, <1>4, PageIs
<1>6. ASSUME NEW i \in 1 .. k PROVE a[i] = b[i]
  <2>0. i \in 1 .. PageLength(Len(t), 0) /\ i \in 1 .. PageLength(Len(s), m)
    BY <1>1, <1>4
  <2>1. a[i] = t[0 + i] /\ b[i] = s[m + i]
    <3>1. 0 \in Nat
      OBVIOUS
    <3>2. Page(t, 0)[i] = t[0 + i]
      BY <2>0, <3>1, PageRow
    <3>3. Page(s, m)[i] = s[m + i]
      BY <2>0, PageRow
    <3> QED BY <1>2, <1>3, <2>0, <3>2, <3>3
  <2>2. i \in 1 .. Len(t) /\ 0 + i = i
    BY <1>1, <1>4
  <2> QED BY <2>1, <2>2
<1>7. a = b
  BY <1>5, <1>6, SeqEqual
<1> QED BY <1>2, <1>3, <1>7

\* The first page backwards from a row, turned around, is the page before it.
LEMMA PageBackward ==
  ASSUME NEW S, NEW s \in Seq(S), NEW t \in Seq(S), NEW q \in Nat, q <= Len(s), Len(t) = q, PageSize <= q,
         \A i \in 1 .. q : t[i] = s[q + 1 - i]
  PROVE  Reverse(Page(t, 0)) = Page(s, q - PageSize)
<1>1. PICK N \in Nat : N = Len(s)
  BY LenProperties
<1>2. PICK m \in Nat : m = q - PageSize
  BY PagesConstants
<1>3. PICK a \in Seq(S) : a = Page(t, 0)
  BY PageIs
<1>4. PICK b \in Seq(S) : b = Page(s, m)
  BY PageIs
<1>5. PageLength(q, 0) = PageSize /\ PageLength(N, m) = PageSize /\ PageSize \in Nat \ {0}
  BY <1>1, <1>2, PagesConstants DEF PageLength
<1>6. PICK k \in Nat : k = PageSize
  BY PagesConstants
<1>7. Len(a) = k /\ Len(b) = k
  BY <1>1, <1>3, <1>4, <1>5, <1>6, PageIs
<1>8. PICK r : r = Reverse(a)
  OBVIOUS
<1>9. r = [i \in 1 .. k |-> a[k - i + 1]]
  BY <1>7, <1>8 DEF Reverse
<1>10. \A i \in 1 .. k : a[k - i + 1] = b[i] /\ a[k - i + 1] \in S
  <2> SUFFICES ASSUME NEW i \in 1 .. k PROVE a[k - i + 1] = b[i] /\ a[k - i + 1] \in S
    OBVIOUS
  <2>1. PICK j \in 1 .. k : j = k - i + 1
    <3>1. k - i + 1 \in 1 .. k
      OBVIOUS
    <3> QED BY <3>1
  <2>0. j \in 1 .. PageLength(Len(t), 0) /\ i \in 1 .. PageLength(Len(s), m)
    BY <1>1, <1>5, <1>6, <2>1
  <2>2. a[j] = t[0 + j]
    <3>1. 0 \in Nat
      OBVIOUS
    <3>2. Page(t, 0)[j] = t[0 + j]
      BY <2>0, <3>1, PageRow
    <3> QED BY <1>3, <2>0, <3>2
  <2>3. b[i] = s[m + i]
    <3>1. Page(s, m)[i] = s[m + i]
      BY <2>0, PageRow
    <3> QED BY <1>4, <2>0, <3>1
  <2>4. 0 + j = j /\ j \in 1 .. q /\ q + 1 - j = m + i
    BY <1>2, <1>6, <2>1
  <2>5. a[j] \in S
    BY <1>7, ElementOfSeq
  <2> QED BY <2>1, <2>2, <2>3, <2>4, <2>5
<1>11. r \in Seq(S) /\ Len(r) = k
  <2>1. r \in [1 .. k -> S]
    BY <1>9, <1>10
  <2> QED BY <2>1
<1>12. r = b
  <2>1. \A i \in 1 .. k : r[i] = b[i]
    BY <1>9, <1>10
  <2> QED BY <1>7, <1>11, <2>1, SeqEqual
<1> QED BY <1>2, <1>3, <1>4, <1>8, <1>12

\* A boundary that stands for a row of the neighbouring page.
StandsFor(v, o, page, direction) ==
    IF direction = "next" THEN Rank(v, Rows, o) + 1 = (page - 1) * PageSize
                          ELSE Rank(v, Rows, o) = page * PageSize
\* The page that counting rows from the first one shows.
Counted(o, page) == Page(InOrder(Rows, o), (page - 1) * PageSize)

\* A keyset query for the next page shows the page that counting rows would show.
LEMMA ShownForward ==
  ASSUME NEW o \in Orders, NEW v \in Rows, NEW page \in Nat \ {0}, StandsFor(v, o, page, "next"),
         NEW p, p.order = o, p.boundary = v[o.key], p.reverse = FALSE
  PROVE  Shown(p) = Counted(o, page)
<1>1. PICK B : B = {r \in Rows : Before(v, r, o)}
  OBVIOUS
<1>2. B \subseteq Rows
  BY <1>1
<1>3. PICK N \in Nat : N = Cardinality(Rows)
  BY Ranks
<1>4. PICK m \in 1 .. N : m = Rank(v, Rows, o) + 1
  BY <1>1, <1>3, BeyondRow
<1>5. m = (page - 1) * PageSize
  BY <1>4 DEF StandsFor
<1>6. PICK s \in Seq(Rows) : s = InOrder(Rows, o) /\ Len(s) = N
  BY <1>3, Ranks
<1>7. PICK t \in Seq(Rows) : t = InOrder(B, o) /\ Len(t) = Cardinality(B)
  <2>1. InOrder(B, o) \in Seq(B) /\ Len(InOrder(B, o)) = Cardinality(B)
    BY <1>2, Ranks
  <2>2. InOrder(B, o) \in Seq(Rows)
    BY <1>2, <2>1
  <2> QED BY <2>1, <2>2
<1>8. Len(t) = N - m /\ \A i \in 1 .. Len(t) : t[i] = s[m + i]
  <2>1. Cardinality(B) = Cardinality(Rows) - (Rank(v, Rows, o) + 1)
    BY <1>1, BeyondRow
  <2>2. \A i \in 1 .. Cardinality(B) : InOrder(B, o)[i] = InOrder(Rows, o)[Rank(v, Rows, o) + 1 + i]
    BY <1>1, BeyondRow
  <2>3. \A i \in 1 .. Cardinality(B) : InOrder(B, o)[i] = InOrder(Rows, o)[m + i]
    BY <1>4, <2>2
  <2> QED BY <1>3, <1>4, <1>6, <1>7, <2>1, <2>3
<1>9. Page(t, 0) = Page(s, m)
  BY <1>6, <1>8, PageForward
<1>10. Shown(p) = Page(t, 0)
  <2>1. o.key \in {"a", "b"} /\ o.asc \in BOOLEAN /\ DOMAIN o = {"key", "asc"}
    BY DEF Orders
  <2>2. [o EXCEPT !.asc = (o.asc # FALSE)] = o
    BY <2>1 DEF Orders
  <2>3. p.boundary # None
    BY <2>1, PagesConstants
  <2>4. {r \in Rows : IF o.asc THEN r[o.key] > p.boundary ELSE r[o.key] < p.boundary} = B
    <3>1. PICK k \in {"a", "b"} : k = o.key
      BY <2>1
    <3>2. \A r \in Rows : r[k] \in Nat
      BY PagesConstants
    <3> QED BY <1>1, <2>1, <3>1, <3>2 DEF Before
  <2>5. Answer(p) = Page(InOrder(B, o), 0)
    BY <2>2, <2>3, <2>4 DEF Answer
  <2> QED BY <1>7, <2>5 DEF Shown
<1> QED BY <1>5, <1>6, <1>9, <1>10 DEF Counted

\* A keyset query for the previous page shows the page that counting rows would show.
LEMMA ShownBackward ==
  ASSUME NEW o \in Orders, NEW v \in Rows, NEW page \in Nat \ {0}, StandsFor(v, o, page, "previous"),
         NEW p, p.order = o, p.boundary = v[o.key], p.reverse = TRUE
  PROVE  Shown(p) = Counted(o, page)
<1>1. PICK B : B = {r \in Rows : Before(r, v, o)}
  OBVIOUS
<1>2. B \subseteq Rows
  BY <1>1
<1>3. PICK N \in Nat : N = Cardinality(Rows)
  BY Ranks
<1>4. PICK q \in 0 .. N - 1 : q = Rank(v, Rows, o)
  BY <1>3, Ranks
<1>5. q = page * PageSize /\ PageSize <= q /\ q - PageSize = (page - 1) * PageSize
  <2>1. q = page * PageSize
    BY <1>4 DEF StandsFor
  <2>2. PICK k \in Nat : k = PageSize
    BY PagesConstants
  <2>3. page * k - k = (page - 1) * k /\ (page - 1) * k >= 0
    OBVIOUS
  <2> QED BY <2>1, <2>2, <2>3
<1>6. PICK s \in Seq(Rows) : s = InOrder(Rows, o) /\ Len(s) = N
  BY <1>3, Ranks
<1>7. PICK o2 \in Orders : o2 = Opposite(o)
  BY OppositeOrder
<1>8. PICK t \in Seq(Rows) : t = InOrder(B, o2) /\ Len(t) = Cardinality(B)
  <2>1. InOrder(B, o2) \in Seq(B) /\ Len(InOrder(B, o2)) = Cardinality(B)
    BY <1>2, Ranks
  <2>2. InOrder(B, o2) \in Seq(Rows)
    BY <1>2, <2>1
  <2> QED BY <2>1, <2>2
<1>9. Len(t) = q /\ \A i \in 1 .. q : t[i] = s[q + 1 - i]
  <2>1. Cardinality(B) = Rank(v, Rows, o)
    BY <1>1, RowsBefore
  <2>2. \A i \in 1 .. Cardinality(B) :
           InOrder(B, Opposite(o))[i] = InOrder(Rows, o)[Rank(v, Rows, o) + 1 - i]
    BY <1>1, RowsBefore
  <2>3. Cardinality(B) = q
    BY <1>4, <2>1
  <2>4. \A i \in 1 .. q : InOrder(B, o2)[i] = InOrder(Rows, o)[q + 1 - i]
    BY <1>4, <1>7, <2>2, <2>3
  <2> QED BY <1>6, <1>8, <2>3, <2>4
<1>10. Reverse(Page(t, 0)) = Page(s, q - PageSize)
  <2>1. q \in Nat /\ q <= Len(s)
    BY <1>4, <1>6
  <2>2. Len(t) = q /\ PageSize <= q
    BY <1>5, <1>9
  <2>3. \A i \in 1 .. q : t[i] = s[q + 1 - i]
    BY <1>9
  <2> QED BY <2>1, <2>2, <2>3, PageBackward
<1>11. Shown(p) = Reverse(Page(t, 0))
  <2>1. o.key \in {"a", "b"} /\ o.asc \in BOOLEAN /\ DOMAIN o = {"key", "asc"}
    BY DEF Orders
  <2>2. [p.order EXCEPT !.asc = (p.order.asc # p.reverse)] = o2
    BY <1>7, <2>1 DEF Opposite
  <2>3. p.boundary # None
    BY <2>1, PagesConstants
  <2>4. {r \in Rows : IF o2.asc THEN r[o2.key] > p.boundary ELSE r[o2.key] < p.boundary} = B
    <3>1. PICK k \in {"a", "b"} : k = o.key
      BY <2>1
    <3>2. \A r \in Rows : r[k] \in Nat
      BY PagesConstants
    <3>3. o2.key = k /\ o2.asc = ~o.asc
      BY <1>7, <3>1, OppositeOrder
    <3> QED BY <1>1, <2>1, <3>1, <3>2, <3>3 DEF Before
  <2>5. Answer(p) = Page(InOrder(B, o2), 0)
    BY <2>2, <2>3, <2>4 DEF Answer
  <2> QED BY <1>8, <2>5 DEF Shown
<1> QED BY <1>5, <1>6, <1>10, <1>11 DEF Counted
-----------------------------------------------------------------------------
\* What a load is before its metadata is decided, and after.
Early == {"lookup", "columns", "index", "store", "recheck"}
Late == {"plan", "query", "done"}

Loads == [at : Early \cup Late \cup {"idle", "failed"}, page : Nat \ {0}, sort : Sorts,
          nav : Cursors \cup {None}, no : Nat, since : Nat, again : BOOLEAN, gen : Nat,
          meta : Metadata \cup {None}, order : Orders \cup {None}, boundary : Nat \cup {None},
          reverse : BOOLEAN, rows : Seq(Rows)]

\* The order the metadata and the user ask for together.
OrderFor(key, sort) ==
    IF key = "none" THEN None
    ELSE IF sort = "default" THEN [key |-> key, asc |-> TRUE]
    ELSE IF key = "a" THEN [key |-> "a", asc |-> FALSE]
    ELSE None

\* A cursor stands for the row its page begins or ends beside.
TrueCursor(c, key) ==
    /\ OrderFor(key, c.sort) \in Orders /\ c.page \in Nat \ {0}
    /\ \E v \in Rows : /\ c.value = v[OrderFor(key, c.sort).key]
                       /\ StandsFor(v, OrderFor(key, c.sort), c.page, c.direction)

\* One load: M gives the key that was found by each read of the metadata.
LoadOK(p, M, ac, gn, ls, is) ==
    /\ p.nav \in is \cup {None}
    /\ p.since <= ac
    /\ p.gen <= gn
    /\ p.at \in Early => p.no < ls
    /\ p.at \in {"index", "store"} =>
          /\ p.meta \in Metadata /\ p.meta.revision = <<p.no, p.again>>
          /\ p.gen = gn => p.meta.version >= ac
    /\ p.at \in Late =>
          p.meta \in Metadata /\ p.meta.key = M[p.meta.revision] /\ p.meta.version >= p.since
    /\ p.at = "query" /\ p.order # None =>
          p.order = OrderFor(p.meta.key, p.sort) /\ Shown(p) = Counted(p.order, p.page)
    /\ p.at = "done" /\ p.order # None => p.rows = Counted(p.order, p.page)

\* A read of the metadata whose result is out: no load that is still reading
\* has its number.
Known(rev, ld, ls) ==
    rev[1] < ls /\ \A l \in Loaders : ld[l].at \in Early => ld[l].no # rev[1]

\* The types of the variables.
PagesTypes ==
    /\ version \in 0 .. MaxVersion /\ acked \in 0 .. version
    /\ cached \in Metadata \cup {None}
    /\ cursors \in Seq(Cursors) /\ Len(cursors) <= MaxCursors
    /\ generation \in Nat /\ loads \in Nat /\ disconnected \in BOOLEAN
    /\ issued \in SUBSET Cursors
    /\ load \in [Loaders -> Loads]
    /\ ddl \in [at : {"none", "sent", "applied"}, made : 0 .. version]
\* The reads of the metadata: the number of the load, first or repeated.
Revisions == Nat \X BOOLEAN
\* The cache holds the key that was read, not older than the last change of the table
\* that was answered.
CacheOK(M) ==
    cached # None => /\ ~disconnected /\ cached.version >= acked
                     /\ cached.key = M[cached.revision] /\ Known(cached.revision, load, loads)
\* Every cursor a client may send stands for a row under the key it was made for.
IssuedOK(M) ==
    \A c \in issued : TrueCursor(c, M[c.revision]) /\ Known(c.revision, load, loads)
\* Every load is sound, and the metadata of a late one is no longer being read.
LoadsOK(M) ==
    \A l \in Loaders : /\ LoadOK(load[l], M, acked, generation, loads, issued)
                       /\ load[l].at \in Late => Known(load[l].meta.revision, load, loads)
\* Two loads that read metadata have different numbers.
NumbersDiffer ==
    \A l, q \in Loaders :
        l # q /\ load[l].at \in Early /\ load[q].at \in Early => load[l].no # load[q].no
\* The inductive invariant: some M says which key each read of the metadata found, and
\* cache, cursors and loads agree with it.
PagesInvOf(M) == CacheOK(M) /\ IssuedOK(M) /\ LoadsOK(M)
PagesInv == PagesTypes /\ NumbersDiffer /\ \E M \in [Revisions -> {"a", "b", "none"}] : PagesInvOf(M)
USE DEF Revisions

\* What held of a load holds of it while the numbers grow and cursors are added.
LEMMA LoadStays ==
  ASSUME NEW p \in Loads, NEW M, NEW ac \in Nat, NEW ac2 \in Nat, NEW gn \in Nat, NEW gn2 \in Nat,
         NEW ls \in Nat, NEW ls2 \in Nat, NEW is, NEW is2, LoadOK(p, M, ac, gn, ls, is),
         ac <= ac2, gn <= gn2, ls <= ls2, is \subseteq is2, gn2 = gn => ac2 = ac
  PROVE  LoadOK(p, M, ac2, gn2, ls2, is2)
<1>1. p.since \in Nat /\ p.gen \in Nat /\ p.no \in Nat
  BY DEF Loads
<1> QED BY <1>1 DEF LoadOK

\* A step of one load leaves the others true, and what was known stays known.
LEMMA LoadStep ==
  ASSUME NEW M, PagesTypes, NumbersDiffer, LoadsOK(M), NEW l \in Loaders, NEW p \in Loads,
         load' = [load EXCEPT ![l] = p], generation' = generation, acked' = acked,
         loads' \in Nat, loads <= loads', issued \subseteq issued',
         p.at \in Early => (load[l].at \in Early /\ p.no = load[l].no) \/ p.no >= loads,
         LoadOK(p, M, acked, generation, loads', issued'),
         p.at \in Late => \/ Known(p.meta.revision, load, loads)
                          \/ Known(p.meta.revision, load', loads')
  PROVE  /\ NumbersDiffer' /\ LoadsOK(M)' /\ load' \in [Loaders -> Loads]
         /\ \A rev \in Revisions : Known(rev, load, loads) => Known(rev, load', loads')
<1>0. /\ load \in [Loaders -> Loads] /\ load' \in [Loaders -> Loads] /\ load'[l] = p
      /\ \A q \in Loaders : q # l => load'[q] = load[q]
  BY DEF PagesTypes
<1>1. acked \in Nat /\ generation \in Nat /\ loads \in Nat
  BY DEF PagesTypes
<1>2. PICK ac, gn, ls, ls2 \in Nat :
         ac = acked /\ gn = generation /\ ls = loads /\ ls2 = loads'
  BY <1>1
<1>3. PICK is, is2 : is = issued /\ is2 = issued'
  OBVIOUS
<1>4. ASSUME NEW rev \in Revisions, Known(rev, load, loads) PROVE Known(rev, load', loads')
  <2>1. rev[1] \in Nat /\ rev[1] < ls
    BY <1>2, <1>4 DEF Known
  <2>2. ASSUME NEW q \in Loaders, load'[q].at \in Early PROVE load'[q].no # rev[1]
    <3>1. CASE q = l
      <4>1. p.no \in Nat
        BY DEF Loads
      <4>2. load[l].at \in Early => load[l].no # rev[1]
        BY <1>4 DEF Known
      <4> QED BY <1>0, <1>2, <2>1, <2>2, <3>1, <4>1, <4>2
    <3>2. CASE q # l
      BY <1>0, <1>4, <2>2, <3>2 DEF Known
    <3> QED BY <3>1, <3>2
  <2>3. rev[1] < ls2
    BY <1>2, <2>1
  <2> QED BY <1>2, <2>2, <2>3 DEF Known
<1>5. NumbersDiffer'
  <2> SUFFICES ASSUME NEW r \in Loaders, NEW q \in Loaders, r # q,
                      load'[r].at \in Early, load'[q].at \in Early
               PROVE  load'[r].no # load'[q].no
    BY DEF NumbersDiffer
  <2>1. ASSUME NEW x \in Loaders, x # l, load[x].at \in Early, p.at \in Early PROVE load[x].no # p.no
    <3>1. load[x].no < loads
      BY <2>1 DEF LoadsOK, LoadOK
    <3>2. load[x].no \in Nat /\ p.no \in Nat
      BY <1>0 DEF Loads
    <3>3. load[l].at \in Early => load[x].no # load[l].no
      BY <2>1 DEF NumbersDiffer
    <3> QED BY <1>1, <2>1, <3>1, <3>2, <3>3
  <2>2. CASE r = l
    BY <1>0, <2>1, <2>2
  <2>3. CASE q = l
    BY <1>0, <2>1, <2>3
  <2>4. CASE r # l /\ q # l
    BY <1>0, <2>4 DEF NumbersDiffer
  <2> QED BY <2>2, <2>3, <2>4
<1>6. LoadsOK(M)'
  <2> SUFFICES ASSUME NEW q \in Loaders
               PROVE  /\ LoadOK(load'[q], M, acked', generation', loads', issued')
                      /\ load'[q].at \in Late => Known(load'[q].meta.revision, load', loads')
    BY DEF LoadsOK
  <2>1. CASE q = l
    <3>1. p.at \in Late => p.meta.revision \in Revisions
      BY DEF LoadOK, Metadata
    <3> QED BY <1>0, <1>4, <2>1, <3>1
  <2>2. CASE q # l
    <3>1. PICK x \in Loads : x = load[q]
      BY <1>0
    <3>2. LoadOK(x, M, ac, gn, ls, is) /\ (x.at \in Late => Known(x.meta.revision, load, loads))
      BY <1>2, <1>3, <3>1 DEF LoadsOK
    <3>3. LoadOK(x, M, ac, gn, ls2, is2)
      <4>1. ls <= ls2 /\ is \subseteq is2
        BY <1>2, <1>3
      <4>2. ac <= ac /\ gn <= gn
        OBVIOUS
      <4> QED BY <3>2, <4>1, <4>2, LoadStays
    <3>4. x.at \in Late => x.meta.revision \in Revisions
      BY <3>2 DEF LoadOK, Metadata
    <3>5. load'[q] = x
      BY <1>0, <2>2, <3>1
    <3> QED BY <1>2, <1>3, <1>4, <3>2, <3>3, <3>4, <3>5
  <2> QED BY <2>1, <2>2
<1> QED BY <1>0, <1>4, <1>5, <1>6

\* A step that leaves every load where it is.
LEMMA NoLoadStep ==
  ASSUME NEW M, PagesTypes, NumbersDiffer, IssuedOK(M), LoadsOK(M), load' = load, loads' = loads, issued' = issued,
         generation' \in Nat, acked' \in Nat, generation <= generation', acked <= acked',
         generation' = generation => acked' = acked
  PROVE  NumbersDiffer' /\ IssuedOK(M)' /\ LoadsOK(M)'
<1>0. load \in [Loaders -> Loads]
  BY DEF PagesTypes
<1>1. acked \in Nat /\ generation \in Nat /\ loads \in Nat
  BY DEF PagesTypes
<1>2. PICK ac, ac2, gn, gn2, ls \in Nat :
         ac = acked /\ gn = generation /\ ls = loads /\ ac2 = acked' /\ gn2 = generation'
  BY <1>1
<1>3. PICK is : is = issued
  OBVIOUS
<1>4. ASSUME NEW q \in Loaders PROVE LoadOK(load[q], M, acked', generation', loads, issued)
  <2>1. PICK x \in Loads : x = load[q]
    BY <1>0
  <2>2. LoadOK(x, M, ac, gn, ls, is)
    BY <1>2, <1>3, <2>1 DEF LoadsOK
  <2>3. ac <= ac2 /\ gn <= gn2 /\ (gn2 = gn => ac2 = ac) /\ ls <= ls /\ is \subseteq is
    BY <1>2
  <2>4. LoadOK(x, M, ac2, gn2, ls, is)
    BY <2>2, <2>3, LoadStays
  <2> QED BY <1>2, <1>3, <2>1, <2>4
<1>5. LoadsOK(M)'
  BY <1>4 DEF LoadsOK
<1>6. NumbersDiffer' /\ IssuedOK(M)'
  BY DEF NumbersDiffer, IssuedOK
<1> QED BY <1>5, <1>6
\* A step of a load that touches neither the cache nor the cursors.
LEMMA QuietStep ==
  ASSUME PagesInv, NEW l \in Loaders, NEW p \in Loads, load' = [load EXCEPT ![l] = p],
         UNCHANGED <<version, cacheVars, issued, ddl, acked>>, loads' \in Nat, loads <= loads',
         p.at \in Early => (load[l].at \in Early /\ p.no = load[l].no) \/ p.no >= loads,
         \A M \in [Revisions -> {"a", "b", "none"}] :
            PagesInvOf(M) => LoadOK(p, M, acked, generation, loads', issued),
         p.at \in Late => Known(p.meta.revision, load, loads)
  PROVE  PagesInv'
<1>1. PICK M \in [Revisions -> {"a", "b", "none"}] : PagesInvOf(M)
  BY DEF PagesInv
<1>2. PagesTypes /\ NumbersDiffer /\ CacheOK(M) /\ IssuedOK(M) /\ LoadsOK(M)
  BY <1>1 DEF PagesInv, PagesInvOf
<1>3. LoadOK(p, M, acked, generation, loads', issued')
  BY <1>1
<1>4. generation' = generation /\ acked' = acked /\ issued \subseteq issued'
  BY DEF cacheVars
<1>5. /\ NumbersDiffer' /\ LoadsOK(M)' /\ load' \in [Loaders -> Loads]
      /\ \A rev \in Revisions : Known(rev, load, loads) => Known(rev, load', loads')
  BY <1>2, <1>3, <1>4, LoadStep
<1>6. PagesTypes'
  BY <1>2, <1>5 DEF PagesTypes, cacheVars
<1>7. CacheOK(M)'
  <2>1. cached # None => cached.revision \in Revisions
    BY <1>2 DEF PagesTypes, Metadata
  <2> QED BY <1>2, <1>5, <2>1 DEF CacheOK, cacheVars
<1>8. IssuedOK(M)'
  <2>1. \A c \in issued : c.revision \in Revisions
    BY <1>2 DEF PagesTypes, Cursors
  <2> QED BY <1>2, <1>5, <2>1 DEF IssuedOK
<1>9. PagesInvOf(M)'
  BY <1>5, <1>7, <1>8 DEF PagesInvOf
<1> QED BY <1>5, <1>6, <1>9 DEF PagesInv

\* A loader that does nothing is typed.
LEMMA NoLoadType == NoLoad \in Loads
  BY PagesConstants, EmptySeq DEF NoLoad, Loads, Early, Late, Sorts

\* Begin: the new load has a number nobody has.
LEMMA BeginKeeps ==
  ASSUME PagesInv, NEW l \in Loaders, NEW page \in 1 .. MaxPage, NEW sort \in Sorts,
         NEW nav \in issued \cup {None}, Begin(l, page, sort, nav)
  PROVE  PagesInv'
<1>0. PagesTypes
  BY DEF PagesInv
<1>1. loads \in Nat /\ acked \in Nat /\ generation \in Nat /\ issued \subseteq Cursors
  BY <1>0 DEF PagesTypes
<1>2. page \in Nat \ {0}
  BY PagesConstants
<1>3. PICK p \in Loads : p = [NoLoad EXCEPT !.at = "lookup", !.page = page, !.sort = sort,
                                 !.nav = nav, !.no = loads, !.since = acked]
  <2>1. nav \in Cursors \cup {None}
    BY <1>1
  <2> QED BY <1>1, <1>2, <2>1, NoLoadType DEF Loads, Early, Late
<1>4. /\ p.at = "lookup" /\ p.nav = nav /\ p.since = acked /\ p.gen = 0 /\ p.no = loads
  BY <1>3 DEF NoLoad
<1>5. load' = [load EXCEPT ![l] = p] /\ loads' = loads + 1
      /\ UNCHANGED <<version, cacheVars, issued, ddl, acked>>
  BY <1>3 DEF Begin, Go
<1>6. \A M : LoadOK(p, M, acked, generation, loads', issued)
  BY <1>1, <1>4, <1>5 DEF LoadOK, Late
<1>7. loads' \in Nat /\ loads <= loads' /\ p.no >= loads /\ p.at \notin Late
  BY <1>1, <1>4, <1>5 DEF Late
<1> QED BY <1>5, <1>6, <1>7, QuietStep
\* What is known of the load that takes a step.
LEMMA OneLoad ==
  ASSUME PagesInv, NEW l \in Loaders
  PROVE  /\ load[l] \in Loads /\ acked \in Nat /\ generation \in Nat /\ loads \in Nat /\ version \in Nat
         /\ acked <= version /\ load[l].since <= acked /\ load[l].gen <= generation
         /\ load[l].nav \in issued \cup {None}
         /\ load[l].at \in Early => load[l].no < loads
         /\ load[l].at \in {"index", "store"} =>
               /\ load[l].meta \in Metadata /\ load[l].meta.revision = <<load[l].no, load[l].again>>
               /\ load[l].gen = generation => load[l].meta.version >= acked
<1>1. PICK M \in [Revisions -> {"a", "b", "none"}] : LoadsOK(M) /\ PagesTypes
  BY DEF PagesInv, PagesInvOf
<1> QED BY <1>1 DEF LoadsOK, LoadOK, PagesTypes

\* A load that fails leaves everything but itself as it was.
LEMMA FailedKeeps ==
  ASSUME PagesInv, NEW l \in Loaders, Failed(l),
         UNCHANGED <<version, cacheVars, issued, ddl, acked>>, loads' = loads
  PROVE  PagesInv'
<1>1. PICK p \in Loads : p = [NoLoad EXCEPT !.at = "failed"]
  BY NoLoadType DEF Loads
<1>2. p.at = "failed" /\ p.nav = None /\ p.since = 0 /\ p.gen = 0
  BY <1>1 DEF NoLoad
<1>3. load' = [load EXCEPT ![l] = p]
  BY <1>1 DEF Failed, Go
<1>4. acked \in Nat /\ generation \in Nat /\ loads \in Nat
  BY OneLoad
<1>5. \A M : LoadOK(p, M, acked, generation, loads', issued)
  BY <1>2, <1>4 DEF LoadOK, Late, Early
<1>6. loads' \in Nat /\ loads <= loads' /\ p.at \notin Late /\ p.at \notin Early
  BY <1>2, <1>4 DEF Late, Early
<1> QED BY <1>3, <1>5, <1>6, QuietStep

\* Lookup: the cached metadata is no older than the load.
LEMMA LookupKeeps ==
  ASSUME PagesInv, NEW l \in Loaders, Lookup(l)
  PROVE  PagesInv'
<1>0. /\ load[l] \in Loads /\ acked \in Nat /\ generation \in Nat /\ loads \in Nat
      /\ load[l].since <= acked /\ load[l].gen <= generation
      /\ load[l].nav \in issued \cup {None} /\ load[l].no < loads
  BY OneLoad DEF Lookup, Loading, Early
<1>1. UNCHANGED <<version, cacheVars, issued, ddl, acked>> /\ loads' = loads
  BY DEF Lookup
<1>2. PICK p0 \in Loads : p0 = load[l]
  BY <1>0
<1>3. CASE disconnected /\ Failed(l)
  BY <1>1, <1>3, FailedKeeps
<1>4. CASE ~disconnected /\ cached # None /\ Go(l, [load[l] EXCEPT !.at = "plan", !.meta = cached])
  <2>1. cached \in Metadata
    BY <1>4 DEF PagesInv, PagesTypes
  <2>2. PICK c \in Metadata : c = cached
    BY <2>1
  <2>3. PICK p \in Loads : p = [p0 EXCEPT !.at = "plan", !.meta = c]
    BY DEF Loads, Late
  <2>4. p.at = "plan" /\ p.meta = c /\ p.nav = p0.nav /\ p.since = p0.since /\ p.gen = p0.gen
    BY <2>3 DEF Loads
  <2>5. ASSUME NEW M \in [Revisions -> {"a", "b", "none"}], PagesInvOf(M)
        PROVE  LoadOK(p, M, acked, generation, loads', issued)
    <3>1. c.version >= acked /\ c.key = M[c.revision]
      BY <1>4, <2>2, <2>5 DEF PagesInvOf, CacheOK
    <3>2. c.version \in Nat /\ p0.since \in Nat
      BY DEF Metadata, Loads
    <3>3. c.version >= p0.since
      BY <1>0, <1>2, <3>1, <3>2
    <3> QED BY <1>0, <1>2, <2>4, <3>1, <3>3 DEF LoadOK, Early
  <2>6. Known(p.meta.revision, load, loads)
    BY <1>4, <2>2, <2>4 DEF PagesInv, PagesInvOf, CacheOK
  <2>7. load' = [load EXCEPT ![l] = p]
    BY <1>2, <1>4, <2>2, <2>3 DEF Go
  <2>8. loads' \in Nat /\ loads <= loads' /\ p.at \notin Early
    BY <1>0, <1>1, <2>4 DEF Early
  <2> QED BY <1>1, <2>5, <2>6, <2>7, <2>8, QuietStep
<1>5. CASE ~disconnected /\ cached = None
           /\ Go(l, [load[l] EXCEPT !.at = "columns", !.gen = generation,
                                    !.again = (Loading(l) = "recheck")])
  <2>1. PICK b \in BOOLEAN : b = (Loading(l) = "recheck")
    OBVIOUS
  <2>2. PICK g \in Nat : g = generation
    BY <1>0
  <2>3. PICK p \in Loads : p = [p0 EXCEPT !.at = "columns", !.gen = g, !.again = b]
    BY DEF Loads, Early
  <2>4. p.at = "columns" /\ p.nav = p0.nav /\ p.since = p0.since /\ p.gen = g /\ p.no = p0.no
    BY <2>3 DEF Loads
  <2>5. load' = [load EXCEPT ![l] = p]
    BY <1>2, <1>5, <2>1, <2>2, <2>3 DEF Go
  <2>6. \A M : LoadOK(p, M, acked, generation, loads', issued)
    BY <1>0, <1>1, <1>2, <2>2, <2>4 DEF LoadOK, Late
  <2>7. loads' \in Nat /\ loads <= loads' /\ p.at \notin Late /\ load[l].at \in Early /\ p.no = load[l].no
    BY <1>0, <1>1, <1>2, <2>4 DEF Late, Early, Lookup, Loading
  <2> QED BY <1>1, <2>5, <2>6, <2>7, QuietStep
<1> QED BY <1>3, <1>4, <1>5 DEF Lookup

\* ReadColumns: what is read is no older than what has been answered.
LEMMA ColumnsKeep ==
  ASSUME PagesInv, NEW l \in Loaders, ReadColumns(l)
  PROVE  PagesInv'
<1>0. /\ load[l] \in Loads /\ acked \in Nat /\ generation \in Nat /\ loads \in Nat
      /\ version \in Nat /\ acked <= version
      /\ load[l].since <= acked /\ load[l].gen <= generation
      /\ load[l].nav \in issued \cup {None} /\ load[l].no < loads
  BY OneLoad DEF ReadColumns, Loading, Early
<1>1. PICK p0 \in Loads : p0 = load[l]
  BY <1>0
<1>2. PICK v \in Nat : v = version
  BY <1>0
<1>3. PICK m \in Metadata : m = [version |-> v, key |-> KeyAt(v), revision |-> <<p0.no, p0.again>>]
  <2>1. KeyAt(v) \in {"a", "b", "none"}
    BY DEF KeyAt
  <2>2. <<p0.no, p0.again>> \in Nat \X BOOLEAN
    BY DEF Loads
  <2> QED BY <2>1, <2>2 DEF Metadata
<1>4. m.version = v /\ m.revision = <<p0.no, p0.again>>
  BY <1>3
<1>5. PICK p \in Loads : p = [p0 EXCEPT !.at = "index", !.meta = m]
  BY DEF Loads, Early
<1>6. /\ p.at = "index" /\ p.nav = p0.nav /\ p.since = p0.since /\ p.gen = p0.gen /\ p.no = p0.no
      /\ p.meta = m /\ p.again = p0.again
  BY <1>5 DEF Loads
<1>7. load' = [load EXCEPT ![l] = p]
  BY <1>1, <1>2, <1>3, <1>5 DEF ReadColumns, Go
<1>8. \A M : LoadOK(p, M, acked, generation, loads', issued)
  BY <1>0, <1>1, <1>2, <1>4, <1>6 DEF LoadOK, Late, ReadColumns
<1>9. loads' \in Nat /\ loads <= loads' /\ p.at \notin Late /\ load[l].at \in Early /\ p.no = load[l].no
  BY <1>0, <1>1, <1>6 DEF Late, Early, ReadColumns, Loading
<1>10. UNCHANGED <<version, cacheVars, issued, ddl, acked>>
  BY DEF ReadColumns
<1> QED BY <1>7, <1>8, <1>9, <1>10, QuietStep

\* ReadIndex: the key is confirmed or given up, the read keeps its number.
LEMMA IndexKeeps ==
  ASSUME PagesInv, NEW l \in Loaders, ReadIndex(l)
  PROVE  PagesInv'
<1>0. /\ load[l] \in Loads /\ acked \in Nat /\ generation \in Nat /\ loads \in Nat
      /\ load[l].since <= acked /\ load[l].gen <= generation
      /\ load[l].nav \in issued \cup {None} /\ load[l].no < loads
      /\ load[l].meta \in Metadata /\ load[l].meta.revision = <<load[l].no, load[l].again>>
      /\ load[l].gen = generation => load[l].meta.version >= acked
  BY OneLoad DEF ReadIndex, Loading, Early
<1>1. PICK p0 \in Loads : p0 = load[l]
  BY <1>0
<1>2. PICK m0 \in Metadata : m0 = p0.meta
  BY <1>0, <1>1
<1>3. PICK k \in {"a", "b", "none"} : k = IF KeyAt(version) = m0.key THEN m0.key ELSE "none"
  BY DEF Metadata
<1>4. PICK m \in Metadata : m = [m0 EXCEPT !.key = k]
  BY DEF Metadata
<1>5. m.version = m0.version /\ m.revision = m0.revision
  BY <1>4 DEF Metadata
<1>6. PICK p \in Loads : p = [p0 EXCEPT !.at = "store", !.meta = m]
  BY DEF Loads, Early
<1>7. /\ p.at = "store" /\ p.nav = p0.nav /\ p.since = p0.since /\ p.gen = p0.gen /\ p.no = p0.no
      /\ p.meta = m /\ p.again = p0.again
  BY <1>6 DEF Loads
<1>8. load' = [load EXCEPT ![l] = p]
  BY <1>1, <1>2, <1>3, <1>4, <1>6 DEF ReadIndex, Go
<1>9. \A M : LoadOK(p, M, acked, generation, loads', issued)
  BY <1>0, <1>1, <1>2, <1>5, <1>7 DEF LoadOK, Late, ReadIndex
<1>10. loads' \in Nat /\ loads <= loads' /\ p.at \notin Late /\ load[l].at \in Early /\ p.no = load[l].no
  BY <1>0, <1>1, <1>7 DEF Late, Early, ReadIndex, Loading
<1>11. UNCHANGED <<version, cacheVars, issued, ddl, acked>>
  BY DEF ReadIndex
<1> QED BY <1>8, <1>9, <1>10, <1>11, QuietStep
\* The key of a read may be settled when the read is done: nothing uses it yet.
LEMMA Rebind ==
  ASSUME PagesTypes, NEW M \in [Revisions -> {"a", "b", "none"}], PagesInvOf(M), NEW l \in Loaders,
         load[l].at \in Early, NEW k, NEW M2, NEW no, NEW again, no = load[l].no,
         M2 = [M EXCEPT ![<<no, again>>] = k]
  PROVE  PagesInvOf(M2)
<1>1. ASSUME NEW rev \in Revisions, Known(rev, load, loads) PROVE M2[rev] = M[rev]
  <2>1. rev[1] # no
    BY <1>1 DEF Known
  <2>2. rev # <<no, again>>
    BY <2>1
  <2> QED BY <2>2
<1>2. CacheOK(M2)
  <2>1. cached # None => cached.revision \in Revisions
    BY DEF PagesTypes, Metadata
  <2> QED BY <1>1, <2>1 DEF PagesInvOf, CacheOK
<1>3. IssuedOK(M2)
  <2>1. \A c \in issued : c.revision \in Revisions
    BY DEF PagesTypes, Cursors
  <2> QED BY <1>1, <2>1 DEF PagesInvOf, IssuedOK
<1>4. LoadsOK(M2)
  <2> SUFFICES ASSUME NEW q \in Loaders
               PROVE  /\ LoadOK(load[q], M2, acked, generation, loads, issued)
                      /\ load[q].at \in Late => Known(load[q].meta.revision, load, loads)
    BY DEF LoadsOK
  <2>1. /\ LoadOK(load[q], M, acked, generation, loads, issued)
        /\ load[q].at \in Late => Known(load[q].meta.revision, load, loads)
    BY DEF LoadsOK, PagesInvOf
  <2>2. load[q].at \in Late => load[q].meta.revision \in Revisions
    BY <2>1 DEF LoadOK, Metadata
  <2>3. load[q].at \in Late => M2[load[q].meta.revision] = M[load[q].meta.revision]
    BY <1>1, <2>1, <2>2
  <2>4. LoadOK(load[q], M2, acked, generation, loads, issued)
    BY <2>1, <2>3 DEF LoadOK
  <2> QED BY <2>1, <2>4
<1> QED BY <1>2, <1>3, <1>4 DEF PagesInvOf

\* Store: the metadata is remembered only when no invalidation came in between.
LEMMA StoreKeeps ==
  ASSUME PagesInv, NEW l \in Loaders, Store(l)
  PROVE  PagesInv'
<1>0. /\ load[l] \in Loads /\ acked \in Nat /\ generation \in Nat /\ loads \in Nat
      /\ load[l].since <= acked /\ load[l].gen <= generation
      /\ load[l].nav \in issued \cup {None} /\ load[l].no < loads
      /\ load[l].meta \in Metadata /\ load[l].meta.revision = <<load[l].no, load[l].again>>
      /\ load[l].gen = generation => load[l].meta.version >= acked
  BY OneLoad DEF Store, Loading, Early
<1>1. PICK p0 \in Loads : p0 = load[l]
  BY <1>0
<1>2. UNCHANGED <<version, cursors, generation, disconnected, issued, loads, ddl, acked>>
  BY DEF Store
<1>3. load[l].at \in Early
  BY DEF Store, Loading, Early
<1>4. CASE Failed(l) /\ UNCHANGED cached
  BY <1>2, <1>4, FailedKeeps DEF cacheVars
<1>5. CASE Advance(l, "recheck") /\ UNCHANGED cached
  <2>1. PICK p \in Loads : p = [p0 EXCEPT !.at = "recheck"]
    BY DEF Loads, Early
  <2>2. /\ p.at = "recheck" /\ p.nav = p0.nav /\ p.since = p0.since /\ p.gen = p0.gen /\ p.no = p0.no
    BY <2>1 DEF Loads
  <2>3. load' = [load EXCEPT ![l] = p]
    BY <1>1, <1>5, <2>1 DEF Advance, Go
  <2>4. \A M : LoadOK(p, M, acked, generation, loads', issued)
    BY <1>0, <1>1, <1>2, <2>2 DEF LoadOK, Late
  <2>5. loads' \in Nat /\ loads <= loads' /\ p.at \notin Late /\ p.no = load[l].no
    BY <1>0, <1>1, <1>2, <2>2 DEF Late
  <2>6. UNCHANGED <<version, cacheVars, issued, ddl, acked>>
    BY <1>2, <1>5 DEF cacheVars
  <2> QED BY <1>3, <2>3, <2>4, <2>5, <2>6, QuietStep
<1>6. CASE Current(load[l].gen) /\ Advance(l, "plan") /\ cached' = load[l].meta
  <2>1. ~disconnected /\ generation = load[l].gen
    BY <1>6 DEF Current
  <2>2. PICK M \in [Revisions -> {"a", "b", "none"}] : PagesInvOf(M)
    BY DEF PagesInv
  <2>3. PagesTypes /\ NumbersDiffer
    BY DEF PagesInv
  <2>4. PICK m \in Metadata : m = p0.meta
    BY <1>0, <1>1
  <2>5. p0.no \in Nat /\ p0.again \in BOOLEAN /\ m.key \in {"a", "b", "none"} /\ m.version \in Nat
    BY DEF Loads, Metadata
  <2>6. PICK M2 \in [Revisions -> {"a", "b", "none"}] : M2 = [M EXCEPT ![<<p0.no, p0.again>>] = m.key]
    BY <2>5
  <2>7. PagesInvOf(M2)
    BY <1>1, <1>3, <2>2, <2>3, <2>6, Rebind
  <2>8. CacheOK(M2) /\ IssuedOK(M2) /\ LoadsOK(M2)
    BY <2>7 DEF PagesInvOf
  <2>9. m.revision = <<p0.no, p0.again>> /\ m.revision \in Revisions /\ M2[m.revision] = m.key
    BY <1>0, <1>1, <2>4, <2>5, <2>6
  <2>10. PICK p \in Loads : p = [p0 EXCEPT !.at = "plan"]
    BY DEF Loads, Late
  <2>11. /\ p.at = "plan" /\ p.nav = p0.nav /\ p.since = p0.since /\ p.gen = p0.gen /\ p.meta = m
    BY <2>4, <2>10 DEF Loads
  <2>12. load' = [load EXCEPT ![l] = p]
    BY <1>1, <1>6, <2>10 DEF Advance, Go
  <2>13. m.version >= acked /\ m.version >= p0.since
    <3>1. m.version >= acked
      BY <1>0, <1>1, <2>1, <2>4
    <3>2. p0.since \in Nat
      BY DEF Loads
    <3> QED BY <1>0, <1>1, <2>5, <3>1, <3>2
  <2>14. LoadOK(p, M2, acked, generation, loads', issued')
    BY <1>0, <1>1, <1>2, <2>9, <2>11, <2>13 DEF LoadOK, Early
  <2>15. Known(m.revision, load', loads')
    <3>1. m.revision[1] = p0.no
      BY <2>9
    <3>2. ASSUME NEW q \in Loaders, load'[q].at \in Early PROVE load'[q].no # p0.no
      <4>1. q # l
        BY <2>3, <2>11, <2>12, <3>2 DEF PagesTypes, Early
      <4>2. load'[q] = load[q]
        BY <2>3, <2>12, <4>1 DEF PagesTypes
      <4> QED BY <1>1, <1>3, <2>3, <3>2, <4>1, <4>2 DEF NumbersDiffer
    <3> QED BY <1>0, <1>1, <1>2, <3>1, <3>2 DEF Known
  <2>16. p.at \notin Early /\ loads' \in Nat /\ loads <= loads' /\ issued \subseteq issued'
         /\ generation' = generation /\ acked' = acked
    BY <1>0, <1>2, <2>11 DEF Early
  <2>17. p.at \in Late => Known(p.meta.revision, load', loads')
    BY <2>11, <2>15
  <2>18. /\ NumbersDiffer' /\ LoadsOK(M2)' /\ load' \in [Loaders -> Loads]
         /\ \A rev \in Revisions : Known(rev, load, loads) => Known(rev, load', loads')
    BY <2>3, <2>8, <2>12, <2>14, <2>16, <2>17, LoadStep
  <2>19. cached' = m
    BY <1>1, <1>6, <2>4
  <2>20. PagesTypes'
    BY <1>2, <2>3, <2>18, <2>19 DEF PagesTypes
  <2>21. CacheOK(M2)'
    BY <1>2, <2>1, <2>9, <2>13, <2>15, <2>19 DEF CacheOK
  <2>22. IssuedOK(M2)'
    <3>1. \A c \in issued : c.revision \in Revisions
      BY <2>3 DEF PagesTypes, Cursors
    <3> QED BY <1>2, <2>8, <2>18, <3>1 DEF IssuedOK
  <2>23. PagesInvOf(M2)'
    BY <2>18, <2>21, <2>22 DEF PagesInvOf
  <2> QED BY <2>18, <2>20, <2>23 DEF PagesInv
<1> QED BY <1>4, <1>5, <1>6 DEF Store
\* A load with another boundary is a load.
LEMMA BoundarySet ==
  ASSUME NEW p \in Loads, NEW b \in Nat \cup {None}
  PROVE  [p EXCEPT !.boundary = b] \in Loads
BY DEF Loads

\* A load with other metadata and another order is a load.
LEMMA OrderSet ==
  ASSUME NEW p \in Loads, NEW m \in Metadata, NEW o \in Orders \cup {None}
  PROVE  [p EXCEPT !.meta = m, !.order = o] \in Loads
BY DEF Loads

\* A load read in the other direction is a load.
LEMMA ReverseSet ==
  ASSUME NEW p \in Loads, NEW b \in BOOLEAN
  PROVE  [p EXCEPT !.reverse = b] \in Loads
BY DEF Loads

\* A load with its answer is a load.
LEMMA ShownSet ==
  ASSUME NEW p \in Loads, NEW rows \in Seq(Rows), NEW m \in Metadata, NEW n \in Nat
  PROVE  [p EXCEPT !.rows = rows, !.meta = m, !.since = n] \in Loads
BY DEF Loads

\* The order of a load is one of the orders, or none.
LEMMA OrderTyped ==
  ASSUME NEW key \in {"a", "b", "none"}, NEW sort \in Sorts
  PROVE  OrderFor(key, sort) \in Orders \cup {None}
<1>1. [key |-> "a", asc |-> FALSE] \in Orders /\ \A k \in {"a", "b"} : [key |-> k, asc |-> TRUE] \in Orders
  BY DEF Orders
<1> QED BY <1>1 DEF OrderFor

\* A page read by offset is the page that counting gives.
LEMMA ShownByOffset ==
  ASSUME NEW p, p.boundary = None, p.reverse = FALSE
  PROVE  Shown(p) = Counted(p.order, p.page)
BY DEF Shown, Answer, Counted

\* A page read from a cursor is the page that counting gives.
LEMMA ShownByCursor ==
  ASSUME NEW p \in Loads, NEW o \in Orders, p.order = o, NEW c \in Cursors, p.boundary = c.value,
         NEW v \in Rows, c.value = v[o.key], StandsFor(v, o, c.page, c.direction), c.page = p.page,
         p.reverse = (c.direction = "previous")
  PROVE  Shown(p) = Counted(o, p.page)
<1>1. PICK g \in Nat \ {0} : g = p.page
  BY DEF Loads
<1>2. p.boundary = v[o.key]
  OBVIOUS
<1>3. c.direction \in {"next", "previous"}
  BY DEF Cursors
<1>4. CASE c.direction = "next"
  <2>1. StandsFor(v, o, g, "next") /\ p.reverse = FALSE
    BY <1>1, <1>4
  <2> QED BY <1>1, <1>2, <2>1, ShownForward
<1>5. CASE c.direction = "previous"
  <2>1. StandsFor(v, o, g, "previous") /\ p.reverse = TRUE
    BY <1>1, <1>5
  <2> QED BY <1>1, <1>2, <2>1, ShownBackward
<1> QED BY <1>3, <1>4, <1>5

\* Plan: a cursor that is used belongs to the order and the metadata of the load.
LEMMA PlanKeeps ==
  ASSUME PagesInv, NEW l \in Loaders, Plan(l)
  PROVE  PagesInv'
<1>0. /\ load[l] \in Loads /\ acked \in Nat /\ generation \in Nat /\ loads \in Nat
      /\ load[l].since <= acked /\ load[l].gen <= generation
      /\ load[l].nav \in issued \cup {None}
  BY OneLoad
<1>1. PICK p0 \in Loads : p0 = load[l]
  BY <1>0
<1>2. PICK M0 \in [Revisions -> {"a", "b", "none"}] : PagesInvOf(M0)
  BY DEF PagesInv
<1>3. LoadOK(p0, M0, acked, generation, loads, issued) /\ p0.at = "plan"
      /\ Known(p0.meta.revision, load, loads)
  BY <1>1, <1>2 DEF PagesInvOf, LoadsOK, Plan, Loading, Late
<1>4. PICK m \in Metadata : m = p0.meta
  BY <1>3 DEF LoadOK, Late
<1>5. PICK sort \in Sorts : sort = p0.sort
  BY DEF Loads
<1>6. PICK order \in Orders \cup {None} :
         order = SortOf(m, sort) /\ (order # None => order = OrderFor(m.key, sort))
  <2>1. m.key \in {"a", "b", "none"}
    BY DEF Metadata
  <2>2. SortOf(m, sort) = None \/ SortOf(m, sort) = OrderFor(m.key, sort)
    BY DEF SortOf, OrderFor
  <2> QED BY <2>1, <2>2, OrderTyped
<1>7. PICK nav \in Cursors \cup {None} : nav = p0.nav
  BY DEF Loads
<1>8. PICK use \in BOOLEAN :
         /\ use => order # None /\ nav # None /\ ValidCursor(nav, l)
         /\ Go(l, [NoLoad EXCEPT !.at = "query", !.page = p0.page, !.sort = sort,
                    !.since = p0.since, !.meta = m, !.order = order,
                    !.boundary = IF use THEN nav.value ELSE None,
                    !.reverse = (use /\ nav.direction = "previous")])
  <2>1. PICK keyset \in BOOLEAN : keyset = (order # None /\ nav # None /\ ValidCursor(nav, l))
    OBVIOUS
  <2>2. \E use \in {keyset, FALSE} :
          Go(l, [NoLoad EXCEPT !.at = "query", !.page = p0.page, !.sort = sort,
                    !.since = p0.since, !.meta = m, !.order = order,
                    !.boundary = IF use THEN nav.value ELSE None,
                    !.reverse = (use /\ nav.direction = "previous")])
    BY <1>1, <1>4, <1>5, <1>6, <1>7, <2>1 DEF Plan
  <2> QED BY <2>1, <2>2
<1>9. PICK boundary \in Nat \cup {None} : boundary = IF use THEN nav.value ELSE None
  BY <1>8 DEF Cursors
<1>10. PICK reverse \in BOOLEAN : reverse = (use /\ nav.direction = "previous")
  OBVIOUS
<1>11. PICK p \in Loads : p = [NoLoad EXCEPT !.at = "query", !.page = p0.page, !.sort = sort,
                    !.since = p0.since, !.meta = m, !.order = order,
                    !.boundary = boundary, !.reverse = reverse]
  <2>1. p0.page \in Nat \ {0} /\ p0.since \in Nat
    BY DEF Loads
  <2>2. PICK x \in Loads : x = NoLoad
    BY NoLoadType
  <2>3. PICK y \in Loads : y = [x EXCEPT !.at = "query", !.page = p0.page, !.sort = sort, !.since = p0.since]
    BY <2>1 DEF Loads, Late
  <2>4. PICK z \in Loads : z = [y EXCEPT !.meta = m, !.order = order]
    BY OrderSet
  <2>5. PICK w \in Loads : w = [z EXCEPT !.boundary = boundary]
    BY BoundarySet
  <2>6. PICK p \in Loads : p = [w EXCEPT !.reverse = reverse]
    BY ReverseSet
  <2>7. p = [x EXCEPT !.at = "query", !.page = p0.page, !.sort = sort, !.since = p0.since,
                      !.meta = m, !.order = order, !.boundary = boundary, !.reverse = reverse]
    BY <2>3, <2>4, <2>5, <2>6 DEF Loads
  <2> QED BY <2>2, <2>7
<1>12. /\ p.at = "query" /\ p.page = p0.page /\ p.sort = sort /\ p.since = p0.since /\ p.meta = m
       /\ p.order = order /\ p.boundary = boundary /\ p.reverse = reverse
       /\ p.nav = None /\ p.gen = 0
  BY <1>11 DEF NoLoad
<1>13. load' = [load EXCEPT ![l] = p]
  BY <1>8, <1>9, <1>10, <1>11 DEF Go
<1>14. ASSUME order # None PROVE Shown(p) = Counted(order, p.page)
  <2>1. PICK o \in Orders : o = order
    BY <1>14
  <2>2. CASE ~use
    BY <1>9, <1>10, <1>12, <2>2, ShownByOffset
  <2>3. CASE use
    <3>1. nav \in issued /\ nav \in Cursors
      BY <1>0, <1>1, <1>7, <1>8, <2>3
    <3>2. nav.page = p0.page /\ nav.sort = sort /\ nav.revision = m.revision
      BY <1>1, <1>4, <1>5, <1>8, <2>3 DEF ValidCursor
    <3>3. TrueCursor(nav, M0[nav.revision])
      BY <1>2, <3>1 DEF PagesInvOf, IssuedOK
    <3>4. M0[nav.revision] = m.key
      BY <1>3, <1>4, <3>2 DEF LoadOK, Late
    <3>5. OrderFor(m.key, nav.sort) = o
      BY <1>6, <1>14, <2>1, <3>2
    <3>6. PICK v \in Rows : nav.value = v[o.key] /\ StandsFor(v, o, nav.page, nav.direction)
      BY <3>3, <3>4, <3>5 DEF TrueCursor
    <3>7. p.boundary = nav.value /\ p.reverse = (nav.direction = "previous") /\ nav.page = p.page /\ p.order = o
      BY <1>9, <1>10, <1>12, <2>1, <2>3, <3>2
    <3>8. Shown(p) = Counted(o, p.page)
      BY <3>1, <3>6, <3>7, ShownByCursor
    <3> QED BY <2>1, <3>8
  <2> QED BY <2>2, <2>3
<1>15. ASSUME NEW M \in [Revisions -> {"a", "b", "none"}], PagesInvOf(M)
       PROVE  LoadOK(p, M, acked, generation, loads', issued)
  <2>1. LoadOK(p0, M, acked, generation, loads, issued)
    BY <1>1, <1>15 DEF PagesInvOf, LoadsOK
  <2> QED BY <1>0, <1>1, <1>3, <1>4, <1>6, <1>12, <1>14, <2>1 DEF LoadOK, Late, Early
<1>16. p.at \notin Early /\ Known(p.meta.revision, load, loads)
  BY <1>3, <1>4, <1>12 DEF Early
<1>17. UNCHANGED <<version, cacheVars, issued, ddl, acked>> /\ loads' \in Nat /\ loads <= loads'
  BY <1>0 DEF Plan
<1> QED BY <1>13, <1>15, <1>16, <1>17, QuietStep
\* The rows at the ends of a page stand for its neighbours.
LEMMA CountedPage ==
  ASSUME NEW o \in Orders, NEW page \in Nat \ {0}
  PROVE  /\ Counted(o, page) \in Seq(Rows)
         /\ \A i \in 1 .. Len(Counted(o, page)) :
               /\ Counted(o, page)[i] \in Rows
               /\ Rank(Counted(o, page)[i], Rows, o) = (page - 1) * PageSize + i - 1
<1>1. PICK N \in Nat : N = Cardinality(Rows)
  BY Ranks
<1>2. PICK s \in Seq(Rows) : s = InOrder(Rows, o) /\ Len(s) = N
  BY <1>1, Ranks
<1>3. PICK k \in Nat \ {0} : k = PageSize
  BY PagesConstants
<1>4. PICK from \in Nat : from = (page - 1) * k
  <2>1. page - 1 \in Nat
    OBVIOUS
  <2> QED BY <2>1
<1>5. PICK n \in Nat : n = PageLength(N, from) /\ Len(Page(s, from)) = n
  BY <1>2, PageIs
<1>6. Counted(o, page) = Page(s, from) /\ Page(s, from) \in Seq(Rows)
  BY <1>2, <1>3, <1>4, PageIs DEF Counted
<1>7. n = 0 \/ from + n <= N
  <2>1. CASE from + k <= N
    BY <1>3, <1>5, <2>1 DEF PageLength
  <2>2. CASE ~(from + k <= N) /\ from < N
    <3>1. n = N - from
      BY <1>3, <1>5, <2>2 DEF PageLength
    <3> QED BY <3>1
  <2>3. CASE ~(from + k <= N) /\ ~(from < N)
    BY <1>3, <1>5, <2>3 DEF PageLength
  <2> QED BY <2>1, <2>2, <2>3
<1>8. ASSUME NEW i \in 1 .. n
      PROVE  Page(s, from)[i] \in Rows /\ Rank(Page(s, from)[i], Rows, o) = from + i - 1
  <2>1. Page(s, from)[i] = s[from + i]
    <3>1. i \in 1 .. PageLength(Len(s), from)
      BY <1>2, <1>5
    <3> QED BY <3>1, PageRow
  <2>2. PICK j \in 1 .. N : j = from + i
    <3>1. from + i \in 1 .. N
      BY <1>7
    <3> QED BY <3>1
  <2>3. InOrder(Rows, o)[j] \in Rows /\ Rank(InOrder(Rows, o)[j], Rows, o) = j - 1
    BY <1>1, Ranks
  <2> QED BY <1>2, <2>1, <2>2, <2>3
<1> QED BY <1>3, <1>4, <1>5, <1>6, <1>8

\* The cursors of a page are true.
LEMMA CursorsTrue ==
  ASSUME NEW p \in Loads, NEW o \in Orders, p.order = o, p.meta \in Metadata,
         OrderFor(p.meta.key, p.sort) = o, NEW rows \in Seq(Rows), rows = Counted(o, p.page), rows # <<>>
  PROVE  /\ Len(rows) = PageSize =>
               /\ Cursor(p, rows[Len(rows)], p.page + 1, "next") \in Cursors
               /\ TrueCursor(Cursor(p, rows[Len(rows)], p.page + 1, "next"), p.meta.key)
         /\ p.page > 1 =>
               /\ Cursor(p, rows[1], p.page - 1, "previous") \in Cursors
               /\ TrueCursor(Cursor(p, rows[1], p.page - 1, "previous"), p.meta.key)
<1>1. PICK g \in Nat \ {0} : g = p.page
  BY DEF Loads
<1>2. PICK k \in Nat \ {0} : k = PageSize
  BY PagesConstants
<1>3. PICK n \in Nat \ {0} : n = Len(rows)
  BY EmptySeq
<1>4. \A i \in 1 .. n : rows[i] \in Rows /\ Rank(rows[i], Rows, o) = (g - 1) * k + i - 1
  BY <1>1, <1>2, <1>3, CountedPage
<1>5. p.sort \in Sorts /\ p.meta.revision \in Nat \X BOOLEAN /\ o.key \in {"a", "b"}
  BY DEF Loads, Metadata, Orders
<1>6. \A v \in Rows : v[o.key] \in Nat
  BY <1>5, PagesConstants
<1>7. ASSUME NEW v \in Rows, NEW h \in Nat \ {0}, NEW d \in {"next", "previous"}, StandsFor(v, o, h, d)
      PROVE  Cursor(p, v, h, d) \in Cursors /\ TrueCursor(Cursor(p, v, h, d), p.meta.key)
  <2>1. PICK c : c = Cursor(p, v, h, d)
    OBVIOUS
  <2>2. /\ c = [sort |-> p.sort, revision |-> p.meta.revision, page |-> h, direction |-> d, value |-> v[o.key]]
    BY <2>1 DEF Cursor
  <2>3. c \in Cursors
    BY <1>5, <1>6, <2>2 DEF Cursors
  <2>4. c.sort = p.sort /\ c.page = h /\ c.direction = d /\ c.value = v[o.key]
    BY <2>2
  <2>5. TrueCursor(c, p.meta.key)
    BY <1>7, <2>4 DEF TrueCursor
  <2> QED BY <2>1, <2>3, <2>5
<1>8. ASSUME n = k PROVE /\ Cursor(p, rows[n], g + 1, "next") \in Cursors
                         /\ TrueCursor(Cursor(p, rows[n], g + 1, "next"), p.meta.key)
  <2>1. n \in 1 .. n /\ g + 1 \in Nat \ {0}
    OBVIOUS
  <2>2. (g - 1) * k + k - 1 + 1 = (g + 1 - 1) * k
    OBVIOUS
  <2>3. StandsFor(rows[n], o, g + 1, "next")
    BY <1>2, <1>4, <1>8, <2>1, <2>2 DEF StandsFor
  <2> QED BY <1>4, <1>7, <2>1, <2>3
<1>9. ASSUME g > 1 PROVE /\ Cursor(p, rows[1], g - 1, "previous") \in Cursors
                         /\ TrueCursor(Cursor(p, rows[1], g - 1, "previous"), p.meta.key)
  <2>1. 1 \in 1 .. n /\ g - 1 \in Nat \ {0}
    BY <1>9
  <2>2. PICK z \in Int : z = (g - 1) * k
    BY <2>1
  <2>3. z + 1 - 1 = z
    OBVIOUS
  <2>4. Rank(rows[1], Rows, o) = (g - 1) * PageSize
    BY <1>2, <1>4, <2>1, <2>2, <2>3
  <2>5. StandsFor(rows[1], o, g - 1, "previous")
    BY <2>4 DEF StandsFor
  <2> QED BY <1>4, <1>7, <2>1, <2>5
<1> QED BY <1>1, <1>2, <1>3, <1>8, <1>9

\* Remembering a cursor keeps the limit.
LEMMA RememberedTyped ==
  ASSUME NEW cs \in Seq(Cursors), Len(cs) <= MaxCursors, NEW new \in Seq(Cursors)
  PROVE  Remembered(cs, new) \in Seq(Cursors) /\ Len(Remembered(cs, new)) <= MaxCursors
<1>1. CASE new = <<>>
  BY <1>1 DEF Remembered
<1>2. CASE new # <<>>
  <2>1. new[1] \in Cursors
    <3>1. 1 \in 1 .. Len(new)
      BY <1>2, EmptySeq
    <3> QED BY <3>1, ElementOfSeq
  <2>2. PICK z \in Nat \ {0} : z = MaxCursors
    BY PagesConstants
  <2>3. PICK n \in Nat : n = Len(cs)
    BY LenProperties
  <2>4. PICK c \in Cursors : c = new[1]
    BY <2>1
  <2>5. PICK x \in Seq(Cursors) : x = (IF Len(cs) >= MaxCursors THEN Tail(cs) ELSE cs) /\ Len(x) < z
    <3>1. CASE n >= z
      <4>1. cs # <<>>
        BY <2>2, <2>3, <3>1, EmptySeq
      <4>2. Tail(cs) \in Seq(Cursors) /\ Len(Tail(cs)) = n - 1
        BY <2>3, <4>1, HeadTailProperties
      <4>3. Len(Tail(cs)) < z
        BY <2>2, <2>3, <4>2
      <4> QED BY <2>2, <2>3, <3>1, <4>2, <4>3
    <3>2. CASE ~(n >= z)
      BY <2>2, <2>3, <3>2
    <3> QED BY <3>1, <3>2
  <2>6. Append(x, c) \in Seq(Cursors) /\ Len(Append(x, c)) = Len(x) + 1
    BY AppendProperties
  <2>7. Remembered(cs, new) = Append(x, c)
    BY <1>2, <2>4, <2>5 DEF Remembered, WithCursor
  <2>8. Len(x) \in Nat
    BY LenProperties
  <2> QED BY <2>2, <2>5, <2>6, <2>7, <2>8
<1> QED BY <1>1, <1>2
\* A page hands out a cursor or none.
LEMMA OneOrNone ==
  ASSUME NEW b \in BOOLEAN, NEW c, b => c \in Cursors
  PROVE  /\ (IF b THEN <<c>> ELSE <<>>) \in Seq(Cursors)
         /\ \A x \in Range(IF b THEN <<c>> ELSE <<>>) : b /\ x = c
<1>1. CASE b
  <2>1. <<c>> \in Seq(Cursors)
    BY <1>1
  <2>2. \A x \in Range(<<c>>) : x = c
    <3>1. DOMAIN <<c>> = {1} /\ <<c>>[1] = c
      OBVIOUS
    <3> QED BY <3>1 DEF Range
  <2> QED BY <1>1, <2>1, <2>2
<1>2. CASE ~b
  <2>1. <<>> \in Seq(Cursors) /\ DOMAIN <<>> = {}
    BY EmptySeq
  <2> QED BY <1>2, <2>1 DEF Range
<1> QED BY <1>1, <1>2

\* Finish: the page is the one that counting gives, and its cursors are true.
LEMMA FinishKeeps ==
  ASSUME PagesInv, NEW l \in Loaders, Finish(l)
  PROVE  PagesInv'
<1>0. /\ load[l] \in Loads /\ acked \in Nat /\ generation \in Nat /\ loads \in Nat
      /\ load[l].since <= acked
  BY OneLoad
<1>1. PICK p \in Loads : p = load[l]
  BY <1>0
<1>2. PICK M \in [Revisions -> {"a", "b", "none"}] : PagesInvOf(M)
  BY DEF PagesInv
<1>3. LoadOK(p, M, acked, generation, loads, issued) /\ p.at = "query"
      /\ Known(p.meta.revision, load, loads)
  BY <1>1, <1>2 DEF PagesInvOf, LoadsOK, Finish, Loading, Late
<1>4. PICK m \in Metadata : m = p.meta /\ m.key = M[m.revision] /\ m.version >= p.since
  BY <1>3 DEF LoadOK, Late
<1>5. p.order # None =>
         /\ p.order \in Orders /\ p.order = OrderFor(m.key, p.sort) /\ Shown(p) = Counted(p.order, p.page)
  BY <1>3, <1>4 DEF LoadOK, Loads
<1>6. PICK rows \in Seq(Rows) :
         /\ rows = (IF p.order = None THEN <<>> ELSE Shown(p))
         /\ p.order # None => rows = Counted(p.order, p.page)
  <2>1. CASE p.order = None
    BY <2>1, EmptySeq
  <2>2. CASE p.order # None
    <3>1. PICK o \in Orders : o = p.order
      BY <1>5, <2>2
    <3>2. PICK g \in Nat \ {0} : g = p.page
      BY DEF Loads
    <3>3. Counted(o, g) \in Seq(Rows)
      BY CountedPage
    <3> QED BY <1>5, <2>2, <3>1, <3>2, <3>3
  <2> QED BY <2>1, <2>2
<1>7. PICK usable \in BOOLEAN : usable = (p.order # None /\ IsCached(p.meta))
  OBVIOUS
<1>8. PICK more \in BOOLEAN : more = (usable /\ Len(rows) = PageSize)
  OBVIOUS
<1>9. PICK less \in BOOLEAN : less = (usable /\ p.page > 1 /\ rows # <<>>)
  OBVIOUS
<1>10. PICK c : c = Cursor(p, rows[Len(rows)], p.page + 1, "next")
  OBVIOUS
<1>11. PICK d : d = Cursor(p, rows[1], p.page - 1, "previous")
  OBVIOUS
<1>12. ASSUME usable, rows # <<>>
       PROVE  /\ Len(rows) = PageSize => c \in Cursors /\ TrueCursor(c, m.key)
              /\ p.page > 1 => d \in Cursors /\ TrueCursor(d, m.key)
  <2>1. PICK o \in Orders : o = p.order
    BY <1>5, <1>7, <1>12
  <2>2. p.meta \in Metadata /\ OrderFor(p.meta.key, p.sort) = o /\ rows = Counted(o, p.page) /\ p.order = o
    BY <1>4, <1>5, <1>6, <1>7, <1>12, <2>1
  <2>3. /\ Len(rows) = PageSize =>
               /\ Cursor(p, rows[Len(rows)], p.page + 1, "next") \in Cursors
               /\ TrueCursor(Cursor(p, rows[Len(rows)], p.page + 1, "next"), p.meta.key)
        /\ p.page > 1 =>
               /\ Cursor(p, rows[1], p.page - 1, "previous") \in Cursors
               /\ TrueCursor(Cursor(p, rows[1], p.page - 1, "previous"), p.meta.key)
    BY <1>12, <2>2, CursorsTrue
  <2>4. ASSUME Len(rows) = PageSize PROVE c \in Cursors /\ TrueCursor(c, m.key)
    <3>1. /\ Cursor(p, rows[Len(rows)], p.page + 1, "next") \in Cursors
          /\ TrueCursor(Cursor(p, rows[Len(rows)], p.page + 1, "next"), p.meta.key)
      BY <2>3, <2>4
    <3>2. c \in Cursors /\ TrueCursor(c, p.meta.key)
      BY <1>10, <3>1
    <3>3. p.meta = m
      BY <1>4
    <3> QED BY <3>2, <3>3
  <2>5. ASSUME p.page > 1 PROVE d \in Cursors /\ TrueCursor(d, m.key)
    <3>1. /\ Cursor(p, rows[1], p.page - 1, "previous") \in Cursors
          /\ TrueCursor(Cursor(p, rows[1], p.page - 1, "previous"), p.meta.key)
      BY <2>3, <2>5
    <3>2. d \in Cursors /\ TrueCursor(d, p.meta.key)
      BY <1>11, <3>1
    <3>3. p.meta = m
      BY <1>4
    <3> QED BY <3>2, <3>3
  <2> QED BY <2>4, <2>5
<1>13. c.revision = m.revision /\ d.revision = m.revision
  BY <1>4, <1>10, <1>11 DEF Cursor
<1>14. (more => c \in Cursors /\ TrueCursor(c, m.key)) /\ (less => d \in Cursors /\ TrueCursor(d, m.key))
  <2>1. Len(rows) = PageSize => rows # <<>>
    BY PagesConstants, EmptySeq
  <2> QED BY <1>8, <1>9, <1>12, <2>1
<1>15. PICK next \in Seq(Cursors) :
          /\ next = IF usable /\ Len(rows) = PageSize
                    THEN <<Cursor(p, rows[Len(rows)], p.page + 1, "next")>> ELSE <<>>
          /\ \A x \in Range(next) : more /\ x = c
  <2>1. /\ (IF more THEN <<c>> ELSE <<>>) \in Seq(Cursors)
        /\ \A x \in Range(IF more THEN <<c>> ELSE <<>>) : more /\ x = c
    BY <1>14, OneOrNone
  <2> QED BY <1>8, <1>10, <2>1
<1>16. PICK previous \in Seq(Cursors) :
          /\ previous = IF usable /\ p.page > 1 /\ rows # <<>>
                        THEN <<Cursor(p, rows[1], p.page - 1, "previous")>> ELSE <<>>
          /\ \A x \in Range(previous) : less /\ x = d
  <2>1. /\ (IF less THEN <<d>> ELSE <<>>) \in Seq(Cursors)
        /\ \A x \in Range(IF less THEN <<d>> ELSE <<>>) : less /\ x = d
    BY <1>14, OneOrNone
  <2> QED BY <1>9, <1>11, <2>1
<1>17. PICK p2 \in Loads : p2 = [NoLoad EXCEPT !.at = "done", !.page = p.page, !.order = p.order,
                                    !.rows = rows, !.meta = p.meta, !.since = p.since]
  <2>1. p.page \in Nat \ {0} /\ p.since \in Nat /\ p.order \in Orders \cup {None}
    BY DEF Loads
  <2>2. PICK x \in Loads : x = NoLoad
    BY NoLoadType
  <2>3. PICK y \in Loads : y = [x EXCEPT !.at = "done", !.page = p.page, !.order = p.order]
    BY <2>1 DEF Loads, Late
  <2>4. PICK z \in Loads : z = [y EXCEPT !.rows = rows, !.meta = p.meta, !.since = p.since]
    BY <1>4, <2>1, ShownSet
  <2>5. z = [x EXCEPT !.at = "done", !.page = p.page, !.order = p.order,
                      !.rows = rows, !.meta = p.meta, !.since = p.since]
    BY <2>3, <2>4 DEF Loads
  <2> QED BY <2>2, <2>5
<1>18. /\ p2.at = "done" /\ p2.page = p.page /\ p2.order = p.order /\ p2.rows = rows
       /\ p2.meta = m /\ p2.since = p.since /\ p2.nav = None /\ p2.gen = 0
  BY <1>4, <1>17 DEF NoLoad
<1>19. /\ load' = [load EXCEPT ![l] = p2]
       /\ cursors' = Remembered(Remembered(cursors, next), previous)
       /\ issued' = issued \cup Range(next) \cup Range(previous)
       /\ UNCHANGED <<version, cached, generation, disconnected, loads, ddl, acked>>
  BY <1>1, <1>6, <1>7, <1>15, <1>16, <1>17 DEF Finish, Go
<1>20. PagesTypes /\ NumbersDiffer /\ CacheOK(M) /\ IssuedOK(M) /\ LoadsOK(M)
  BY <1>2 DEF PagesInv, PagesInvOf
<1>21. LoadOK(p2, M, acked, generation, loads', issued')
  BY <1>0, <1>1, <1>4, <1>6, <1>18 DEF LoadOK, Early, Late
<1>22. p2.at \notin Early /\ Known(p2.meta.revision, load, loads) /\ loads' \in Nat /\ loads <= loads'
       /\ generation' = generation /\ acked' = acked /\ issued \subseteq issued'
  BY <1>0, <1>3, <1>4, <1>18, <1>19 DEF Early
<1>23. /\ NumbersDiffer' /\ LoadsOK(M)' /\ load' \in [Loaders -> Loads]
       /\ \A rev \in Revisions : Known(rev, load, loads) => Known(rev, load', loads')
  BY <1>19, <1>20, <1>21, <1>22, LoadStep
<1>24. \A x \in Range(next) \cup Range(previous) :
          x \in Cursors /\ TrueCursor(x, M[x.revision]) /\ Known(x.revision, load, loads)
  BY <1>3, <1>4, <1>13, <1>14, <1>15, <1>16
<1>25. PagesTypes'
  <2>1. PICK cs \in Seq(Cursors) : cs = cursors /\ Len(cs) <= MaxCursors
    BY <1>20 DEF PagesTypes
  <2>2. PICK cs2 \in Seq(Cursors) : cs2 = Remembered(cs, next) /\ Len(cs2) <= MaxCursors
    BY <2>1, RememberedTyped
  <2>3. Remembered(cs2, previous) \in Seq(Cursors) /\ Len(Remembered(cs2, previous)) <= MaxCursors
    BY <2>2, RememberedTyped
  <2>4. cursors' = Remembered(cs2, previous)
    BY <1>19, <2>1, <2>2
  <2>5. issued' \in SUBSET Cursors
    BY <1>19, <1>20, <1>24 DEF PagesTypes
  <2> QED BY <1>19, <1>20, <1>23, <2>3, <2>4, <2>5 DEF PagesTypes
<1>26. CacheOK(M)'
  <2>1. cached # None => cached.revision \in Revisions
    BY <1>20 DEF PagesTypes, Metadata
  <2> QED BY <1>19, <1>20, <1>23, <2>1 DEF CacheOK
<1>27. IssuedOK(M)'
  <2>1. \A x \in issued' : x \in Cursors /\ TrueCursor(x, M[x.revision]) /\ Known(x.revision, load, loads)
    BY <1>19, <1>20, <1>24 DEF IssuedOK, PagesTypes
  <2>2. \A x \in Cursors : x.revision \in Revisions
    BY DEF Cursors
  <2> QED BY <1>23, <2>1, <2>2 DEF IssuedOK
<1>28. PagesInvOf(M)'
  BY <1>23, <1>26, <1>27 DEF PagesInvOf
<1> QED BY <1>23, <1>25, <1>28 DEF PagesInv

\* Expire, CloseConnection and the DDL commands: an answer to a DDL command
\* comes with a new generation.
LEMMA OtherKeeps ==
  ASSUME PagesInv, Expire \/ CloseConnection \/ StartDdl \/ ApplyDdl \/ FinishDdl \/ OtherDdl
  PROVE  PagesInv'
<1>1. PICK M \in [Revisions -> {"a", "b", "none"}] : PagesInvOf(M)
  BY DEF PagesInv
<1>2. PagesTypes /\ NumbersDiffer /\ CacheOK(M) /\ IssuedOK(M) /\ LoadsOK(M)
  BY <1>1 DEF PagesInv, PagesInvOf
<1>3. acked \in Nat /\ generation \in Nat /\ version \in Nat /\ acked <= version /\ ddl.made \in 0 .. version
      /\ ddl.at \in {"none", "sent", "applied"}
  BY <1>2 DEF PagesTypes
<1>4. /\ load' = load /\ loads' = loads /\ issued' = issued
      /\ cached' = None \/ (cached' = cached /\ disconnected' = disconnected /\ acked' = acked)
      /\ cursors' = cursors \/ cursors' = <<>>
      /\ disconnected' \in BOOLEAN
  BY <1>2 DEF Expire, CloseConnection, StartDdl, ApplyDdl, FinishDdl, OtherDdl, Invalidate, cacheVars, PagesTypes
<1>5. /\ generation' \in Nat /\ acked' \in Nat /\ generation <= generation' /\ acked <= acked'
      /\ generation' = generation => acked' = acked
  BY <1>3 DEF Expire, CloseConnection, StartDdl, ApplyDdl, FinishDdl, OtherDdl, Invalidate, cacheVars
<1>6. /\ version' \in 0 .. MaxVersion /\ acked' \in 0 .. version'
      /\ ddl' \in [at : {"none", "sent", "applied"}, made : 0 .. version']
  <2>1. version \in 0 .. MaxVersion /\ MaxVersion \in Nat /\ ddl = [at |-> ddl.at, made |-> ddl.made]
    BY <1>2, PagesConstants DEF PagesTypes
  <2>2. CASE Expire \/ CloseConnection
    BY <1>2, <2>2 DEF Expire, CloseConnection, Invalidate, PagesTypes
  <2>3. CASE StartDdl
    <3>1. ddl' = [at |-> "sent", made |-> 0]
      BY <2>3 DEF StartDdl, NoDdl
    <3> QED BY <1>3, <2>1, <2>3, <3>1 DEF StartDdl
  <2>4. CASE ApplyDdl
    <3>1. CASE version' = version + 1 /\ version < MaxVersion /\ ddl' = [at |-> "applied", made |-> version + 1]
      BY <1>3, <2>1, <2>4, <3>1 DEF ApplyDdl
    <3>2. CASE version' = version /\ ddl' = NoDdl
      BY <1>3, <2>1, <2>4, <3>2 DEF ApplyDdl, NoDdl
    <3> QED BY <2>4, <3>1, <3>2 DEF ApplyDdl
  <2>5. CASE FinishDdl
    BY <1>3, <2>1, <2>5 DEF FinishDdl, NoDdl
  <2>6. CASE OtherDdl
    <3>1. ddl' = ddl /\ version' = version + 1 /\ acked' = acked /\ version < MaxVersion
      BY <2>6 DEF OtherDdl
    <3>2. ddl.made \in 0 .. version'
      BY <1>3, <3>1
    <3> QED BY <1>3, <2>1, <3>1, <3>2
  <2> QED BY <2>2, <2>3, <2>4, <2>5, <2>6
<1>7. NumbersDiffer' /\ IssuedOK(M)' /\ LoadsOK(M)'
  BY <1>2, <1>4, <1>5, NoLoadStep
<1>8. CacheOK(M)'
  BY <1>2, <1>4 DEF CacheOK
<1>9. PagesTypes'
  <2>1. cursors' \in Seq(Cursors) /\ Len(cursors') <= MaxCursors
    <3>1. <<>> \in Seq(Cursors) /\ Len(<<>>) <= MaxCursors
      BY PagesConstants
    <3>2. cursors \in Seq(Cursors) /\ Len(cursors) <= MaxCursors
      BY <1>2 DEF PagesTypes
    <3> QED BY <1>4, <3>1, <3>2
  <2> QED BY <1>2, <1>4, <1>5, <1>6, <2>1 DEF PagesTypes
<1>10. PagesInvOf(M)'
  BY <1>7, <1>8 DEF PagesInvOf
<1> QED BY <1>7, <1>9, <1>10 DEF PagesInv

\* The invariant of the metadata cache and the pagination.
THEOREM PagesInvariance == PagesSpec => []PagesInv
<1>1. PagesInit => PagesInv
  <2> SUFFICES ASSUME PagesInit PROVE PagesInv
    OBVIOUS
  <2>1. PICK M \in [Revisions -> {"a", "b", "none"}] : M = [r \in Revisions |-> "none"]
    OBVIOUS
  <2>2. \A l \in Loaders : load[l] = NoLoad
    BY DEF PagesInit
  <2>3. PagesTypes
    <3>1. load \in [Loaders -> Loads]
      BY NoLoadType DEF PagesInit
    <3>2. ddl \in [at : {"none", "sent", "applied"}, made : 0 .. version]
      BY DEF PagesInit, NoDdl
    <3>3. cursors \in Seq(Cursors) /\ Len(cursors) <= MaxCursors
      BY EmptySeq, PagesConstants DEF PagesInit
    <3>4. version \in 0 .. MaxVersion /\ acked \in 0 .. version
      BY PagesConstants DEF PagesInit
    <3> QED BY <3>1, <3>2, <3>3, <3>4 DEF PagesInit, PagesTypes
  <2>4. NumbersDiffer
    BY <2>2 DEF NumbersDiffer, NoLoad, Early
  <2>5. CacheOK(M) /\ IssuedOK(M)
    BY DEF CacheOK, IssuedOK, PagesInit
  <2>6. LoadsOK(M)
    BY <2>2 DEF LoadsOK, LoadOK, NoLoad, Early, Late, PagesInit
  <2>7. PagesInvOf(M)
    BY <2>5, <2>6 DEF PagesInvOf
  <2> QED BY <2>3, <2>4, <2>7 DEF PagesInv
<1>2. PagesInv /\ [PagesNext]_pagesVars => PagesInv'
  <2> SUFFICES ASSUME PagesInv, [PagesNext]_pagesVars PROVE PagesInv'
    OBVIOUS
  <2>1. ASSUME NEW l \in Loaders, NEW page \in 1 .. MaxPage, NEW sort \in Sorts,
               NEW nav \in issued \cup {None}, Begin(l, page, sort, nav)
        PROVE  PagesInv'
    BY <2>1, BeginKeeps
  <2>2. ASSUME NEW l \in Loaders, Lookup(l) \/ ReadColumns(l) \/ ReadIndex(l) \/ Store(l)
        PROVE  PagesInv'
    BY <2>2, LookupKeeps, ColumnsKeep, IndexKeeps, StoreKeeps
  <2>3. ASSUME NEW l \in Loaders, Plan(l) \/ Finish(l) PROVE PagesInv'
    BY <2>3, PlanKeeps, FinishKeeps
  <2>4. CASE Expire \/ CloseConnection \/ StartDdl \/ ApplyDdl \/ FinishDdl \/ OtherDdl
    BY <2>4, OtherKeeps
  <2>5. CASE UNCHANGED pagesVars
    BY <2>5 DEF pagesVars, PagesInv, PagesTypes, NumbersDiffer, PagesInvOf, CacheOK, IssuedOK, LoadsOK
  <2> QED BY <2>1, <2>2, <2>3, <2>4, <2>5 DEF PagesNext
<1> QED BY <1>1, <1>2, PTL DEF PagesSpec

\* Page loads with cursors show what counting from the start would show, with
\* metadata no older than the DDL commands answered before they began, and a
\* closed connection leaves nothing in the cache.
THEOREM PagesAreTrue == PagesSpec => []PagesTrue
<1>1. PagesInv => PagesTrue
  <2> SUFFICES ASSUME PagesInv PROVE PagesTrue
    OBVIOUS
  <2>1. PICK M \in [Revisions -> {"a", "b", "none"}] : PagesInvOf(M)
    BY DEF PagesInv
  <2>2. PagesTypes /\ CacheOK(M) /\ LoadsOK(M)
    BY <2>1 DEF PagesInv, PagesInvOf
  <2>3. PagesTypeOK
    <3>1. version \in 0 .. MaxVersion /\ acked \in 0 .. MaxVersion
      BY <2>2, PagesConstants DEF PagesTypes
    <3>2. ddl \in [at : {"none", "sent", "applied"}, made : 0 .. MaxVersion]
      BY <2>2, <3>1, PagesConstants DEF PagesTypes
    <3>3. cached = None \/ cached.key \in {"a", "b", "none"}
      BY <2>2 DEF PagesTypes, Metadata
    <3>4. \A l \in Loaders : Loading(l) \in {"idle", "lookup", "columns", "index", "store", "recheck",
                                            "plan", "query", "done", "failed"}
      BY <2>2 DEF PagesTypes, Loads, Early, Late, Loading
    <3> QED BY <2>2, <3>1, <3>2, <3>3, <3>4 DEF PagesTypes, PagesTypeOK
  <2>4. MetadataFresh
    BY <2>2 DEF MetadataFresh, CacheOK, LoadsOK, LoadOK, Late, Loading
  <2>5. PagesAgree
    BY <2>2 DEF PagesAgree, LoadsOK, LoadOK, Loading, Counted
  <2>6. ClosedIsEmpty
    BY <2>2 DEF ClosedIsEmpty, CacheOK
  <2> QED BY <2>3, <2>4, <2>5, <2>6 DEF PagesTrue
<1> QED BY <1>1, PagesInvariance, PTL
===============================================================================
