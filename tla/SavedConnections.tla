-------------------------- MODULE SavedConnections --------------------------
(***************************************************************************)
(* The saved connections and their groups (commands/connection.rs): one    *)
(* encrypted file that every command loads, changes and writes back, the   *)
(* migration of the old plain file, export and import.  The commands run   *)
(* on the worker threads of the runtime and take no lock, so two of them   *)
(* interleave between loading, truncating and writing the file; the        *)
(* process may die while the file is written.                              *)
(***************************************************************************)
EXTENDS Naturals, Sequences, SequencesExt, FiniteSets

CONSTANTS
    Callers,      \* commands that run at a time
    Ids,          \* ids of connections and groups, drawn fresh
    Secrets,      \* passwords
    Redacted,     \* PASSWORD_REDACTED, what the list shows for a password
    None,
    MaxCommands   \* bound: commands in all

VARIABLES
    file,         \* [kind, store]: what is on disk
    work,         \* [Callers -> a running command: its request, how far it is,
                  \*   the store it holds, and what others wrote meanwhile]
    used,         \* ids drawn so far
    typed,        \* [Ids -> the password the user gave the connection last]
    kept,         \* the connections the user saved and did not delete
    exported,     \* the export file, or None
    commands,
    torn,         \* a write of the file was interrupted
    doubtful      \* the ids an overlapping command may have put back or left out

vars == <<file, work, used, typed, kept, exported, commands, torn, doubtful>>

\* Connections are [id, group, secret], in the order of display.
EmptyStore == [conns |-> <<>>, groups |-> <<>>]
Conn(id, group, secret) == [id |-> id, group |-> group, secret |-> secret]
IdsOf(s) == {s[i].id : i \in DOMAIN s}

\* The export file opens with the password it was encrypted with only; any
\* other password or a damaged file is an error that changes nothing.
Encrypt(store, password) == [store |-> store, password |-> password]
Opens(transfer, password) == transfer # None /\ transfer.password = password

Phases == {"idle", "called", "migrate", "again", "write", "cut", "unlinked"}
Idle == [phase |-> "idle", req |-> None, store |-> EmptyStore, missed |-> {}]

TypeOK ==
    /\ file.kind \in {"absent", "plain", "encrypted", "empty", "broken"}
    /\ \A c \in Callers : work[c].phase \in Phases /\ work[c].missed \subseteq Ids
    /\ used \in SUBSET Ids
    /\ typed \in [Ids -> Secrets \cup {None}]
    /\ kept \in SUBSET Ids
    /\ commands \in 0..MaxCommands
    /\ torn \in BOOLEAN
    /\ doubtful \in SUBSET Ids

\* A first start, a plain file of an old version, or the file of an earlier
\* start with two connections, a group and an export of one of them.
Init ==
    /\ \E ids \in {CHOOSE p \in Ids \X Ids \X Ids : Cardinality(Range(p)) = 3},
          secret \in {CHOOSE s \in Secrets : TRUE} :
          LET group == ids[3]
              one == [conns |-> <<Conn(ids[1], group, secret)>>, groups |-> <<group>>]
              two == [one EXCEPT !.conns = Append(@, Conn(ids[2], None, secret))]
          IN \E start \in {[kind |-> "absent", store |-> EmptyStore],
                           [kind |-> "plain", store |-> one],
                           [kind |-> "encrypted", store |-> two]} :
               /\ file = start
               /\ used = IdsOf(start.store.conns) \cup Range(start.store.groups)
               /\ kept = IdsOf(start.store.conns)
               /\ typed = [i \in Ids |-> IF i \in kept THEN secret ELSE None]
               /\ exported = IF start.kind = "encrypted" THEN Encrypt(one, secret) ELSE None
    /\ work = [c \in Callers |-> Idle]
    /\ commands = 0
    /\ torn = FALSE
    /\ doubtful = {}

-----------------------------------------------------------------------------
(* Changes of the store. *)

Update(conns, id, change(_)) ==
    [i \in DOMAIN conns |-> IF conns[i].id = id THEN change(conns[i]) ELSE conns[i]]

\* Faulty: what the list shows is saved as the password.
SaveAsShown(store, c) ==
    IF c.id \in IdsOf(store.conns)
    THEN [store EXCEPT !.conns = Update(@, c.id, LAMBDA old : c)]
    ELSE [store EXCEPT !.conns = Append(@, c)]

\* save_connection: the placeholder stands for the password there is; an
\* unknown connection is appended.
SaveInStore(store, c) ==
    IF c.id \in IdsOf(store.conns)
    THEN [store EXCEPT !.conns =
            Update(@, c.id, LAMBDA old : IF c.secret = Redacted
                                         THEN [c EXCEPT !.secret = old.secret] ELSE c)]
    ELSE [store EXCEPT !.conns = Append(@, c)]

\* create_group_in_storage puts the new group first.
CreateGroup(store, g) == [store EXCEPT !.groups = <<g>> \o @]

\* delete_group_from_storage: its connections belong to no group any more.
DeleteGroup(store, g) ==
    [conns |-> [i \in DOMAIN store.conns |->
                  IF store.conns[i].group = g
                  THEN [store.conns[i] EXCEPT !.group = None] ELSE store.conns[i]],
     groups |-> SelectSeq(store.groups, LAMBDA x : x # g)]

\* The listed elements in the order of the list, then the others.
Reordered(s, name(_), order) ==
    LET listed == SelectSeq(order, LAMBDA id : \E i \in DOMAIN s : name(s[i]) = id)
    IN [k \in DOMAIN listed |-> s[CHOOSE i \in DOMAIN s : name(s[i]) = listed[k]]]
       \o SelectSeq(s, LAMBDA e : name(e) \notin Range(order))

\* reorder_groups_in_storage; an empty list changes nothing.
ReorderGroups(store, order) ==
    [store EXCEPT !.groups = Reordered(@, LAMBDA g : g, order)]

\* reorder_connections.
ReorderConnections(store, order) ==
    [store EXCEPT !.conns = Reordered(@, LAMBDA c : c.id, order)]

\* move_connection_to_group_in_storage: the group must exist.
MoveConnection(store, id, g, order) ==
    ReorderConnections(
        [store EXCEPT !.conns = Update(@, id, LAMBDA c : [c EXCEPT !.group = g])], order)

\* delete_saved_connection.
DeleteConnection(store, id) ==
    [store EXCEPT !.conns = SelectSeq(@, LAMBDA c : c.id # id)]

\* import_connection_storage_json: everything gets a new id, groups of the
\* file are mapped to their new ids, a group the file lacks to none.
Import(store, from, fresh) ==
    LET newGroup(g) == IF g \in Range(from.groups) THEN fresh[g] ELSE None
    IN [groups |-> store.groups \o [i \in DOMAIN from.groups |-> fresh[from.groups[i]]],
        conns |-> store.conns \o
                    [i \in DOMAIN from.conns |->
                       Conn(fresh[from.conns[i].id], newGroup(from.conns[i].group),
                            from.conns[i].secret)]]

-----------------------------------------------------------------------------
(* What a command does to the store it loaded. *)

Changed(store, r) ==
    CASE r.do = "save"        -> SaveInStore(store, r.conn)
      [] r.do = "newGroup"    -> CreateGroup(store, r.group)
      [] r.do = "removeGroup" -> DeleteGroup(store, r.group)
      [] r.do = "setGroup"    -> store
      [] r.do = "orderGroups" -> ReorderGroups(store, r.order)
      [] r.do = "move"        -> MoveConnection(store, r.id, r.group, r.order)
      [] r.do = "forget"      -> DeleteConnection(store, r.id)
      [] r.do = "order"       -> ReorderConnections(store, r.order)
      [] r.do = "import"      -> Import(store, r.from, r.new)

\* The group or the connection the command names is gone.
Refused(store, r) ==
    \/ r.do \in {"removeGroup", "setGroup"} /\ r.group \notin Range(store.groups)
    \/ /\ r.do = "move"
       /\ \/ r.group \notin Range(store.groups) \cup {None}
          \/ r.id \notin IdsOf(store.conns)

\* The ids a command writes about.
Added(r) == {r.new[i] : i \in IdsOf(r.from.conns)}
Targets(r) ==
    CASE r.do = "save"                                -> {r.conn.id, r.conn.group} \ {None}
      [] r.do \in {"newGroup", "removeGroup", "setGroup"} -> {r.group}
      [] r.do = "move"                                -> {r.id, r.group} \ {None}
      [] r.do = "forget"                              -> {r.id}
      [] r.do = "import"                              -> Range(r.new)
      [] OTHER                                        -> {}

\* What the user keeps, and under which password, after the command.
KeptAfter(r) ==
    CASE r.do = "save"   -> kept \cup {r.conn.id}
      [] r.do = "forget" -> kept \ {r.id}
      [] r.do = "import" -> kept \cup Added(r)
      [] OTHER           -> kept
TypedAfter(r) ==
    CASE r.do = "save" /\ r.conn.secret # Redacted -> [typed EXCEPT ![r.conn.id] = r.conn.secret]
      [] r.do = "import" ->
            [i \in Ids |-> IF i \in Added(r)
                           THEN (CHOOSE c \in Range(r.from.conns) : r.new[c.id] = i).secret
                           ELSE typed[i]]
      [] OTHER -> typed

-----------------------------------------------------------------------------
(* The steps of a command on the file. *)

Load == IF file.kind \in {"absent", "empty"} THEN EmptyStore ELSE file.store
Cutting == \E c \in Callers : work[c].phase = "cut"

Ends(c) == work' = [work EXCEPT ![c] = Idle]
Holds(c, phase, store, missed) ==
    work' = [work EXCEPT ![c].phase = phase, ![c].store = store, ![c].missed = missed]

\* What others wrote between the call and its load matters only where the
\* command names it; what it reads while the file is cut may miss everything.
MissedAtLoad(c) ==
    IF Cutting THEN Ids
    ELSE IF work[c].phase = "called" THEN work[c].missed \cap Targets(work[c].req)
    ELSE work[c].missed

\* The command goes on with the store it has read.  delete_saved_connection
\* and reorder_connections load the connections, and save_connections_to_file
\* loads the storage again to put them into.
Proceed(c, store, missed) ==
    LET r == work[c].req IN
    CASE r.do = "list" -> Ends(c) /\ UNCHANGED exported
      [] r.do = "export" -> Ends(c) /\ exported' = Encrypt(store, r.password)
      [] r.do \in {"forget", "order"} /\ work[c].phase # "again" ->
            /\ IF r.do = "order" /\ r.order = <<>> THEN Ends(c)
               ELSE Holds(c, "again", Changed(store, r), missed)
            /\ UNCHANGED exported
      [] r.do \in {"forget", "order"} /\ work[c].phase = "again" ->
            /\ Holds(c, "write", [store EXCEPT !.conns = work[c].store.conns], missed)
            /\ UNCHANGED exported
      [] OTHER ->
            /\ IF Refused(store, r) THEN Ends(c) ELSE Holds(c, "write", Changed(store, r), missed)
            /\ UNCHANGED exported

\* load_connection_storage_from_path_with: no file and an empty file are an
\* empty store; a file that cannot be read, or is being written, is an error.
LoadFile(c) ==
    /\ work[c].phase \in {"called", "again"}
    /\ \/ /\ file.kind = "broken" \/ Cutting
          /\ Ends(c)
          /\ UNCHANGED exported
       \/ /\ file.kind = "plain"
          /\ Holds(c, "migrate", Load, work[c].missed)
          /\ UNCHANGED exported
       \/ /\ file.kind \notin {"broken", "plain"}
          /\ Proceed(c, Load, MissedAtLoad(c))
    /\ UNCHANGED <<file, used, typed, kept, commands, torn, doubtful>>

\* atomic_replace_file: the migrated store is written beside the file and
\* renamed over it; a file another command has open for writing is unlinked.
Migrate(c) ==
    /\ work[c].phase = "migrate"
    /\ file' = [kind |-> "encrypted", store |-> work[c].store]
    /\ doubtful' = doubtful \cup work[c].missed
    /\ LET orphaned == [d \in Callers |-> IF work[d].phase = "cut"
                                          THEN [work[d] EXCEPT !.phase = "unlinked"]
                                          ELSE work[d]]
       IN work' = [orphaned EXCEPT ![c].phase = "called"]
    /\ UNCHANGED <<used, typed, kept, exported, commands, torn>>

\* save_connection_storage_to_file opens the file in place, which empties it,
CutFile(c) ==
    /\ work[c].phase = "write"
    /\ file' = [kind |-> "empty", store |-> EmptyStore]
    /\ work' = [work EXCEPT ![c].phase = "cut"]
    /\ UNCHANGED <<used, typed, kept, exported, commands, torn, doubtful>>

\* and writes it; over what another command wrote meanwhile the end of a
\* longer text stays behind.
WriteFile(c) ==
    LET r == work[c].req
        broken == [kind |-> "broken", store |-> EmptyStore] IN
    /\ work[c].phase \in {"cut", "unlinked"}
    /\ file' \in IF work[c].phase = "unlinked" THEN {file}
                 ELSE {[kind |-> "encrypted", store |-> work[c].store]}
                      \cup (IF file.kind = "empty" THEN {} ELSE {broken})
    /\ doubtful' = doubtful \cup work[c].missed
                   \cup (IF work[c].phase = "unlinked" THEN Targets(r) ELSE {})
                   \cup (IF file'.kind = "broken" THEN Ids ELSE {})
    /\ kept' = KeptAfter(r)
    /\ typed' = TypedAfter(r)
    /\ work' = [d \in Callers |->
                   IF d = c \/ work[d].phase = "idle" THEN (IF d = c THEN Idle ELSE work[d])
                   ELSE [work[d] EXCEPT !.missed = @ \cup Targets(r)]]
    /\ UNCHANGED <<used, exported, commands, torn>>

\* The process dies, or a write fails: part of the file or an empty one is left.
Break(who) ==
    /\ IF \E c \in who : work[c].phase = "cut"
       THEN /\ \E kind \in {"empty", "broken"} : file' = [kind |-> kind, store |-> EmptyStore]
            /\ torn' = TRUE
       ELSE UNCHANGED <<file, torn>>
    /\ work' = [c \in Callers |-> IF c \in who THEN Idle ELSE work[c]]
    /\ UNCHANGED <<used, typed, kept, exported, commands, doubtful>>
Die == (\E c \in Callers : work[c] # Idle) /\ Break(Callers)
WriteFails(c) == work[c].phase = "cut" /\ Break({c})

-----------------------------------------------------------------------------
(* The calls, from what the window shows of the file. *)

\* A worker thread that is free; the threads differ in nothing else.
Free == CHOOSE c \in Callers : work[c].phase = "idle"

Call(c, request) ==
    /\ work[c].phase = "idle" /\ c = Free
    /\ commands < MaxCommands
    /\ commands' = commands + 1
    /\ work' = [work EXCEPT ![c] = [Idle EXCEPT !.phase = "called", !.req = request]]
    /\ UNCHANGED <<file, typed, kept, exported, torn, doubtful>>

\* Uuid::new_v4.
Fresh == CHOOSE i \in Ids \ used : TRUE
Orders(ids) == {o \in UNION {[1..n -> ids] : n \in {0, Cardinality(ids)}} :
                    \A i, j \in DOMAIN o : o[i] = o[j] => i = j}
GroupChoices == Range(Load.groups) \cup {None}

\* save_connection for a new connection: an id is drawn.
SaveNew(c, secret, g) ==
    /\ used # Ids
    /\ used' = used \cup {Fresh}
    /\ Call(c, [do |-> "save", conn |-> Conn(Fresh, g, secret)])

\* save_connection after editing, with a new password or the placeholder.
SaveEdited(c, id, secret, g) ==
    /\ Call(c, [do |-> "save", conn |-> Conn(id, g, secret)])
    /\ UNCHANGED used

NewGroup(c) ==
    /\ used # Ids
    /\ used' = used \cup {Fresh}
    /\ Call(c, [do |-> "newGroup", group |-> Fresh])

\* delete_connection_group; rename_connection_group and
\* set_connection_group_collapsed write the name and the fold of a group.
OnGroup(c, do, g) ==
    /\ Call(c, [do |-> do, group |-> g])
    /\ UNCHANGED used

OrderGroups(c, order) ==
    /\ Call(c, [do |-> "orderGroups", order |-> order])
    /\ UNCHANGED used

Order(c, order) ==
    /\ Call(c, [do |-> "order", order |-> order])
    /\ UNCHANGED used

Move(c, id, g, order) ==
    /\ Call(c, [do |-> "move", id |-> id, group |-> g, order |-> order])
    /\ UNCHANGED used

Forget(c, id) ==
    /\ Call(c, [do |-> "forget", id |-> id])
    /\ UNCHANGED used

\* list_saved_connections, list_connection_groups, get_decrypted_connection.
List(c) ==
    /\ Call(c, [do |-> "list"])
    /\ UNCHANGED used

\* export_connections: encrypted with the password of the user.
Export(c, password) ==
    /\ Call(c, [do |-> "export", password |-> password])
    /\ UNCHANGED used

\* import_connections, which reads the export file first.
ImportFile(c, password) ==
    /\ Opens(exported, password)
    /\ LET from == IdsOf(exported.store.conns) \cup Range(exported.store.groups) IN
       /\ Cardinality(from) <= Cardinality(Ids \ used)
       /\ LET new == CHOOSE f \in [from -> Ids \ used] :
                        \A x, y \in from : f[x] = f[y] => x = y
          IN /\ used' = used \cup Range(new)
             /\ Call(c, [do |-> "import", from |-> exported.store, new |-> new])

Next ==
    \/ \E c \in Callers :
          \/ LoadFile(c) \/ Migrate(c) \/ CutFile(c) \/ WriteFile(c) \/ WriteFails(c)
          \/ \E s \in Secrets, g \in GroupChoices : SaveNew(c, s, g)
          \/ \E id \in IdsOf(Load.conns), s \in Secrets \cup {Redacted}, g \in GroupChoices :
                SaveEdited(c, id, s, g)
          \/ NewGroup(c)
          \/ \E g \in Range(Load.groups), do \in {"removeGroup", "setGroup"} : OnGroup(c, do, g)
          \/ \E o \in Orders(Range(Load.groups)) : OrderGroups(c, o)
          \/ \E o \in Orders(IdsOf(Load.conns)) : Order(c, o)
          \/ \E id \in IdsOf(Load.conns), g \in GroupChoices, o \in Orders(IdsOf(Load.conns)) :
                Move(c, id, g, o)
          \/ \E id \in IdsOf(Load.conns) : Forget(c, id)
          \/ List(c)
          \/ \E password \in Secrets : Export(c, password) \/ ImportFile(c, password)
    \/ Die

Spec == Init /\ [][Next]_vars

-----------------------------------------------------------------------------
(* Properties. *)

\* However the commands overlap, the file never holds a connection or a group
\* twice.  When no write was interrupted and none is under way, a connection the
\* user saved and did not delete is in the file with the password typed last
\* (never the placeholder of the list), and a deleted one is not, unless the
\* command that wrote it ran while another one held an older store: only such
\* an overlap loses a save or a deletion, and only of ids the other command
\* wrote in between.  Without an overlap every connection is in a group that
\* exists: through edits, moves, reordering, deletion of groups, migration and import.
SavedKept ==
    /\ \A i, j \in DOMAIN Load.conns : Load.conns[i].id = Load.conns[j].id => i = j
    /\ \A i, j \in DOMAIN Load.groups : Load.groups[i] = Load.groups[j] => i = j
    /\ ~torn /\ ~Cutting =>
         /\ \A id \in Ids \ doubtful : id \in kept <=> id \in IdsOf(Load.conns)
         /\ \A c \in Range(Load.conns) : c.id \notin doubtful => c.secret = typed[c.id]
         /\ doubtful = {} => \A c \in Range(Load.conns) : c.group \in GroupChoices
=============================================================================
