---------------------------- MODULE TransferGate ----------------------------
(***************************************************************************)
(* What lets a data task write: the target's catalogue is read into a      *)
(* DataMetadataSnapshot when the preview is prepared (metadata_inner of    *)
(* each adapter), the mapping is validated against it (metadata.rs), and   *)
(* both happen once more after the tables are locked, when the snapshot's  *)
(* fingerprint must be the planned one.  In between, and between reading   *)
(* and locking, somebody changes the target.                               *)
(*                                                                         *)
(* A world is the truth about the target, whatever the session may see:    *)
(*   engine, version, known, readonly - the server, whether its release    *)
(*              was verified, its identity is known, it takes writes;      *)
(*   same     - the mapping names the source's own physical table;         *)
(*   rights   - what the account was granted;                              *)
(*   fk       - a foreign key that touches the selected table "t":         *)
(*              "none", "inside", "sibling" (from an unselected table of   *)
(*              the schema), "foreign" (from another schema), "cascade";   *)
(*   trigger  - "none", "disabled" or "enabled" on the selected table;     *)
(*   policy   - rows are hidden from the account;                          *)
(*   physical - an ordinary table of a supported engine;                   *)
(*   locks    - the server can protect the tables and read a snapshot;     *)
(*   column   - the selected columns: "ok", "required" (a column without   *)
(*              default is not mapped), "generated", "identity" (unsafe).  *)
(***************************************************************************)
EXTENDS Integers, FiniteSets

CONSTANTS
  TargetEngines,   \* the engines written to
  Sources,         \* the source engines
  MaxOdd,          \* bound: how many fields of the first world are out of order; 3 for any
  MaxAlters        \* bound: how often the target is changed

GateConstantsOK == TargetEngines \subseteq {"mysql", "postgres", "sqlserver", "sqlite"}

VARIABLES
  world,           \* the target
  ask,             \* [from, kind, mode, readable]: the request, and whether the source can be read
  view,            \* the metadata read last
  planned,         \* the metadata of the preview
  gate,            \* "asked", "loaded", "ready", "locked", "writing" or "refused"
  alters           \* changes of the target so far

gateVars == <<world, ask, view, planned, gate, alters>>

AllRights == {"select", "write", "trigger", "global", "catalog"}
Rights == {AllRights, AllRights \ {"select"}, AllRights \ {"write"}, AllRights \ {"trigger"},
           AllRights \ {"global"}, AllRights \ {"catalog"}, AllRights \cup {"revoke"}}

Good(e) ==
  [engine |-> e, version |-> TRUE, known |-> TRUE, readonly |-> FALSE, same |-> FALSE, rights |-> AllRights,
   fk |-> "none", trigger |-> "none", policy |-> FALSE, physical |-> TRUE, locks |-> TRUE, column |-> "ok"]

FieldValues ==
  [version |-> BOOLEAN, known |-> BOOLEAN, readonly |-> BOOLEAN, same |-> BOOLEAN, rights |-> Rights,
   fk |-> {"none", "inside", "sibling", "foreign", "cascade"}, trigger |-> {"none", "disabled", "enabled"},
   policy |-> BOOLEAN, physical |-> BOOLEAN, locks |-> BOOLEAN,
   column |-> {"ok", "required", "generated", "identity"}]

World ==
  [engine : TargetEngines, version : BOOLEAN, known : BOOLEAN, readonly : BOOLEAN, same : BOOLEAN, rights : Rights,
   fk : {"none", "inside", "sibling", "foreign", "cascade"}, trigger : {"none", "disabled", "enabled"},
   policy : BOOLEAN, physical : BOOLEAN, locks : BOOLEAN, column : {"ok", "required", "generated", "identity"}]

Ask ==
  [from : Sources, kind : {"row_sync", "transfer"}, mode : {"merge", "mirror", "append", "replace"},
   readable : BOOLEAN]

(* The worlds that differ from w in the field f. *)
Changed(w, f) == {[w EXCEPT ![f] = x] : x \in FieldValues[f]}
Worlds ==
  LET one == UNION {Changed(Good(e), f) : e \in TargetEngines, f \in DOMAIN FieldValues} IN
  CASE MaxOdd = 1 -> one
    [] MaxOdd = 2 -> UNION {Changed(w, f) : w \in one, f \in DOMAIN FieldValues}
    [] OTHER -> World

-----------------------------------------------------------------------------
(* The catalogue as the session sees it. *)

(* Faulty: the schema's own grants are enough. *)
SchemaGrants(w) == {"select", "write", "trigger"} \subseteq w.rights

(* MySQL: every privilege a write needs, SELECT on all databases so that   *)
(* no foreign key from another one is hidden, and no partial revoke.       *)
verify_grants(w) ==
  /\ "revoke" \notin w.rights
  /\ {"select", "write", "trigger", "global"} \subseteq w.rights

NoView == [ok |-> FALSE]

Hidden(fk) == IF fk = "foreign" THEN "none" ELSE fk

Seen(w, permissions, protected, snapshot, fk, trigger) ==
  [ok |-> TRUE, read_only |-> w.readonly, permissions_verified |-> permissions,
   consistent_snapshot |-> snapshot, protected_write |-> protected,
   fk |-> fk, trigger |-> trigger, physical |-> w.physical, column |-> w.column,
   policy |-> w.engine = "postgres" /\ w.policy]

(* MySQL's information_schema shows the foreign keys of another database   *)
(* only with rights to it, and triggers only with TRIGGER; a trigger       *)
(* cannot be disabled.                                                     *)
mysql_foreign_keys(w) ==
  IF "global" \in w.rights /\ "revoke" \notin w.rights THEN w.fk ELSE Hidden(w.fk)
mysql_triggers(w) == IF "trigger" \in w.rights /\ w.trigger # "none" THEN "enabled" ELSE "none"
mysql_metadata(w) ==
  IF ~w.version THEN NoView
  ELSE Seen(w, verify_grants(w), w.locks, TRUE, mysql_foreign_keys(w), mysql_triggers(w))

(* pg_constraint, pg_trigger and pg_rewrite hide nothing.  An owned        *)
(* sequence that is not safe refuses the tables once they are locked.      *)
postgres_foreign_keys(w) == w.fk
postgres_triggers(w) == w.trigger
postgres_sequences(w, locked) == locked /\ w.column = "identity"
postgres_metadata(w, locked) ==
  IF ~w.version \/ ~w.known \/ postgres_sequences(w, locked) THEN NoView
  ELSE Seen(w, "select" \in w.rights /\ ~w.policy, "write" \in w.rights /\ ~w.policy, TRUE,
            postgres_foreign_keys(w), postgres_triggers(w))

(* SQL Server's catalogue views show what VIEW DEFINITION on the database  *)
(* allows; without it, or with a DENY, nothing is read.                    *)
sqlserver_visible(w) == "catalog" \in w.rights /\ "revoke" \notin w.rights
sqlserver_foreign_keys(w) == IF sqlserver_visible(w) THEN w.fk ELSE Hidden(w.fk)
sqlserver_triggers(w) == w.trigger
sqlserver_policies(w) == w.policy
sqlserver_metadata(w) ==
  IF ~w.version \/ ~sqlserver_visible(w) THEN NoView
  ELSE Seen(w, "select" \in w.rights /\ ~sqlserver_policies(w), "write" \in w.rights /\ ~w.readonly,
            w.locks, sqlserver_foreign_keys(w), sqlserver_triggers(w))

sqlite_metadata(w) == Seen(w, TRUE, TRUE, TRUE, w.fk, w.trigger)

load_metadata(w, locked) ==
  CASE w.engine = "mysql" -> mysql_metadata(w)
    [] w.engine = "postgres" -> postgres_metadata(w, locked)
    [] w.engine = "sqlserver" -> sqlserver_metadata(w)
    [] OTHER -> sqlite_metadata(w)

(* ClickHouse is read only with the right to see every table and policy of *)
(* a database that has no row policy.                                      *)
source_readable(a) == a.readable

(* The digest of the tables, with their constraints, indexes and triggers. *)
schema_fingerprint(v) == <<v.fk, v.trigger, v.physical, v.column, v.policy>>

-----------------------------------------------------------------------------
(* What may be done with it. *)

(* The modes a pair of endpoints offers. *)
capabilities(from, to, safe, readonly) ==
  IF ~safe \/ readonly THEN {}
  ELSE CASE from = "clickhouse" -> {"append"}
         [] from = to -> {"merge", "mirror", "append", "replace"}
         [] OTHER -> {"append", "replace"}

get_capabilities(a, to, v) ==
  capabilities(a.from, to,
               source_readable(a) /\ v.consistent_snapshot /\ v.protected_write /\ v.permissions_verified,
               v.read_only)

(* A request is complete, and its mode belongs to its kind. *)
request_validate(a) ==
  a.mode \in IF a.kind = "row_sync" THEN {"merge", "mirror"} ELSE {"append", "replace"}

(* The part of validate_mapping that concerns the endpoints. *)
EndpointsAllow(a, to, v) ==
  /\ request_validate(a)
  /\ a.from = "clickhouse" => a.kind = "transfer" /\ a.mode = "append"
  /\ ~v.read_only
  /\ source_readable(a) /\ v.permissions_verified
  /\ v.consistent_snapshot /\ v.protected_write
  /\ a.from # to => a.kind # "row_sync"

(* The part that concerns the selected table. *)
TablesAllow(v) == v.physical /\ v.trigger # "enabled" /\ v.column = "ok"

(* No foreign key joins a selected table to one that is not selected, and  *)
(* none writes on its own.                                                 *)
dependencies(v) == v.fk \in {"none", "inside"}

validate_mapping(a, to, v) == EndpointsAllow(a, to, v) /\ TablesAllow(v) /\ dependencies(v)

(* The source is not the target: two endpoints of one engine must be told  *)
(* apart, and must not be the same file or table.                          *)
resolve_endpoints(a, w) == a.from = w.engine => w.known /\ ~w.same

-----------------------------------------------------------------------------
GateInit ==
  /\ world \in Worlds
  /\ ask \in Ask
  /\ view = NoView /\ planned = NoView
  /\ gate = "asked" /\ alters = 0

(* prepare_network: both sessions read their catalogue. *)
Load ==
  /\ gate = "asked"
  /\ view' = load_metadata(world, FALSE)
  /\ gate' = IF view'.ok /\ request_validate(ask) THEN "loaded" ELSE "refused"
  /\ UNCHANGED <<world, ask, planned, alters>>

(* The endpoints are told apart and the mapping is validated. *)
Validate ==
  /\ gate = "loaded"
  /\ gate' = IF resolve_endpoints(ask, world) /\ validate_mapping(ask, world.engine, view) THEN "ready" ELSE "refused"
  /\ planned' = view
  /\ UNCHANGED <<world, ask, view, alters>>

(* Somebody changes the target, as long as its tables are not locked. *)
Alter ==
  /\ gate \in {"loaded", "ready"}
  /\ alters < MaxAlters /\ alters' = alters + 1
  /\ \E f \in {"rights", "fk", "trigger", "policy", "physical", "column", "readonly"} :
       \E w \in Changed(world, f) : w # world /\ world' = w
  /\ UNCHANGED <<ask, view, planned, gate>>

(* begin_protected_write: the tables are locked, then the catalogue is     *)
(* read again.                                                             *)
LockTables ==
  /\ gate = "ready"
  /\ view' = load_metadata(world, TRUE)
  /\ gate' = IF view'.ok THEN "locked" ELSE "refused"
  /\ UNCHANGED <<world, ask, planned, alters>>

(* execute_network_transaction: fingerprint, endpoints and mapping hold. *)
RecheckMetadata ==
  /\ gate = "locked"
  /\ gate' = IF /\ schema_fingerprint(view) = schema_fingerprint(planned)
                /\ resolve_endpoints(ask, world)
                /\ validate_mapping(ask, world.engine, view)
             THEN "writing" ELSE "refused"
  /\ UNCHANGED <<world, ask, view, planned, alters>>

GateNext == Load \/ Validate \/ Alter \/ LockTables \/ RecheckMetadata

GateSpec == GateInit /\ [][GateNext]_gateVars

-----------------------------------------------------------------------------
(* metadata.rs: when the first statement is sent, no row outside the       *)
(* preview can be touched or hidden, whatever the account can see: no      *)
(* foreign key leads out of the selection or cascades, no trigger fires,   *)
(* no policy hides rows, the table is an ordinary one, and it is not the   *)
(* source itself.                                                          *)
OnlyPreviewRows ==
  gate = "writing" =>
    /\ world.fk \in {"none", "inside"}
    /\ world.trigger # "enabled"
    /\ world.policy => world.engine \in {"mysql", "sqlite"}
    /\ world.physical /\ ~world.readonly
    /\ ask.from = world.engine => ~world.same

(* The modes the dialog offers and the ones the preview accepts are        *)
(* decided in two places, and agree.                                       *)
ModesAgree ==
  view.ok /\ gate \in {"loaded", "ready"} =>
    (EndpointsAllow(ask, world.engine, view)
       <=> request_validate(ask) /\ ask.mode \in get_capabilities(ask, world.engine, view))

(* No statement is sent that could touch or miss rows outside the preview, *)
(* and the dialog offers what the preview accepts.                         *)
WritesOnlyPreview == OnlyPreviewRows /\ ModesAgree
=============================================================================
