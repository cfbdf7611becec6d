---------------------------- MODULE DatabaseSync ----------------------------
(***************************************************************************)
(* Comparing two databases, previewing a synchronisation and executing it  *)
(* (commands/database_compare.rs, commands/database_sync.rs and            *)
(* commands/temporary_database.rs).  Every command opens two temporary     *)
(* connections, reads both schemas while other clients may change them,    *)
(* and closes the connections again on every path.  An execution reads the *)
(* schemas a second time, goes on only if the plan has the fingerprint the *)
(* user confirmed, and sends one statement after the other until the first *)
(* error; a statement may be applied although its answer is lost.          *)
(***************************************************************************)
EXTENDS SchemaPlan

CONSTANTS
    Designs,    \* the tables another client may leave behind
    Worlds      \* possible starts: [engine, source, target, drifts, faults], the two
                \* databases as functions from table names (numbers, for their order);
                \* drifts and faults bound the changes by other clients and the
                \* failing calls

\* Tables have distinct numbers, and so have the columns of a table.
ASSUME SyncConstants ==
    /\ \A d \in Designs : IsTable(d)
    /\ \A w \in Worlds :
          /\ w.engine \in Engines /\ w.drifts \in Nat /\ w.faults \in Nat
          /\ DOMAIN w.source = DOMAIN w.target
          /\ DOMAIN w.source \subseteq Int /\ IsFiniteSet(DOMAIN w.source)
          /\ \A t \in DOMAIN w.source : /\ w.source[t] = NoTable \/ IsTable(w.source[t])
                                        /\ w.target[t] = NoTable \/ IsTable(w.target[t])

VARIABLES
    engine,
    db,       \* the two databases
    mode,     \* the command that runs
    at,       \* where it is
    pending,  \* sides whose connection is being opened
    open,     \* open temporary connections
    loaded,   \* how far each side's schema is read
    view,     \* what was read
    req,      \* the request the preview was made for
    differs,  \* the tables the last comparison lists
    shown,    \* the preview the user confirms
    outcome,  \* what the command will return
    next,     \* the statement to execute
    applied,  \* statements the target really applied
    cached,   \* cached table metadata of the target's open connections
    seen,     \* what the shown preview was computed from
    quiet,    \* no other client changed anything since the schemas were read
    drifts,   \* changes other clients may still make
    faults    \* calls that may still fail

sync == <<mode, at, pending, open, loaded, view, req, differs, shown, outcome, next,
          applied, cached, seen>>
vars == <<engine, db, sync, quiet, drifts, faults>>

Sides == {"source", "target"}
Modes == {"compare", "preview", "execute"}
Nothing == [kind |-> "none"]
Failure == [kind |-> "err"]
Tables == DOMAIN db.source
NoSelection == [selected |-> {}, drops |-> FALSE]
Unread == [pub |-> [t \in Tables |-> NoTable], nat |-> [t \in Tables |-> NoTable]]

TypeOK ==
    /\ engine \in Engines
    /\ mode \in Modes /\ at \in {"idle", "open", "load", "build", "run", "refresh", "close"}
    /\ pending \subseteq Sides /\ open \subseteq Sides /\ open \cap pending = {}
    /\ loaded \in [Sides -> {"none", "public", "done", "err"}]
    /\ req.selected \subseteq Tables /\ differs \subseteq Tables
    /\ outcome.kind \in {"none", "err", "compare", "preview", "exec"}
    /\ cached \in {"none", "current", "old"}
    /\ applied \in Nat /\ next \in Nat /\ drifts \in Nat /\ faults \in Nat

Init ==
    /\ \E w \in Worlds : /\ engine = w.engine /\ db = [source |-> w.source, target |-> w.target]
                         /\ drifts = w.drifts /\ faults = w.faults
    /\ mode = "compare" /\ at = "idle" /\ pending = {} /\ open = {}
    /\ loaded = [s \in Sides |-> "none"] /\ view = [s \in Sides |-> Unread]
    /\ req = NoSelection /\ differs = {} /\ shown = NoPreview /\ outcome = Nothing
    /\ next = 1 /\ applied = 0 /\ cached = "current" /\ seen = [s \in Sides |-> Unread]
    /\ quiet = TRUE

Fault == faults > 0 /\ faults' = faults - 1
NoFault == UNCHANGED faults

--------------------------------------------------------------------------------
(* A command begins: both connections are opened at once (tokio::join).    *)

Start(m) ==
    /\ at = "idle" /\ mode' = m /\ at' = "open" /\ pending' = Sides
    /\ loaded' = [s \in Sides |-> "none"] /\ outcome' = Nothing /\ next' = 1 /\ applied' = 0
    /\ view' = [s \in Sides |-> Unread]
    /\ UNCHANGED <<engine, db, open, cached, seen, quiet, drifts, faults>>

compare_databases ==
    Start("compare") /\ differs' = {} /\ shown' = NoPreview /\ req' = NoSelection

\* preview_database_sync: some of the listed tables, with or without deletions.
preview_database_sync ==
    /\ Start("preview") /\ differs # {}
    /\ \E S \in SUBSET differs \ {{}}, drops \in BOOLEAN : req' = [selected |-> S, drops |-> drops]
    /\ shown' = NoPreview /\ UNCHANGED differs

execute_database_sync ==
    /\ Start("execute") /\ shown # NoPreview /\ outcome.kind = "preview"
    /\ UNCHANGED <<differs, shown, req>>

\* tokio::join: the attempts still awaited when that of s is over.
Awaited(s) == pending \ {s}
OpenReturns(s) ==
    /\ at = "open" /\ s \in pending /\ pending' = Awaited(s)
    /\ \/ open' = open \cup {s} /\ NoFault
       \/ UNCHANGED open /\ Fault
    /\ UNCHANGED <<engine, db, mode, at, loaded, view, req, differs, shown, outcome, next,
                   applied, cached, seen, quiet, drifts>>

\* Both attempts are over; one failure is enough to give up.
Opened ==
    /\ at = "open" /\ pending = {}
    /\ at' = IF open = Sides THEN "load" ELSE "close"
    /\ outcome' = IF open = Sides THEN outcome ELSE Failure
    /\ quiet' = TRUE
    /\ UNCHANGED <<engine, db, mode, pending, open, loaded, view, req, differs, shown, next,
                   applied, cached, seen, drifts, faults>>

--------------------------------------------------------------------------------
(* Both schemas are read, each by two queries one after the other.         *)

LoadPublic(s) ==
    /\ at \in {"load", "refresh"} /\ loaded[s] = "none"
    /\ view' = [view EXCEPT ![s].pub = [t \in Tables |-> PublicView(db[s][t])]]
    /\ loaded' = [loaded EXCEPT ![s] = IF mode = "compare" THEN "done" ELSE "public"]
    /\ NoFault

LoadNative(s) ==
    /\ at \in {"load", "refresh"} /\ loaded[s] = "public"
    /\ view' = [view EXCEPT ![s].nat = [t \in Tables |-> NativeView(engine, db[s][t])]]
    /\ loaded' = [loaded EXCEPT ![s] = "done"] /\ NoFault

LoadFails(s) ==
    /\ at \in {"load", "refresh"} /\ loaded[s] \in {"none", "public"} /\ Fault
    /\ loaded' = [loaded EXCEPT ![s] = "err"] /\ UNCHANGED view

Load(s) ==
    /\ LoadPublic(s) \/ LoadNative(s) \/ LoadFails(s)
    /\ UNCHANGED <<engine, db, mode, at, pending, open, req, differs, shown, outcome, next,
                   applied, cached, seen, quiet, drifts>>

BothRead == \A s \in Sides : loaded[s] = "done"
ReadOver == \A s \in Sides : loaded[s] \in {"done", "err"}

--------------------------------------------------------------------------------
(* The answer of a comparison or a preview; the checks before an execution.*)

Differing == {t \in Tables : TableDiffers(view["source"].pub[t], view["target"].pub[t])}
Computed == Preview(engine, req, view["source"], view["target"])

\* Faulty: the plan is trusted without reading the schemas again.
MatchesUnchecked(p) == TRUE
\* validate_plan_fingerprint
Matches(p) == p.fingerprint = shown.fingerprint
\* validate_executable_preview
Executable(p) ==
    /\ p.blocks = {} /\ p.ops # <<>>
    /\ \A i \in DOMAIN p.ops : p.ops[i].sql # <<>>
    /\ req.drops \/ \A i \in DOMAIN p.ops : p.ops[i].phase \notin {4, 5}

Build ==
    /\ at = "load" /\ ReadOver
    /\ IF ~BothRead THEN at' = "close" /\ outcome' = Failure /\ UNCHANGED seen
       ELSE IF mode = "compare"
       THEN at' = "close" /\ outcome' = [kind |-> "compare", tables |-> Differing] /\ UNCHANGED seen
       ELSE \E p \in {Computed} :
              IF mode = "preview"
              THEN /\ at' = "close" /\ seen' = view
                   /\ outcome' = IF p.failed THEN Failure ELSE [kind |-> "preview", plan |-> p]
              ELSE /\ UNCHANGED seen
                   /\ IF ~p.failed /\ Matches(p) /\ Executable(p)
                      THEN at' = "run" /\ outcome' = [kind |-> "preview", plan |-> p]
                      ELSE at' = "close" /\ outcome' = Failure
    /\ UNCHANGED <<engine, db, mode, pending, open, loaded, view, req, differs, shown, next,
                   applied, cached, quiet, drifts, faults>>

--------------------------------------------------------------------------------
(* Statements are executed one after the other (execute_sync_statement).   *)

Todo == Statements(outcome.plan)
Current == Todo[next]
Ran == AcceptsAll(engine, db["target"][Current.table], Current.steps)

Performed ==
    /\ Ran[1]
    /\ db' = [db EXCEPT !["target"][Current.table] = Ran[2]]
    /\ applied' = applied + 1
    /\ cached' = IF cached = "current" THEN "old" ELSE cached

\* pending_operation_ids: the operations behind the one that failed.
PendingAfter(i) == {o \in DOMAIN outcome.plan.ops : o > i}
Report(status, pend) ==
    [kind |-> "exec", plan |-> outcome.plan, status |-> status, completed |-> next - 1,
     pend |-> pend, latest |-> {}]

Succeeds ==
    /\ at = "run" /\ next <= Len(Todo) /\ Performed /\ NoFault
    /\ next' = next + 1 /\ UNCHANGED <<at, outcome>>

\* The first error ends the execution; completed statements stay.
Errs ==
    /\ at = "run" /\ next <= Len(Todo)
    /\ \/ ~Ran[1] /\ UNCHANGED <<db, applied, cached, faults>>  \* the server refuses it
       \/ Fault /\ UNCHANGED <<db, applied, cached>>            \* it fails for another reason
       \/ Fault /\ Performed                                    \* its answer is lost
    /\ outcome' = Report(IF next = 1 THEN "failed" ELSE "partial", PendingAfter(Current.op))
    /\ at' = "close" /\ UNCHANGED next

Execute ==
    /\ Succeeds \/ Errs
    /\ UNCHANGED <<engine, mode, pending, open, loaded, view, req, differs, shown, seen, quiet,
                   drifts>>

Executed ==
    /\ at = "run" /\ next > Len(Todo)
    /\ outcome' = Report("succeeded", {}) /\ at' = "refresh"
    /\ loaded' = [s \in Sides |-> "none"]
    /\ UNCHANGED <<engine, db, mode, pending, open, view, req, differs, shown, next, applied,
                   cached, seen, quiet, drifts, faults>>

\* Both schemas are compared again; a failure is only noted.
Refreshed ==
    /\ at = "refresh" /\ ReadOver /\ at' = "close"
    /\ outcome' = [outcome EXCEPT !.latest = IF BothRead THEN Differing ELSE Tables]
    /\ UNCHANGED <<engine, db, mode, pending, open, loaded, view, req, differs, shown, next,
                   applied, cached, seen, quiet, drifts, faults>>

--------------------------------------------------------------------------------
(* Closing, at most two seconds per connection, and the answer.            *)

\* An error while closing turns the answer of a comparison or preview into an error;
\* an execution keeps its report.
CloseReturns(s) ==
    /\ at = "close" /\ s \in open /\ open' = open \ {s}
    /\ \/ UNCHANGED outcome /\ NoFault
       \/ Fault /\ outcome' = IF outcome.kind = "exec" THEN outcome ELSE Failure
    /\ UNCHANGED <<engine, db, mode, at, pending, loaded, view, req, differs, shown, next,
                   applied, cached, seen, quiet, drifts>>

\* invalidate_metadata_after_sync_result: partial executions refresh the cache too.
Invalidates(o) == o.kind = "exec" /\ o.completed > 0

Return ==
    /\ at = "close" /\ open = {} /\ at' = "idle"
    /\ differs' = CASE outcome.kind = "compare" -> outcome.tables
                    [] outcome.kind = "exec" -> IF outcome.status = "succeeded"
                                                THEN outcome.latest ELSE {}
                    [] OTHER -> differs
    /\ shown' = IF outcome.kind = "preview" THEN outcome.plan ELSE NoPreview
    /\ cached' = IF Invalidates(outcome) THEN "none" ELSE cached
    /\ UNCHANGED <<engine, db, mode, pending, open, loaded, view, req, outcome, next, applied,
                   seen, quiet, drifts, faults>>

\* A table page of the target is browsed and its metadata cached.
Browse ==
    /\ cached = "none" /\ cached' = "current"
    /\ UNCHANGED <<engine, db, mode, at, pending, open, loaded, view, req, differs, shown,
                   outcome, next, applied, seen, quiet, drifts, faults>>

\* Another client changes a table of either database.
Drift ==
    /\ drifts > 0 /\ drifts' = drifts - 1 /\ quiet' = FALSE
    /\ \E s \in Sides, t \in Tables, d \in Designs \cup {NoTable} :
            db[s][t] # d /\ db' = [db EXCEPT ![s][t] = d]
    /\ UNCHANGED <<engine, sync, faults>>

Next ==
    \/ compare_databases \/ preview_database_sync \/ execute_database_sync
    \/ \E s \in Sides : OpenReturns(s) \/ Load(s) \/ CloseReturns(s)
    \/ Opened \/ Build \/ Execute \/ Executed \/ Refreshed \/ Return
    \/ Browse \/ Drift

Spec == Init /\ [][Next]_vars

--------------------------------------------------------------------------------
(* Properties.                                                             *)

\* An execution only sends statements when both schemas, read again, are the ones the
\* confirmed preview was computed from (validate_plan_fingerprint): whatever other
\* clients did in between, also between the two queries of a reading, stops it.
DriftStopsExecution ==
    at = "run" =>
        \A s \in Sides : \A t \in req.selected :
            /\ view[s].pub[t] = seen[s].pub[t]
            /\ view[s].pub[t] # NoTable => view[s].nat[t] = seen[s].nat[t]

\* What no order of a plan's statements makes up for, read off the two schemas it was
\* made from: a column of another type whose default has to go first (SQL Server), or
\* whose type no assignment reaches (PostgreSQL); AUTO_INCREMENT given without its key
\* or a key taken from under it, and a virtual column made ordinary or back (MySQL).
\* The planners do not look for these: they are sent and refused.
KeyOf(nat) == {<<c, nat.cols[c].key>> : c \in {d \in DOMAIN nat.cols : nat.cols[d].key # 0}}
Retypes(s, d) == {c \in Shared(s, d) : s[c].typ # d[c].typ}
UnkeyedAuto(x) ==
    IF x.tgt = NoTable THEN \E c \in AutoColumns(x.src) : x.srcNat.cols[c].key # 1
    ELSE \E c \in AutoColumns(x.src) \ AutoColumns(x.tgt) :
            \/ c \notin DOMAIN x.tgt \/ AutoColumns(x.tgt) # {}
            \/ x.tgtNat.cols[c].key # 1 \/ KeyOf(x.srcNat) # KeyOf(x.tgtNat)
Clash(x) ==
    /\ x.src # NoTable
    /\ \/ /\ engine = "sqlserver" /\ x.tgt # NoTable
          /\ \E c \in Retypes(x.src, x.tgt) : x.tgt[c].dflt # "none"
       \/ /\ engine = "postgres" /\ x.tgt # NoTable
          /\ \E c \in Retypes(x.src, x.tgt) : x.src[c].typ # "text" \/ x.tgt[c].dflt = "now"
       \/ /\ engine = "mysql"
          /\ \/ UnkeyedAuto(x)
             \/ /\ x.tgt # NoTable
                /\ \/ /\ KeyOf(x.srcNat) # KeyOf(x.tgtNat)
                      /\ \E c \in AutoColumns(x.tgt) : x.tgtNat.cols[c].key = 1
                   \/ \E c \in Changed(x.src, x.tgt) :
                        x.src[c].extra # x.tgt[c].extra /\ "virtual" \in {x.src[c].extra, x.tgt[c].extra}
Context(t) == [src |-> view["source"].pub[t], tgt |-> view["target"].pub[t],
               srcNat |-> view["source"].nat[t], tgtNat |-> view["target"].nat[t]]

\* While no other client interferes, the target accepts every statement of a plan in
\* its order, unless the table's two definitions clash as above: no statement names a
\* column that is missing or already there, moves a column behind an absent one,
\* relaxes a key column, adds a second key, or comes before the one that makes it legal.
\* A plan for clashing definitions, which the preview shows as executable, never
\* completes: the clashes are exactly what is refused.
StatementsRunnable ==
    (at = "run" /\ quiet) =>
        /\ next <= Len(Todo) => (Ran[1] \/ Clash(Context(Current.table)))
        /\ next > Len(Todo) => \A i \in DOMAIN Todo : ~Clash(Context(Todo[i].table))

Keys(t) == {<<c, t.cols[c].key>> : c \in {d \in DOMAIN t.cols : t.cols[d].key # 0}}

\* Without include_drops no statement of any engine removes a table, a column or the
\* primary key of the target.
DropsOptIn ==
    [][(at = "run" /\ ~req.drops /\ applied' # applied) =>
        \A t \in Tables :
            db["target"][t] # NoTable =>
                /\ db'["target"][t] # NoTable
                /\ DOMAIN db["target"][t].cols \subseteq DOMAIN db'["target"][t].cols
                /\ Keys(db["target"][t]) # {} => Keys(db'["target"][t]) = Keys(db["target"][t])]_vars

\* The report of an execution is true: the completed statements were applied, at most
\* one more was (the one whose answer was lost), and no statement of a pending
\* operation, nor any operation left out, was applied or forgotten.
HonestReport ==
    outcome.kind = "exec" =>
        /\ applied \in {outcome.completed, outcome.completed + 1}
        /\ outcome.status = "succeeded" <=> outcome.completed = Len(Todo)
        /\ outcome.status = "failed" => outcome.completed = 0
        /\ \A i \in DOMAIN Todo :
              /\ Todo[i].op \in outcome.pend => i > outcome.completed + 1
              /\ (i > outcome.completed /\ Todo[i].op \notin outcome.pend)
                    => Todo[i].op = Todo[outcome.completed + 1].op

Content(t) ==
    [c \in DOMAIN t.cols |-> [t.cols[c] EXCEPT !.ord = 0,
                                !.dflt = IF NullDefault(@) THEN "none" ELSE @]]

\* After a successful execution nobody interfered with, every selected table of the
\* target has the source's columns with the source's types, defaults, key, comments
\* and native details (column order apart); with include_drops it has no others.
ContentEqual ==
    (outcome.kind = "exec" /\ quiet) =>
        (outcome.status = "succeeded" =>
            \A t \in req.selected :
                LET s == db["source"][t] d == db["target"][t]
                IN  IF s = NoTable THEN req.drops => d = NoTable
                    ELSE /\ d # NoTable
                         /\ req.drops => Content(d) = Content(s)
                         /\ \A c \in DOMAIN s.cols :
                                c \in DOMAIN d.cols /\ Content(d)[c] = Content(s)[c])

\* SQL Server replaces a primary key in one transaction: however the execution ends, a
\* table that had a key and is to have one is never left without
\* (build_atomic_sqlserver_batch).
KeyNeverLost ==
    (engine = "sqlserver" /\ quiet /\ mode = "execute" /\ outcome.kind \in {"preview", "exec"}) =>
        \A t \in req.selected :
            (/\ seen["source"].pub[t] # NoTable /\ seen["target"].pub[t] # NoTable
             /\ KeyColumns(seen["source"].pub[t]) # {} /\ KeyColumns(seen["target"].pub[t]) # {})
            => Keys(db["target"][t]) # {}

\* Once an execution that completed a statement has returned, no open connection of the
\* target still pages tables with metadata from before it.
CacheRefreshed ==
    (at = "idle" /\ outcome.kind = "exec" /\ applied > 0 /\ outcome.completed > 0)
        => cached # "old"

\* An execution goes on only with the schemas of its preview, its report is true
\* whatever fails, and no cache keeps the metadata from before it.
SyncHonest == TypeOK /\ DriftStopsExecution /\ HonestReport /\ CacheRefreshed

\* Every statement of a plan can be run in its place, nothing is deleted unasked, and
\* the target gets the source's columns.
SameContent == [](StatementsRunnable /\ ContentEqual) /\ DropsOptIn

\* After a successful synchronisation with deletions a selected table no longer shows
\* up in the comparison.
FullySynced ==
    (outcome.kind = "exec" /\ quiet /\ req.drops) =>
        (outcome.status = "succeeded" =>
            \A t \in req.selected :
                ~TableDiffers(PublicView(db["source"][t]), PublicView(db["target"][t])))
================================================================================
