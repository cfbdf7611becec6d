---------------------------- MODULE DataTransfer ----------------------------
(***************************************************************************)
(* One data task from its preview to its result (db/data_tasks/plan.rs,    *)
(* metadata.rs, executor.rs and the sessions of the adapters).  The        *)
(* preview reads source and target and keeps the difference.  Execution    *)
(* locks the target's tables, reads them again, refuses a plan that no     *)
(* longer fits, writes deletes, updates and inserts in batches, compares   *)
(* the tables with what was expected and commits.  Other clients write     *)
(* whenever no lock stops them; statements may fail, connections break,    *)
(* and the answer to a COMMIT or ROLLBACK may never come.                  *)
(*                                                                         *)
(* A row is <<table, key, value>>; the value of a table with a foreign key *)
(* is a key of its parent.                                                 *)
(***************************************************************************)
EXTENDS Integers, FiniteSets, SequencesExt

CONSTANTS
    Tables,        \* numbers, in the order of their names
    Rows,          \* rows the databases may hold
    ForeignKeys,   \* sets of <<child, parent>> to choose from
    Modes,
    Engines,       \* subset of {"network", "sqlite"}
    Batch,         \* rows of a batch
    MaxDrift,      \* bound on writes by other clients (model checking only)
    MaxFaults      \* bound on failures (model checking only)

ASSUME TransferConstants ==
    /\ IsFiniteSet(Tables) /\ Tables \subseteq Nat
    /\ \A r \in Rows : r[1] \in Tables /\ r[2] \in Nat
    /\ Modes \subseteq {"merge", "mirror", "append", "replace"}
    /\ Batch \in Nat \ {0}

VARIABLES
    mode, engine, fks,
    src, tgt,      \* committed rows of both databases
    at,            \* where the task is
    plan,          \* [source, target, ops, expected, order]
    stage,         \* number of the <<kind, table>> that is written
    sent,          \* its rows that were written
    tx,            \* rows as the target's transaction sees them
    session,       \* transaction at the server: "none", "open", "committing",
                   \* "committed", "ended"
    link,          \* the task's connection is "up" or "down"
    outcome,       \* of the task: "none", "committed", "failed", "unknown"
    cancelled,
    late,          \* the cancel came after COMMIT was sent
    drifts, faults

given == <<mode, engine, fks>>
vars == <<given, src, tgt, at, plan, stage, sent, tx, session, link, outcome, cancelled, late, drifts, faults>>

SameKey(r, q) == r[1] = q[1] /\ r[2] = q[2]
Keyed(c) == \A r, q \in c : SameKey(r, q) => r = q
Closed(c, f) == \A k \in f, r \in c : r[1] = k[1] => \E q \in c : q[1] = k[2] /\ q[2] = r[3]
Contents(f) == {c \in SUBSET Rows : Keyed(c) /\ Closed(c, f)}
NoPlan == [source |-> {}, target |-> {}, ops |-> {}, expected |-> {}, order |-> <<>>]

TypeOK ==
    /\ at \in {"idle", "ready", "recheck", "write", "generators", "verify", "verified",
               "commit", "rollback", "done"}
    /\ Keyed(tgt) /\ Closed(tgt, fks)
    /\ session \in {"none", "open", "committing", "committed", "ended"}
    /\ outcome \in {"none", "committed", "failed", "unknown"}
    /\ (outcome # "none") <=> (at = "done")

Init ==
    /\ mode \in Modes /\ engine \in Engines /\ fks \in ForeignKeys
    /\ src \in Contents(fks) /\ tgt \in Contents(fks)
    /\ at = "idle" /\ plan = NoPlan /\ stage = 1 /\ sent = {} /\ tx = {} /\ session = "none" /\ link = "up"
    /\ outcome = "none" /\ cancelled = FALSE /\ late = FALSE /\ drifts = 0 /\ faults = 0

-----------------------------------------------------------------------------
(* The preview. *)

\* metadata.rs:330 - tables whose parents are all placed, round by round.
Placed[n \in Nat] ==
    IF n = 0 THEN {} ELSE {t \in Tables : \A k \in fks : k[1] = t => k[2] \in Placed[n - 1]}
Round(t) == Cardinality({n \in 1 .. Cardinality(Tables) : t \notin Placed[n]})
Cyclic == Placed[Cardinality(Tables)] # Tables
Earlier(a, b) == Round(a) < Round(b) \/ (Round(a) = Round(b) /\ a < b)
Before(t) == {u \in Tables : Earlier(u, t)}
insert_order == [i \in 1 .. Cardinality(Tables) |->
                   CHOOSE t \in Tables : Cardinality(Before(t)) = i - 1]
delete_order == Reverse(plan.order)

Missing(r, c) == \A q \in c : ~SameKey(r, q)

\* plan.rs:163 - the merge join of the sorted snapshots, or every row.
operations(s, t) ==
    IF mode \in {"merge", "mirror"}
    THEN {<<"insert", r>> : r \in {x \in s : Missing(x, t)}}
         \cup {<<"update", r>> : r \in {x \in s \ t : ~Missing(x, t)}}
         \cup {<<"delete", r>> : r \in {x \in t : mode = "mirror" /\ Missing(x, s)}}
    ELSE {<<"insert", r>> : r \in s}
         \cup {<<"delete", r>> : r \in {x \in t : mode = "replace"}}

expected_rows(s, t) ==
    s \cup {r \in t : \/ mode = "merge" /\ Missing(r, s)
                      \/ mode = "append"}

Prepare ==
    /\ at = "idle" /\ ~cancelled
    /\ IF Cyclic THEN at' = "done" /\ outcome' = "failed" /\ UNCHANGED plan
       ELSE /\ at' = "ready" /\ UNCHANGED outcome
            /\ plan' = [source |-> src, target |-> tgt, ops |-> operations(src, tgt),
                        expected |-> expected_rows(src, tgt), order |-> insert_order]
    /\ UNCHANGED <<given, src, tgt, stage, sent, tx, session, link, cancelled, late, drifts, faults>>

-----------------------------------------------------------------------------
(* The execution. *)

\* The order of the statements: every kind, every table.
StagesOf(kind, order) == [i \in 1 .. Len(order) |-> <<kind, order[i]>>]
Stages == StagesOf("delete", delete_order) \o StagesOf("update", plan.order) \o StagesOf("insert", plan.order)

Ends(o) == at' = "done" /\ outcome' = o
Lock == session' = "open"

\* The tables are locked: LOCK TABLES WRITE, ACCESS EXCLUSIVE, TABLOCKX or
\* BEGIN IMMEDIATE; what is committed by then is what the transaction sees.
begin_protected_write ==
    /\ at = "ready" /\ ~cancelled /\ link = "up"
    /\ Lock /\ tx' = tgt /\ at' = "recheck"
    /\ UNCHANGED <<given, src, tgt, plan, stage, sent, link, outcome, cancelled, late, drifts, faults>>

\* The lock is not granted within 10 seconds, or the connection breaks; there is
\* no transaction yet, so the rollback of the network path has nothing to undo.
BeginFails ==
    /\ at = "ready" /\ faults < MaxFaults /\ faults' = faults + 1
    /\ \/ Ends("failed") /\ UNCHANGED link
       \/ engine = "network" /\ link' = "down" /\ Ends("unknown")
    /\ UNCHANGED <<given, src, tgt, plan, stage, sent, tx, session, cancelled, late, drifts>>

Refuse == at' = "rollback" /\ UNCHANGED <<given, src, tgt, plan, stage, sent, tx, session, link, outcome,
                                          cancelled, late, drifts, faults>>

\* Faulty: the rows are counted.
StaleCount == Cardinality(tx) # Cardinality(plan.target)
\* executor.rs:1239 - the full content is read again under the lock.
Stale == tx # plan.target
Recheck ==
    /\ at = "recheck" /\ link = "up"
    /\ IF cancelled \/ Stale THEN Refuse
       ELSE at' = "write" /\ stage' = 1 /\ sent' = {}
            /\ UNCHANGED <<given, src, tgt, plan, tx, session, link, outcome, cancelled, late, drifts, faults>>

Kind == Stages[stage][1]
Table == Stages[stage][2]
Pending == {o[2] : o \in {x \in plan.ops : x[1] = Kind /\ x[2][1] = Table}} \ sent
\* executor.rs:1030 - the next rows of the table, in the order of their keys.
next_batch == {r \in Pending : Cardinality({q \in Pending : q[2] < r[2]}) < Batch}

\* The server's answer to a statement: the table afterwards, refused when a key
\* occurs twice or a foreign key is left without its parent.
Written(rows) ==
    CASE Kind = "delete" -> tx \ rows
      [] Kind = "update" -> {r \in tx : Missing(r, rows)} \cup rows
      [] OTHER           -> tx \cup rows
Accepted(rows) ==
    /\ Keyed(Written(rows)) /\ Closed(Written(rows), fks)
    /\ Kind = "insert" => rows \cap tx = {}

\* Replace deletes all rows of a table with one statement.
Rest == IF mode = "replace" /\ Kind = "delete" THEN {r \in tx : r[1] = Table} ELSE next_batch

Write ==
    /\ at = "write" /\ link = "up" /\ stage <= Len(Stages) /\ Rest # {}
    /\ IF cancelled \/ ~Accepted(Rest) THEN Refuse
       ELSE tx' = Written(Rest) /\ sent' = sent \cup Rest
            /\ UNCHANGED <<given, src, tgt, at, plan, stage, session, link, outcome, cancelled, late, drifts, faults>>

NextStage ==
    /\ at = "write" /\ link = "up" /\ (stage <= Len(Stages) => Rest = {})
    /\ sent' = {}
    /\ IF stage <= Len(Stages) THEN stage' = stage + 1 /\ UNCHANGED at
       ELSE at' = "generators" /\ UNCHANGED stage
    /\ UNCHANGED <<given, src, tgt, plan, tx, session, link, outcome, cancelled, late, drifts, faults>>

\* A statement that stores something else than it was given, and says nothing.
Coerced ==
    /\ at = "write" /\ link = "up" /\ faults < MaxFaults
    /\ \E r \in tx, q \in Rows : r \in plan.source /\ r \notin plan.target /\ SameKey(r, q) /\ r # q
                               /\ tx' = (tx \ {r}) \cup {q} /\ Closed(tx', fks)
    /\ stage > Len(Stages) /\ faults' = faults + 1
    /\ UNCHANGED <<given, src, tgt, at, plan, stage, sent, session, link, outcome, cancelled, late, drifts>>

maintain_generators ==
    /\ at = "generators" /\ link = "up"
    /\ IF cancelled THEN Refuse
       ELSE at' = "verify"
            /\ UNCHANGED <<given, src, tgt, plan, stage, sent, tx, session, link, outcome, cancelled, late, drifts, faults>>

\* Faulty: the rows are counted.
equal_count == Cardinality(tx) = Cardinality(plan.expected)
equal_sorted == tx = plan.expected
Verify ==
    /\ at = "verify" /\ link = "up"
    /\ IF cancelled \/ ~equal_sorted THEN Refuse
       ELSE at' = "verified"
            /\ UNCHANGED <<given, src, tgt, plan, stage, sent, tx, session, link, outcome, cancelled, late, drifts, faults>>

\* The last look at the cancel flag; the COMMIT is on its way afterwards.
LastCheck == cancelled
SendCommit ==
    /\ at = "verified"
    /\ IF LastCheck THEN Refuse
       ELSE at' = "commit" /\ session' = (IF link = "up" THEN "committing" ELSE session)
            /\ UNCHANGED <<given, src, tgt, plan, stage, sent, tx, link, outcome, cancelled, late, drifts, faults>>

CommitConfirmed ==
    /\ at = "commit" /\ session = "committed" /\ link = "up"
    /\ Ends("committed") /\ session' = "ended"
    /\ UNCHANGED <<given, src, tgt, plan, stage, sent, tx, link, cancelled, late, drifts, faults>>

\* An error or 10 seconds without an answer.  SQLite can still be asked whether
\* its transaction is open, and then it is rolled back.
CommitLost ==
    /\ at = "commit" /\ (faults < MaxFaults \/ link = "down")
    /\ faults' = IF link = "up" THEN faults + 1 ELSE faults
    /\ IF engine = "sqlite" /\ session = "committing"
       THEN Ends("failed") /\ session' = "ended"
       ELSE Ends("unknown") /\ UNCHANGED session
    /\ UNCHANGED <<given, src, tgt, plan, stage, sent, tx, link, cancelled, late, drifts>>

\* A rollback that is not confirmed leaves the outcome unknown.
Unconfirmed == "unknown"
Rollback ==
    /\ at = "rollback"
    /\ \/ link = "up" /\ Ends("failed") /\ session' = "ended" /\ UNCHANGED faults
       \/ link = "down" /\ Ends(Unconfirmed) /\ UNCHANGED <<session, faults>>
       \/ link = "up" /\ faults < MaxFaults /\ faults' = faults + 1 /\ Ends(Unconfirmed) /\ UNCHANGED session
    /\ UNCHANGED <<given, src, tgt, plan, stage, sent, tx, link, cancelled, late, drifts>>

\* A broken connection, or a statement that fails by itself.
Break ==
    /\ at \in {"recheck", "write", "generators", "verify", "verified", "commit"} /\ link = "up"
    /\ faults < MaxFaults /\ faults' = faults + 1 /\ engine = "network" /\ link' = "down"
    /\ UNCHANGED <<given, src, tgt, at, plan, stage, sent, tx, session, outcome, cancelled, late, drifts>>
\* Faulty: a broken connection goes unnoticed.
NeverBroken == FALSE /\ Refuse
Broken == at \in {"recheck", "write", "generators", "verify"} /\ link = "down" /\ Refuse
\* A cancel while rows are read closes the connection that reads them.
StreamCancelled ==
    /\ at \in {"recheck", "verify"} /\ link = "up" /\ cancelled /\ engine = "network"
    /\ link' = "down" /\ at' = "rollback"
    /\ UNCHANGED <<given, src, tgt, plan, stage, sent, tx, session, outcome, cancelled, late, drifts, faults>>
StatementFails ==
    /\ at \in {"recheck", "write", "generators", "verify"} /\ link = "up" /\ faults < MaxFaults
    /\ faults' = faults + 1 /\ at' = "rollback"
    /\ UNCHANGED <<given, src, tgt, plan, stage, sent, tx, session, link, outcome, cancelled, late, drifts>>

Cancel ==
    /\ ~cancelled /\ at # "done" /\ cancelled' = TRUE /\ late' = (at = "commit")
    /\ UNCHANGED <<given, src, tgt, at, plan, stage, sent, tx, session, link, outcome, drifts, faults>>
CancelledEarly ==
    /\ cancelled /\ at \in {"idle", "ready"} /\ Ends("failed")
    /\ UNCHANGED <<given, src, tgt, plan, stage, sent, tx, session, link, cancelled, late, drifts, faults>>

-----------------------------------------------------------------------------
(* The target's server and its other clients. *)

ServerCommit ==
    /\ session = "committing" /\ tgt' = tx /\ session' = "committed"
    /\ UNCHANGED <<given, src, at, plan, stage, sent, tx, link, outcome, cancelled, late, drifts, faults>>

\* A session whose client is gone, or that was given up, is rolled back.
ServerRollback ==
    /\ session = "open" /\ (link = "down" \/ at = "done") /\ session' = "ended"
    /\ UNCHANGED <<given, src, tgt, at, plan, stage, sent, tx, link, outcome, cancelled, late, drifts, faults>>

Unlocked == session \notin {"open", "committing"}
\* One row is inserted, deleted or updated.
Near(c, d) == c # d /\ Cardinality(c \ d) <= 1 /\ Cardinality(d \ c) <= 1
              /\ \A r \in c \ d, q \in d \ c : SameKey(r, q)
OthersWrite ==
    /\ drifts < MaxDrift /\ drifts' = drifts + 1
    /\ \/ Unlocked /\ tgt' \in {c \in Contents(fks) : Near(c, tgt)} /\ UNCHANGED src
       \/ src' \in {c \in Contents(fks) : Near(c, src)} /\ UNCHANGED tgt
    /\ UNCHANGED <<given, at, plan, stage, sent, tx, session, link, outcome, cancelled, late, faults>>

Work == Recheck \/ Write \/ NextStage \/ maintain_generators
        \/ Verify \/ SendCommit \/ CommitConfirmed \/ CommitLost \/ Rollback \/ Broken \/ StreamCancelled \/ CancelledEarly
Server == ServerCommit \/ ServerRollback
Next == Prepare \/ begin_protected_write \/ Work \/ Server \/ BeginFails \/ Coerced \/ Break \/ StatementFails \/ Cancel \/ OthersWrite
Spec == Init /\ [][Next]_vars /\ WF_vars(Work) /\ WF_vars(Server)

-----------------------------------------------------------------------------
(* Properties *)

\* A task implements the abstract transfer: one atomic change by the rule of its
\* mode, from the source of the preview and the target of the moment of commit,
\* and an outcome that is never reported wrongly (execute_network,
\* executor.rs:1338; execute_sqlite, executor.rs:604).
Abstract == INSTANCE AtomicTransfer WITH
    Databases <- {c \in SUBSET Rows : Keyed(c)},
    frozen   <- plan.source,
    target   <- tgt,
    applied  <- session = "committed" \/ (session = "ended" /\ outcome = "committed")
Atomic == Abstract!Spec

\* What is committed is what the preview showed: the target still held the rows
\* of the preview (README.md: "发生漂移则拒绝旧计划"; executor.rs:1239).
PreviewHolds == [][session' = "committed" /\ session # "committed" => tgt = plan.target]_vars

\* A cancel before the COMMIT is sent is honoured: the task does not report
\* success (executor.rs:1437).
CancelBeforeCommit == outcome = "committed" /\ cancelled => late

\* What is committed is what the preview showed, a task that was cancelled before
\* its COMMIT does not report success, and the target's keys and foreign keys
\* hold at all times (executor.rs:1239, 1437).
CommitsPreview == PreviewHolds /\ []CancelBeforeCommit /\ []TypeOK

\* An execution that took the locks ends, and the locks end with it, whatever
\* breaks: nothing waits for the task for ever (executor.rs:1307, mysql.rs:489).
LocksReleased == at = "recheck" ~> (outcome # "none" /\ Unlocked)
=============================================================================
