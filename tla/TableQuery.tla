----------------------------- MODULE TableQuery -----------------------------
(***************************************************************************)
(* Table pages and row counts that can be interrupted: the table query     *)
(* registry (db/table_query.rs), the commands query_table_data and         *)
(* query_table_count (commands/data.rs) and the way each engine stops an   *)
(* abandoned statement before its session is used again: KILL CONNECTION   *)
(* (MySQL), a cancel request (PostgreSQL), an interrupt (SQLite), dropping *)
(* the session (SQL Server) or KILL QUERY by id (ClickHouse).              *)
(***************************************************************************)
EXTENDS Naturals, FiniteSets

CONSTANTS
    Queries, Attempts, Callers, Sessions,
    RetainFor,    \* RETAIN_FOR      (60 seconds in the code)
    MaxRetained,  \* MAX_RETAINED    (256 in the code)
    MaxTime,      \* bound on the clock (model checking only)
    Nil

TableQueryConstantsOK ==
    /\ RetainFor \in Nat \ {0} /\ MaxRetained \in Nat /\ MaxTime \in Nat
    /\ IsFiniteSet(Queries)
    /\ Nil \notin Queries \cup Attempts \cup Sessions
    /\ Nil \notin {"ok", "err"}

VARIABLES
    engine,     \* the engine of the connection
    entries,    \* TableQueryRegistry.entries
    requested,  \* the watch flag of every attempt's cancellation
    task,       \* every query_table_data call
    stop,       \* the request that stops an abandoned statement
    session,    \* the pool's sessions: state, and the statement it executes
    answered,   \* the cancel_table_query calls
    now

vars == <<engine, entries, requested, task, stop, session, answered, now>>

Engines == {"mysql", "postgres", "sqlite", "sqlserver", "clickhouse"}

NoEntry == [kind |-> "none", at |-> 0]
Running == [kind |-> "running", at |-> 0]
Retained(kind) == [kind |-> kind, at |-> now]
IsRetained(e) == e.kind \in {"pending", "finished"}

\* What prune may leave: no expired entry and the MaxRetained newest.
Prune(es) ==
    LET fresh == [q \in Queries |->
                    IF IsRetained(es[q]) /\ now - es[q].at >= RetainFor
                    THEN NoEntry ELSE es[q]]
        kept == {q \in Queries : IsRetained(fresh[q])}
        excess == IF Cardinality(kept) > MaxRetained
                  THEN Cardinality(kept) - MaxRetained ELSE 0
    IN  {[q \in Queries |-> IF q \in out THEN NoEntry ELSE fresh[q]] :
            out \in {o \in SUBSET kept :
                        /\ Cardinality(o) = excess
                        /\ \A q \in o, r \in kept \ o : fresh[q].at <= fresh[r].at}}

Entry == [kind : {"none", "running", "pending", "finished"}, at : 0 .. MaxTime]

TaskState == [at : {"idle", "connect", "count", "data", "finish", "stop", "drop", "done"},
              query : Queries \cup {Nil}, session : Sessions \cup {Nil},
              result : {Nil, "ok", "err"}, doomed : BOOLEAN]

SessionState == [state : {"unused", "pooled", "leased", "closed"},
                 runs : Attempts \cup {Nil}]

TypeOK ==
    /\ engine \in Engines
    /\ entries \in [Queries -> Entry]
    /\ requested \in [Attempts -> BOOLEAN]
    /\ task \in [Attempts -> TaskState]
    /\ stop \in [Attempts -> {"none", "sent", "late", "over"}]
    /\ session \in [Sessions -> SessionState]
    /\ answered \subseteq Callers
    /\ now \in 0 .. MaxTime

Init ==
    /\ engine \in Engines
    /\ entries = [q \in Queries |-> NoEntry]
    /\ requested = [a \in Attempts |-> FALSE]
    /\ task = [a \in Attempts |-> [at |-> "idle", query |-> Nil, session |-> Nil,
                                   result |-> Nil, doomed |-> FALSE]]
    /\ stop = [a \in Attempts |-> "none"]
    /\ session = [s \in Sessions |-> [state |-> "unused", runs |-> Nil]]
    /\ answered = {}
    /\ now = 0

Goto(a, where) == task' = [task EXCEPT ![a].at = where]
Ends(a, where) == task' = [task EXCEPT ![a].at = where, ![a].result = "err"]

\* A tombstone raises the flag before the query begins.
Cancelled(entry) == entry.kind = "pending"

\* register, at the start of query_table_data and query_table_count.
Register(a, q) ==
    /\ task[a].at = "idle"
    /\ \E es \in Prune(entries) :
          IF es[q].kind \in {"running", "finished"}
          THEN /\ Ends(a, "done")
               /\ entries' = es
               /\ UNCHANGED requested
          ELSE /\ task' = [task EXCEPT ![a].at = "connect", ![a].query = q,
                                       ![a].doomed = es[q].kind = "pending"]
               /\ requested' = [requested EXCEPT ![a] = Cancelled(es[q])]
               /\ entries' = [es EXCEPT ![q] = Running]
    /\ UNCHANGED <<engine, stop, session, answered, now>>

\* cancel_table_query: raise the flag, or leave a tombstone.
Cancel(c, q) ==
    /\ c \notin answered
    /\ answered' = answered \cup {c}
    /\ \E es \in Prune(entries) :
          /\ requested' = [a \in Attempts |->
                \/ requested[a]
                \/ /\ es[q].kind = "running"
                   /\ task[a].query = q
                   /\ task[a].at \notin {"idle", "done"}]
          /\ entries' \in IF es[q].kind = "none"
                          THEN Prune([es EXCEPT ![q] = Retained("pending")]) ELSE {es}
    /\ UNCHANGED <<engine, task, stop, session, now>>

\* A pool handle and a session, both under run.
Connect(a) ==
    /\ task[a].at = "connect"
    /\ ~requested[a]
    /\ \E s \in Sessions :
          /\ session[s].state \in {"unused", "pooled"}
          /\ session' = [session EXCEPT ![s] = [state |-> "leased", runs |-> a]]
          /\ task' = [task EXCEPT ![a].at = "count", ![a].session = s]
    /\ UNCHANGED <<engine, entries, requested, stop, answered, now>>

ConnectFails(a) ==
    /\ task[a].at = "connect"
    /\ Ends(a, "drop")
    /\ UNCHANGED <<engine, entries, requested, stop, session, answered, now>>

Answered(a) == session[task[a].session].runs # a

\* The count is read and the page is requested on the same session.
CountThenData(a) ==
    /\ task[a].at = "count"
    /\ Answered(a)
    /\ ~requested[a]
    /\ session' = [session EXCEPT ![task[a].session].runs = a]
    /\ Goto(a, "data")
    /\ UNCHANGED <<engine, entries, requested, stop, answered, now>>

\* run returns: the last statement's answer, unless the flag is up.
RunReturns(a) ==
    /\ task[a].at \in {"count", "data"}
    /\ Answered(a)
    /\ \E r \in {"ok", "err"} :
          task' = [task EXCEPT ![a].at = "finish",
                               ![a].result = IF requested[a] THEN "err" ELSE r]
    /\ UNCHANGED <<engine, entries, requested, stop, session, answered, now>>

\* The flag was raised, or a row broke the result budget (SQLite checks the budget
\* in the thread that runs the statement).
Abandons(a) ==
    \/ requested[a]
    \/ task[a].at = "data" /\ engine # "sqlite"

\* run returns although the statement goes on.
RunAbandoned(a) ==
    /\ task[a].at \in {"count", "data"}
    /\ Abandons(a)
    /\ Ends(a, "finish")
    /\ UNCHANGED <<engine, entries, requested, stop, session, answered, now>>

\* Only an abandoned interact future leaves the SQLite thread behind.
Interrupts(a) == engine = "sqlite" /\ ~Answered(a)

\* Which engines send a request to stop the statement.
SendsStop(a) ==
    CASE engine = "mysql" -> task[a].result = "err" /\ requested[a]
      [] engine = "postgres" -> task[a].result = "err"
      [] engine = "clickhouse" -> requested[a]
      [] engine = "sqlite" -> Interrupts(a)
      [] engine = "sqlserver" -> FALSE

\* A session goes back to the pool only if nothing is left on it.
KeepsSession(a) ==
    \/ task[a].result = "ok"
    \/ engine \in {"sqlite", "clickhouse"}

\* The stop request is answered or has timed out; SQLite waits for its thread.
MayLeave(a) ==
    IF engine = "sqlite" THEN Answered(a) ELSE stop[a] # "sent"

BeginStop(a) ==
    /\ task[a].at = "finish"
    /\ SendsStop(a)
    /\ stop' = [stop EXCEPT ![a] = "sent"]
    /\ Goto(a, "stop")
    /\ UNCHANGED <<engine, entries, requested, session, answered, now>>

\* The server stops what the session executes; ClickHouse stops the query itself.
StopArrives(a) ==
    /\ stop[a] \in {"sent", "late"}
    /\ stop' = [stop EXCEPT ![a] = "over"]
    /\ session' = [session EXCEPT ![task[a].session].runs =
                     IF engine = "clickhouse" /\ @ # a THEN @ ELSE Nil]
    /\ UNCHANGED <<engine, entries, requested, task, answered, now>>

\* The two seconds are over; what was sent may still arrive.
StopTimesOut(a) ==
    /\ task[a].at = "stop"
    /\ engine # "sqlite"
    /\ stop[a] = "sent"
    /\ stop' = [stop EXCEPT ![a] = "late"]
    /\ UNCHANGED <<engine, entries, requested, task, session, answered, now>>

\* finish_*_table_query: return the session or give it up.
Finish(a) ==
    /\ \/ task[a].at = "finish" /\ ~SendsStop(a)
       \/ task[a].at = "stop" /\ MayLeave(a)
    /\ session' = [session EXCEPT ![task[a].session].state =
                     IF KeepsSession(a) THEN "pooled" ELSE "closed"]
    /\ task' = [task EXCEPT ![a].at = "drop",
                            ![a].result = IF requested[a] /\ engine = "sqlite"
                                          THEN "err" ELSE @]
    /\ UNCHANGED <<engine, entries, requested, stop, answered, now>>

\* Drop of the guard writes the entry without looking at it.
DropGuard(a) ==
    /\ task[a].at = "drop"
    /\ Goto(a, "done")
    /\ entries' \in Prune([entries EXCEPT ![task[a].query] = Retained("finished")])
    /\ UNCHANGED <<engine, requested, stop, session, answered, now>>

\* The server or the SQLite thread finishes a statement.  An interrupt of SQLite
\* is spent with the statement.
StatementEnds(s) ==
    /\ session[s].runs # Nil
    /\ session' = [session EXCEPT ![s].runs = Nil]
    /\ stop' = [a \in Attempts |-> IF engine = "sqlite" /\ a = session[s].runs
                                       /\ stop[a] = "sent" THEN "over" ELSE stop[a]]
    /\ UNCHANGED <<engine, entries, requested, task, answered, now>>

Tick ==
    /\ now < MaxTime
    /\ now' = now + 1
    /\ UNCHANGED <<engine, entries, requested, task, stop, session, answered>>

TaskStep(a) ==
    \/ ConnectFails(a)
    \/ CountThenData(a)
    \/ RunReturns(a)
    \/ RunAbandoned(a)
    \/ BeginStop(a)
    \/ StopTimesOut(a)
    \/ Finish(a)
    \/ DropGuard(a)

Next ==
    \/ \E a \in Attempts, q \in Queries : Register(a, q)
    \/ \E c \in Callers, q \in Queries : Cancel(c, q)
    \/ \E a \in Attempts : Connect(a) \/ TaskStep(a) \/ StopArrives(a)
    \/ \E s \in Sessions : StatementEnds(s)
    \/ Tick

Spec == Init /\ [][Next]_vars

\* Tokio polls the commands, and SQLite's progress handler stops an interrupted
\* statement.  No server has to finish a statement or to obey a stop request.
FairSpec ==
    /\ Spec
    /\ \A a \in Attempts : WF_vars(TaskStep(a))
                           /\ WF_vars(engine = "sqlite" /\ StopArrives(a))

-----------------------------------------------------------------------------
(* Properties *)

\* A session in the pool executes nothing: no engine returns a session with an
\* abandoned statement or unread rows (data.rs:572, postgres.rs:419,
\* sqlserver.rs:614, sqlite.rs:1420).  ClickHouse has no sessions.
PooledSessionQuiet ==
    engine # "clickhouse" =>
        \A s \in Sessions : session[s].state = "pooled" => session[s].runs = Nil

\* A stop request, a late one included, can only hit the statement it was sent
\* for: its session is still held, or given up for good (data.rs:578-594).
StopStaysWithQuery ==
    \A a \in Attempts : stop[a] \in {"sent", "late"} =>
        LET s == task[a].session IN
        \/ engine = "clickhouse"
        \/ session[s].state = "closed"
        \/ task[a].at = "stop" /\ session[s].runs \in {a, Nil}

\* A query that arrives after its cancellation never gets a session
\* (table_query.rs:81, 96).
CancelTrue ==
    \A a \in Attempts : task[a].doomed => task[a].session = Nil /\ task[a].result # "ok"

\* One id is never loaded twice at once, although Drop overwrites the entry of its
\* key without looking at it (table_query.rs:77, 144).
OneRunPerId ==
    \A a, b \in Attempts :
        {task[a].at, task[b].at} \cap {"idle", "done"} = {}
            /\ task[a].query = task[b].query => a = b

\* A cancelled load ends, whatever the server does (data.rs:584, sqlite.rs:1420).
CancelledEnds ==
    \A a \in Attempts : requested[a] ~> task[a].at = "done"
=============================================================================
