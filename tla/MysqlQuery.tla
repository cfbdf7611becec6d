----------------------------- MODULE MysqlQuery -----------------------------
(***************************************************************************)
(* Cancellable SQL executions on MySQL: the query registry                 *)
(* (db/mysql_query.rs), the task that execute_sql spawns for an execution  *)
(* id and cancel_query (commands/data.rs), with the pool's sessions and    *)
(* the KILL QUERY that an auxiliary connection sends.                      *)
(*                                                                         *)
(* An attempt is one execute_sql call: it owns one Control and one guard.  *)
(* The entries lock and the phase lock are separate in the code; between   *)
(* the two lock sections of a cancel anything may happen.                  *)
(***************************************************************************)
EXTENDS Naturals, FiniteSets

CONSTANTS
    Queries,      \* (connection, execution id) pairs
    Attempts,     \* execute_sql calls
    Callers,      \* cancel_query calls
    Sessions,     \* physical MySQL connections; a thread id is not used again
    RetainFor,    \* RETAIN_FOR       (60 seconds in the code)
    MaxRetained,  \* MAX_RETAINED     (256 in the code)
    MaxTime,      \* bound on the clock (model checking only)
    Nil

MysqlQueryConstantsOK ==
    /\ RetainFor \in Nat \ {0}
    /\ MaxRetained \in Nat
    /\ MaxTime \in Nat
    /\ IsFiniteSet(Queries)
    /\ Nil \notin Queries \cup Attempts \cup Sessions
    /\ Nil \notin {"ok", "err", "true", "false", "unconfirmed"}

VARIABLES
    entries,  \* the registry: the entry of every key
    ctl,      \* Control of every attempt: phase, requested, outcome
    task,     \* the spawned execution task of every attempt
    caller,   \* the cancel_query calls
    kill,     \* the KILL QUERY of every attempt
    session,  \* the physical connections
    now

vars == <<entries, ctl, task, caller, kill, session, now>>

NoEntry == [kind |-> "none", attempt |-> Nil, at |-> 0]
Active(a) == [kind |-> "active", attempt |-> a, at |-> 0]
Retained(kind) == [kind |-> kind, attempt |-> Nil, at |-> now]
IsRetained(e) == e.kind \in {"pending", "finished"}

\* Faulty: the age decides for every entry, a running one has the age zero.
FreshAll(es) ==
    [q \in Queries |-> IF now - es[q].at >= RetainFor THEN NoEntry ELSE es[q]]

Fresh(es) ==
    [q \in Queries |->
        IF IsRetained(es[q]) /\ now - es[q].at >= RetainFor THEN NoEntry ELSE es[q]]

\* What prune may leave of the entries es: no expired entry, and of the retained
\* ones the MaxRetained newest (entries of one instant have no order).
Prune(es) ==
    LET fresh == Fresh(es)
        kept == {q \in Queries : IsRetained(fresh[q])}
        excess == IF Cardinality(kept) > MaxRetained
                  THEN Cardinality(kept) - MaxRetained ELSE 0
    IN  {[q \in Queries |-> IF q \in out THEN NoEntry ELSE fresh[q]] :
            out \in {o \in SUBSET kept :
                        /\ Cardinality(o) = excess
                        /\ \A q \in o, r \in kept \ o : fresh[q].at <= fresh[r].at}}

Control(cancelled) ==
    [phase |-> IF cancelled THEN "cancelling" ELSE "waiting",
     requested |-> cancelled,
     outcome |-> IF cancelled THEN "ok" ELSE Nil]

Entry == [kind : {"none", "active", "pending", "finished"},
          attempt : Attempts \cup {Nil}, at : 0 .. MaxTime]

ControlState == [phase : {"waiting", "running", "cancelling", "finished"},
                 requested : BOOLEAN, outcome : {Nil, "ok", "unconfirmed"}]

TaskState == [at : {"idle", "connect", "attach", "use", "run", "settle", "await",
                    "close", "drop", "done"},
              query : Queries \cup {Nil}, session : Sessions \cup {Nil},
              result : {Nil, "ok", "err"}, born : 0 .. MaxTime]

CallerState == [at : {"idle", "found", "await", "done"},
                query : Queries \cup {Nil}, attempt : Attempts \cup {Nil},
                answer : {Nil, "true", "false", "err"}, since : 0 .. MaxTime]

SessionState == [state : {"unused", "pooled", "leased", "closed"},
                 runs : Attempts \cup {Nil}]

TypeOK ==
    /\ entries \in [Queries -> Entry]
    /\ ctl \in [Attempts -> ControlState]
    /\ task \in [Attempts -> TaskState]
    /\ caller \in [Callers -> CallerState]
    /\ kill \in [Attempts -> {"none", "connect", "sent", "late", "over"}]
    /\ session \in [Sessions -> SessionState]
    /\ now \in 0 .. MaxTime

Init ==
    /\ entries = [q \in Queries |-> NoEntry]
    /\ ctl = [a \in Attempts |-> Control(FALSE)]
    /\ task = [a \in Attempts |-> [at |-> "idle", query |-> Nil, session |-> Nil,
                                   result |-> Nil, born |-> 0]]
    /\ caller = [c \in Callers |-> [at |-> "idle", query |-> Nil, attempt |-> Nil,
                                    answer |-> Nil, since |-> 0]]
    /\ kill = [a \in Attempts |-> "none"]
    /\ session = [s \in Sessions |-> [state |-> "unused", runs |-> Nil]]
    /\ now = 0

-----------------------------------------------------------------------------
(* The execution: execute_sql and the task it spawns *)

\* Faulty: an id is refused only while it runs, so a pending cancel is lost.
RegisterForgets(a, q) ==
    /\ task[a].at = "idle"
    /\ entries' \in {[es EXCEPT ![q] = Active(a)] :
                        es \in {p \in Prune(entries) : p[q].kind # "active"}}
    /\ ctl' = [ctl EXCEPT ![a] = Control(FALSE)]
    /\ task' = [task EXCEPT ![a].at = "connect", ![a].query = q, ![a].born = now]
    /\ UNCHANGED <<caller, kill, session, now>>

\* register: a used id is refused, a tombstone starts the control as cancelled.
Register(a, q) ==
    /\ task[a].at = "idle"
    /\ task' = [task EXCEPT ![a].at = "connect", ![a].query = q, ![a].born = now]
    /\ \E es \in Prune(entries) :
          /\ es[q].kind \in {"none", "pending"}
          /\ entries' = [es EXCEPT ![q] = Active(a)]
          /\ ctl' = [ctl EXCEPT ![a] = Control(es[q].kind = "pending")]
    /\ UNCHANGED <<caller, kill, session, now>>

RegisterRefused(a, q) ==
    /\ task[a].at = "idle"
    /\ entries' \in {es \in Prune(entries) : es[q].kind \in {"active", "finished"}}
    /\ task' = [task EXCEPT ![a].at = "done", ![a].result = "err"]
    /\ UNCHANGED <<ctl, caller, kill, session, now>>

\* guard.run(get_conn_with_retry): a pooled session, or a new one.
Connect(a) ==
    /\ task[a].at = "connect"
    /\ ~ctl[a].requested
    /\ \E s \in Sessions :
          /\ session[s].state \in {"unused", "pooled"}
          /\ session' = [session EXCEPT ![s].state = "leased"]
          /\ task' = [task EXCEPT ![a].at = "attach", ![a].session = s]
    /\ UNCHANGED <<entries, ctl, caller, kill, now>>

\* No connection: cancelled while waiting for the pool, or the pool fails.
ConnectFails(a) ==
    /\ task[a].at = "connect"
    /\ task' = [task EXCEPT ![a].at = "drop", ![a].result = "err"]
    /\ UNCHANGED <<entries, ctl, caller, kill, session, now>>

\* attach_connection: from here on a cancel sends a KILL.
Attach(a) ==
    /\ task[a].at = "attach"
    /\ IF ctl[a].phase = "waiting"
       THEN /\ ctl' = [ctl EXCEPT ![a].phase = "running"]
            /\ task' = [task EXCEPT ![a].at = "use"]
       ELSE /\ task' = [task EXCEPT ![a].at = "settle", ![a].result = "err"]
            /\ UNCHANGED ctl
    /\ UNCHANGED <<entries, caller, kill, session, now>>

\* use_database_if_set succeeded and run_sql_on_conn sends the user's statement.
SendSql(a) ==
    /\ task[a].at = "use"
    /\ ~ctl[a].requested
    /\ session' = [session EXCEPT ![task[a].session].runs = a]
    /\ task' = [task EXCEPT ![a].at = "run"]
    /\ UNCHANGED <<entries, ctl, caller, kill, now>>

UseFails(a) ==
    /\ task[a].at = "use"
    /\ task' = [task EXCEPT ![a].at = "settle", ![a].result = "err"]
    /\ UNCHANGED <<entries, ctl, caller, kill, session, now>>

\* The server answers.  A success that arrives after a request is a cancellation.
RunReturns(a) ==
    /\ task[a].at = "run"
    /\ session[task[a].session].runs # a
    /\ \E r \in {"ok", "err"} :
          task' = [task EXCEPT ![a].at = "settle",
                     ![a].result = IF ctl[a].requested THEN "err" ELSE r]
    /\ UNCHANGED <<entries, ctl, caller, kill, session, now>>

\* The request wins the select; the statement may still run on the server.
RunCancelled(a) ==
    /\ task[a].at = "run"
    /\ ctl[a].requested
    /\ task' = [task EXCEPT ![a].at = "settle", ![a].result = "err"]
    /\ UNCHANGED <<entries, ctl, caller, kill, session, now>>

\* settle: completion and cancellation are arbitrated under the phase lock.
Settle(a) ==
    /\ task[a].at = "settle"
    /\ IF ctl[a].phase = "cancelling"
       THEN task' = [task EXCEPT ![a].at = "await"] /\ UNCHANGED ctl
       ELSE /\ ctl' = [ctl EXCEPT ![a].phase = "finished"]
            /\ task' = [task EXCEPT ![a].at = "close"]
    /\ UNCHANGED <<entries, caller, kill, session, now>>

AwaitOutcome(a) ==
    /\ task[a].at = "await"
    /\ ctl[a].outcome # Nil
    /\ task' = [task EXCEPT ![a].at = "close", ![a].result = "err"]
    /\ UNCHANGED <<entries, ctl, caller, kill, session, now>>

\* Faulty: only a session whose statement failed by itself is given up.
FinishReuses(a) ==
    /\ task[a].at = "close"
    /\ session' = [session EXCEPT ![task[a].session].state =
                     IF task[a].result = "err" /\ ~ctl[a].requested
                     THEN "closed" ELSE "pooled"]
    /\ ctl' = [ctl EXCEPT ![a].phase = "finished"]
    /\ task' = [task EXCEPT ![a].at = "drop"]
    /\ UNCHANGED <<entries, caller, kill, now>>

\* finish_connection: a failed or cancelled execution gives its session up, any
\* other one returns it to the pool.
Finish(a) ==
    /\ task[a].at = "close"
    /\ session' = [session EXCEPT ![task[a].session].state =
                     IF task[a].result = "err" \/ ctl[a].requested
                     THEN "closed" ELSE "pooled"]
    /\ ctl' = [ctl EXCEPT ![a].phase = "finished"]
    /\ task' = [task EXCEPT ![a].at = "drop"]
    /\ UNCHANGED <<entries, caller, kill, now>>

\* Drop of the guard: the id stays used for a while.
DropGuard(a) ==
    /\ task[a].at = "drop"
    /\ ctl' = [ctl EXCEPT ![a].phase = "finished"]
    /\ task' = [task EXCEPT ![a].at = "done"]
    /\ LET q == task[a].query IN
          entries' \in IF entries[q] = Active(a)
                       THEN Prune([entries EXCEPT ![q] = Retained("finished")])
                       ELSE {entries}
    /\ UNCHANGED <<caller, kill, session, now>>

-----------------------------------------------------------------------------
(* The cancellation: cancel_query *)

Answer(c, q, a) == [caller EXCEPT ![c].at = "done", ![c].query = q, ![c].answer = a]

\* The entries lock section of cancel.
Cancel(c, q) ==
    /\ caller[c].at = "idle"
    /\ \E es \in Prune(entries) :
          CASE es[q].kind = "active" ->
                 /\ caller' = [caller EXCEPT ![c].at = "found", ![c].query = q,
                                             ![c].attempt = es[q].attempt]
                 /\ entries' = es
            [] es[q].kind = "finished" ->
                 caller' = Answer(c, q, "false") /\ entries' = es
            [] es[q].kind = "pending" ->
                 /\ caller' = [Answer(c, q, "true") EXCEPT ![c].since = es[q].at]
                 /\ entries' = es
            [] es[q].kind = "none" ->
                 /\ caller' = [Answer(c, q, "true") EXCEPT ![c].since = now]
                 /\ entries' \in Prune([es EXCEPT ![q] = Retained("pending")])
    /\ UNCHANGED <<ctl, task, kill, session, now>>

\* Faulty: a cancel that finds the execution waiting publishes no outcome.
CancelFoundMute(c) ==
    /\ caller[c].at = "found"
    /\ LET a == caller[c].attempt IN
          IF ctl[a].phase = "finished"
          THEN caller' = Answer(c, caller[c].query, "false") /\ UNCHANGED <<ctl, kill>>
          ELSE /\ caller' = [caller EXCEPT ![c].at = "await"]
               /\ ctl' = [ctl EXCEPT ![a].phase = "cancelling", ![a].requested = TRUE]
               /\ kill' = [kill EXCEPT ![a] =
                             IF ctl[a].phase = "running" THEN "connect" ELSE @]
    /\ UNCHANGED <<entries, task, session, now>>

\* The phase lock section of cancel.
CancelFound(c) ==
    /\ caller[c].at = "found"
    /\ LET a == caller[c].attempt IN
          CASE ctl[a].phase = "finished" ->
                 caller' = Answer(c, caller[c].query, "false") /\ UNCHANGED <<ctl, kill>>
            [] ctl[a].phase = "cancelling" ->
                 caller' = [caller EXCEPT ![c].at = "await"] /\ UNCHANGED <<ctl, kill>>
            [] ctl[a].phase = "waiting" ->
                 /\ caller' = [caller EXCEPT ![c].at = "await"]
                 /\ ctl' = [ctl EXCEPT ![a] = Control(TRUE)]
                 /\ UNCHANGED kill
            [] ctl[a].phase = "running" ->
                 /\ caller' = [caller EXCEPT ![c].at = "await"]
                 /\ ctl' = [ctl EXCEPT ![a].phase = "cancelling", ![a].requested = TRUE]
                 /\ kill' = [kill EXCEPT ![a] = "connect"]
    /\ UNCHANGED <<entries, task, session, now>>

CancelReturns(c) ==
    /\ caller[c].at = "await"
    /\ LET o == ctl[caller[c].attempt].outcome IN
          /\ o # Nil
          /\ caller' = Answer(c, caller[c].query, IF o = "ok" THEN "true" ELSE "err")
    /\ UNCHANGED <<entries, ctl, task, kill, session, now>>

\* kill_mysql_query opens its connection and sends the statement.
SendKill(a) ==
    /\ kill[a] = "connect"
    /\ kill' = [kill EXCEPT ![a] = "sent"]
    /\ UNCHANGED <<entries, ctl, task, caller, session, now>>

\* The server kills whatever the session runs now.
KillArrives(a) ==
    /\ kill[a] \in {"sent", "late"}
    /\ kill' = [kill EXCEPT ![a] = "over"]
    /\ session' = [session EXCEPT ![task[a].session].runs = Nil]
    /\ ctl' = [ctl EXCEPT ![a].outcome =
                 IF kill[a] = "sent" THEN "ok" ELSE @]
    /\ UNCHANGED <<entries, task, caller, now>>

\* Failure, panic or time-out of the spawned cancellation.  A statement that was
\* sent may still arrive.
KillFails(a) ==
    /\ kill[a] \in {"connect", "sent"}
    /\ kill' = [kill EXCEPT ![a] = IF @ = "sent" THEN "late" ELSE "over"]
    /\ ctl' = [ctl EXCEPT ![a].outcome = "unconfirmed"]
    /\ UNCHANGED <<entries, task, caller, session, now>>

\* The server finishes a statement.
StatementEnds(s) ==
    /\ session[s].runs # Nil
    /\ session' = [session EXCEPT ![s].runs = Nil]
    /\ UNCHANGED <<entries, ctl, task, caller, kill, now>>

Tick ==
    /\ now < MaxTime
    /\ now' = now + 1
    /\ UNCHANGED <<entries, ctl, task, caller, kill, session>>

-----------------------------------------------------------------------------
TaskStep(a) ==
    \/ ConnectFails(a)
    \/ Attach(a)
    \/ SendSql(a)
    \/ UseFails(a)
    \/ RunReturns(a)
    \/ RunCancelled(a)
    \/ Settle(a)
    \/ AwaitOutcome(a)
    \/ Finish(a)
    \/ DropGuard(a)

Next ==
    \/ \E a \in Attempts, q \in Queries : Register(a, q) \/ RegisterRefused(a, q)
    \/ \E a \in Attempts : Connect(a) \/ TaskStep(a)
    \/ \E c \in Callers, q \in Queries : Cancel(c, q)
    \/ \E c \in Callers : CancelFound(c) \/ CancelReturns(c)
    \/ \E a \in Attempts : SendKill(a) \/ KillArrives(a) \/ KillFails(a)
    \/ \E s \in Sessions : StatementEnds(s)
    \/ Tick

\* Tokio polls every spawned task and every command, and the spawned cancellation
\* has a time limit.  Neither a user's statement nor a KILL need ever end.
Fairness ==
    /\ \A a \in Attempts : WF_vars(TaskStep(a)) /\ WF_vars(KillFails(a))
    /\ \A c \in Callers : WF_vars(CancelFound(c)) /\ WF_vars(CancelReturns(c))

Spec == Init /\ [][Next]_vars
FairSpec == Spec /\ Fairness

-----------------------------------------------------------------------------
(* Properties *)

\* A KILL QUERY on its way, one whose time-out has passed included, aims at a
\* session that its own execution still holds or that was given up: it never hits
\* the next statement of a pooled session (mysql_query.rs:232, 275-297).
StopStaysWithQuery ==
    \A a \in Attempts : kill[a] \in {"connect", "sent", "late"} =>
        LET s == task[a].session IN
        /\ s # Nil
        /\ session[s].state # "pooled"
        /\ \A b \in Attempts \ {a} :
              task[b].session = s /\ task[b].at \notin {"drop", "done"} => session[s].state = "closed"

\* Two calls with one execution id never run at the same time, although entries
\* are pruned and finished ids expire (mysql_query.rs:85-90, 307-319).
OneRunPerId ==
    \A a, b \in Attempts :
        /\ a # b
        /\ task[a].query = task[b].query
        /\ task[a].at \notin {"idle", "done"}
        /\ task[b].at \notin {"idle", "done"}
        => FALSE

\* A cancel that was answered with true is effective: no execution of its id that
\* was registered before the tombstone expired reports success
\* (mysql_query.rs:102-118, 216-221, 280-287).
CancelTrue ==
    \A c \in Callers, a \in Attempts :
        /\ caller[c].answer = "true"
        /\ \/ caller[c].attempt = a
           \/ /\ caller[c].attempt = Nil
              /\ task[a].query = caller[c].query
              /\ task[a].born >= caller[c].since
              /\ task[a].born < caller[c].since + RetainFor
        => ~(task[a].at = "done" /\ task[a].result = "ok")

\* Tombstones and finished ids are bounded whatever the callers do
\* (mysql_query.rs:166-173).
RetainedBounded ==
    Cardinality({q \in Queries : IsRetained(entries[q])}) <= MaxRetained

\* Every cancel is answered, whether the KILL arrives, fails or is lost
\* (mysql_query.rs:134-150).
CancelAnswered ==
    \A c \in Callers : caller[c].at \in {"found", "await"} ~> caller[c].at = "done"

\* A cancelled execution ends and frees its id, even if the server never reacts:
\* the two sides do not wait for each other (mysql_query.rs:228-239).
CancelledEnds ==
    \A a \in Attempts :
        ctl[a].requested /\ task[a].at # "idle" ~> task[a].at = "done"
=============================================================================
