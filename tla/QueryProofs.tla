-------------------------- MODULE QueryProofs -------------------------------
(***************************************************************************)
(* Proofs about the two query registries, MysqlQuery and TableQuery, for   *)
(* any number of ids, executions, loads, cancels and sessions and any      *)
(* limits.                                                                 *)
(*                                                                         *)
(* None of the properties is inductive.  What carries them is ownership:   *)
(* a live execution owns the active entry of its id and, from Connect to   *)
(* Finish, a leased session that nobody else holds; a KILL exists only for *)
(* an execution with the requested flag, and that flag makes Finish give   *)
(* the session up for good.                                                *)
(*                                                                         *)
(* For the page loads of all five engines it is ownership too: a live load *)
(* is the only one of its id, and from Connect to Finish it is the only    *)
(* holder of a leased session, on which nothing but its own statement      *)
(* executes.  What each engine does to stop a statement decides whether    *)
(* the session may be pooled again.                                        *)
(***************************************************************************)
EXTENDS MysqlQuery, FiniteSetTheorems, TLAPS

VARIABLES engine, requested, stop, answered

\* The page loads: the registry, loads, sessions and clock of TableQuery are not those of
\* MysqlQuery, they only have the same names.
Pages == INSTANCE TableQuery

-----------------------------------------------------------------------------
(* The inductive invariant *)

Live(a) == task[a].at \notin {"idle", "done"}
Holds(a) == task[a].at \in {"attach", "use", "run", "settle", "await", "close"}
OnItsWay(a) == kill[a] \in {"connect", "sent", "late"}

\* A live execution owns its id.
OwnsId(a) ==
    /\ task[a].at = "idle" => task[a].query = Nil
    /\ Live(a) => task[a].query \in Queries /\ entries[task[a].query] = Active(a)

\* Between Connect and Finish it owns a session.
OwnsSession(a) ==
    /\ task[a].at \in {"idle", "connect"} => task[a].session = Nil
    /\ Holds(a) => /\ task[a].session \in Sessions
                   /\ session[task[a].session].state = "leased"

\* A KILL was requested, and its session is held or closed.
KillAimed(a) ==
    /\ kill[a] # "none" => /\ ctl[a].requested
                           /\ task[a].at \notin {"idle", "connect"}
                           /\ task[a].session \in Sessions
    /\ OnItsWay(a) /\ ~Holds(a) => session[task[a].session].state = "closed"

\* How the phase of the control follows the place of the task.
ControlOK(a) ==
    /\ ctl[a].phase \in {"waiting", "running"} => ~ctl[a].requested
    /\ ctl[a].phase = "cancelling" => ctl[a].requested
    /\ ctl[a].phase = "running" => task[a].at \in {"use", "run", "settle"}
    /\ ctl[a].phase = "finished" => task[a].at \in {"close", "drop", "done"}
    /\ task[a].at = "idle" => ctl[a].phase = "waiting"
    /\ task[a].at = "await" => ctl[a].phase = "cancelling"

\* A success is reported only if the phase was finished before any request.
ResultOK(a) ==
    task[a].result = "ok" =>
        \/ task[a].at \in {"settle", "await"}
        \/ /\ task[a].at \in {"close", "drop", "done"}
           /\ ctl[a].phase = "finished"
           /\ ~ctl[a].requested

AttemptOK(a) ==
    OwnsId(a) /\ OwnsSession(a) /\ KillAimed(a) /\ ControlOK(a) /\ ResultOK(a)

SessionsApart ==
    \A a, b \in Attempts :
        Holds(a) /\ Holds(b) /\ task[a].session = task[b].session => a = b

EntriesOwned ==
    \A q \in Queries : entries[q].kind = "active" =>
        /\ entries[q].attempt \in Attempts
        /\ Live(entries[q].attempt)
        /\ task[entries[q].attempt].query = q

\* A cancel waits only for an execution that was started, and for its outcome only
\* after the request was made.
CallerOK(c) ==
    /\ caller[c].at = "idle" => caller[c].attempt = Nil /\ caller[c].answer = Nil
    /\ caller[c].at \in {"found", "await"} =>
          caller[c].attempt \in Attempts /\ caller[c].answer = Nil
    /\ caller[c].attempt # Nil => task[caller[c].attempt].at # "idle"
    /\ caller[c].at = "await" => ctl[caller[c].attempt].requested
    /\ caller[c].answer = "true" /\ caller[c].attempt # Nil =>
          ctl[caller[c].attempt].requested

MysqlInv ==
    /\ MysqlQueryConstantsOK
    /\ TypeOK
    /\ \A a \in Attempts : AttemptOK(a)
    /\ SessionsApart
    /\ EntriesOwned
    /\ \A c \in Callers : CallerOK(c)
    /\ RetainedBounded

-----------------------------------------------------------------------------
(* What prune does *)

\* A pruned entry is the old one, or gone; what runs is never pruned.
LEMMA PruneFacts ==
    ASSUME MysqlQueryConstantsOK, NEW e \in [Queries -> Entry], NEW es \in Prune(e)
    PROVE  /\ es \in [Queries -> Entry]
           /\ \A q \in Queries : \/ es[q] = e[q]
                                 \/ es[q] = NoEntry /\ IsRetained(e[q])
  <1> DEFINE fresh == Fresh(e)
             kept == {q \in Queries : IsRetained(fresh[q])}
  <1>1. PICK out \in SUBSET kept :
              es = [q \in Queries |-> IF q \in out THEN NoEntry ELSE fresh[q]]
    BY DEF Prune
  <1>2. NoEntry \in Entry /\ ~IsRetained(NoEntry)
    BY DEF MysqlQueryConstantsOK, NoEntry, Entry, IsRetained
  <1>3. /\ fresh \in [Queries -> Entry]
        /\ \A q \in Queries : \/ fresh[q] = e[q]
                              \/ fresh[q] = NoEntry /\ IsRetained(e[q])
    BY <1>2 DEF Fresh
  <1> HIDE DEF fresh
  <1>4. es \in [Queries -> Entry]
    BY <1>1, <1>2, <1>3
  <1>5. ASSUME NEW q \in Queries
        PROVE  \/ es[q] = e[q]
               \/ es[q] = NoEntry /\ IsRetained(e[q])
    <2>1. CASE q \in out
      <3>1. es[q] = NoEntry /\ IsRetained(fresh[q])
        BY <1>1, <2>1
      <3> QED
        BY <1>2, <1>3, <3>1
    <2>2. CASE q \notin out
      BY <1>1, <1>3, <2>2
    <2> QED
      BY <2>1, <2>2
  <1> QED
    BY <1>4, <1>5

\* What is left fits.
LEMMA PruneBounds ==
    ASSUME MysqlQueryConstantsOK, NEW e \in [Queries -> Entry], NEW es \in Prune(e)
    PROVE  Cardinality({q \in Queries : IsRetained(es[q])}) <= MaxRetained
  <1> DEFINE fresh == Fresh(e)
             kept == {q \in Queries : IsRetained(fresh[q])}
             n == Cardinality(kept)
             excess == IF n > MaxRetained THEN n - MaxRetained ELSE 0
             left == {q \in Queries : IsRetained(es[q])}
  <1>1. PICK out \in SUBSET kept :
              /\ Cardinality(out) = excess
              /\ es = [q \in Queries |-> IF q \in out THEN NoEntry ELSE fresh[q]]
    BY DEF Prune
  <1>2. left = kept \ out
    BY <1>1 DEF IsRetained, NoEntry
  <1>3. IsFiniteSet(kept) /\ n \in Nat
    BY FS_Subset, FS_CardinalityType DEF MysqlQueryConstantsOK
  <1>4. IsFiniteSet(out)
    BY <1>3, FS_Subset
  <1>5. kept \cap out = out
    OBVIOUS
  <1>6. Cardinality(left) = n - Cardinality(out)
    BY <1>2, <1>3, <1>5, FS_Difference
  <1>7. MaxRetained \in Nat
    BY DEF MysqlQueryConstantsOK
  <1> QED
    BY <1>1, <1>3, <1>6, <1>7

-----------------------------------------------------------------------------
(* A step for one execution leaves the others alone *)

\* Nothing of another execution changes, no session but a free one or its own
\* changes hands, and an entry that changes was or becomes its own.
Local(a) ==
    /\ \A b \in Attempts \ {a} :
          task'[b] = task[b] /\ ctl'[b] = ctl[b] /\ kill'[b] = kill[b]
    /\ \A s \in Sessions :
          \/ session'[s].state = session[s].state
          \/ session[s].state \in {"unused", "pooled"}
          \/ a \in Attempts /\ Holds(a) /\ task[a].session = s
    /\ \A q \in Queries :
          \/ entries'[q] = entries[q]
          \/ /\ entries[q].kind = "active" => entries[q].attempt = a
             /\ entries'[q].kind = "active" => entries'[q].attempt = a

\* The execution itself: its invariant, the session it takes, the entry it owns.
Proper(a) ==
    /\ AttemptOK(a)'
    /\ Holds(a)' => \/ Holds(a) /\ task'[a].session = task[a].session
                    \/ session[task'[a].session].state # "leased"
    /\ \A q \in Queries :
          entries'[q].kind = "active" /\ entries'[q].attempt = a =>
              Live(a)' /\ task'[a].query = q

\* An execution that a step does not touch keeps its invariant.
LEMMA OthersKept ==
    ASSUME MysqlInv, TypeOK', NEW a, Local(a), NEW b \in Attempts, b # a
    PROVE  AttemptOK(b)'
  <1> DEFINE s == task[b].session
  <1>1. task'[b] = task[b] /\ ctl'[b] = ctl[b] /\ kill'[b] = kill[b]
    BY DEF Local
  <1>2. AttemptOK(b)
    BY DEF MysqlInv
  <1>3. OwnsId(b)'
    <2>1. Live(b) => entries'[task[b].query] = entries[task[b].query]
      BY <1>2 DEF AttemptOK, OwnsId, Active, Local
    <2> QED
      BY <1>1, <1>2, <2>1 DEF AttemptOK, OwnsId, Live, Active
  <1>4. Holds(b) \/ OnItsWay(b) => s \in Sessions /\ session'[s].state = session[s].state
    <2>1. CASE Holds(b)
      <3>1. s \in Sessions /\ session[s].state = "leased"
        BY <1>2, <2>1 DEF AttemptOK, OwnsSession
      <3>2. ~(a \in Attempts /\ Holds(a) /\ task[a].session = s)
        BY <2>1 DEF MysqlInv, SessionsApart
      <3> QED
        BY <3>1, <3>2 DEF Local
    <2>2. CASE OnItsWay(b) /\ ~Holds(b)
      <3>1. s \in Sessions /\ session[s].state = "closed"
        BY <1>2, <2>2 DEF AttemptOK, KillAimed, OnItsWay
      <3>2. ~(a \in Attempts /\ Holds(a) /\ task[a].session = s)
        BY <3>1 DEF MysqlInv, AttemptOK, OwnsSession
      <3> QED
        BY <3>1, <3>2 DEF Local
    <2> QED
      BY <2>1, <2>2
  <1>5. OwnsSession(b)' /\ KillAimed(b)'
    BY <1>1, <1>2, <1>4 DEF AttemptOK, OwnsSession, KillAimed, Holds, OnItsWay
  <1>6. ControlOK(b)' /\ ResultOK(b)'
    BY <1>1, <1>2 DEF AttemptOK, ControlOK, ResultOK
  <1> QED
    BY <1>3, <1>5, <1>6 DEF AttemptOK

\* So a local, proper step keeps the invariants of executions, sessions and entries.
LEMMA LocalStep ==
    ASSUME MysqlInv, TypeOK', NEW a, Local(a), a \in Attempts => Proper(a),
           \A q \in Queries : entries'[q].kind = "active" /\ entries'[q].attempt = a
                                 => a \in Attempts
    PROVE  (\A b \in Attempts : AttemptOK(b)') /\ SessionsApart' /\ EntriesOwned'
  <1>1. ASSUME NEW b \in Attempts
        PROVE  AttemptOK(b)'
    BY OthersKept DEF Proper
  <1>2. ASSUME NEW b \in Attempts, NEW c \in Attempts, b # c, Holds(b)', Holds(c)',
               task'[b].session = task'[c].session
        PROVE  FALSE
    <2>1. CASE b # a /\ c # a
      <3>1. task'[b] = task[b] /\ task'[c] = task[c]
        BY <2>1 DEF Local
      <3> QED
        BY <1>2, <3>1 DEF MysqlInv, SessionsApart, Holds
    <2>2. ASSUME NEW o \in Attempts, o # a, a \in Attempts, Holds(o)', Holds(a)',
                 task'[o].session = task'[a].session
          PROVE  FALSE
      <3>1. task'[o] = task[o] /\ Holds(o)
        BY <2>2 DEF Local, Holds
      <3>2. session[task[o].session].state = "leased"
        BY <3>1 DEF MysqlInv, AttemptOK, OwnsSession
      <3>3. Holds(a) /\ task'[a].session = task[a].session
        BY <2>2, <3>1, <3>2 DEF Proper
      <3> QED
        BY <2>2, <3>1, <3>3 DEF MysqlInv, SessionsApart
    <2> QED
      BY <1>2, <2>1, <2>2
  <1>3. ASSUME NEW q \in Queries, entries'[q].kind = "active"
        PROVE  /\ entries'[q].attempt \in Attempts
               /\ task'[entries'[q].attempt].at \notin {"idle", "done"}
               /\ task'[entries'[q].attempt].query = q
    <2>0. PICK o : o = entries'[q].attempt
      OBVIOUS
    <2>1. CASE o = a
      BY <1>3, <2>0, <2>1 DEF Proper, Live
    <2>2. CASE o # a
      <3>1. entries'[q] = entries[q]
        BY <1>3, <2>0, <2>2 DEF Local
      <3>2. o \in Attempts /\ Live(o) /\ task[o].query = q
        BY <1>3, <2>0, <3>1 DEF MysqlInv, EntriesOwned
      <3>3. task'[o] = task[o]
        BY <2>2, <3>2 DEF Local
      <3> QED
        BY <2>0, <3>2, <3>3 DEF Live
    <2> QED
      BY <2>1, <2>2
  <1> QED
    BY <1>1, <1>2, <1>3 DEF SessionsApart, EntriesOwned, Live

\* Cancels that a step does not touch stay valid: no execution becomes idle again
\* and no request is withdrawn.
LEMMA CallersKept ==
    ASSUME MysqlInv, TypeOK', NEW c \in Callers, caller'[c] = caller[c],
           \A a \in Attempts : /\ task[a].at # "idle" => task'[a].at # "idle"
                               /\ task[a].at # "idle" /\ ctl[a].requested => ctl'[a].requested
    PROVE  CallerOK(c)'
  <1>1. CallerOK(c)
    BY DEF MysqlInv
  <1>2. caller[c].attempt # Nil => caller[c].attempt \in Attempts
    BY DEF MysqlInv, TypeOK, CallerState
  <1>3. caller[c].at = "await" => caller[c].attempt # Nil
    BY <1>1 DEF CallerOK, MysqlInv, MysqlQueryConstantsOK
  <1> QED
    BY <1>1, <1>2, <1>3 DEF CallerOK

\* The registry and the cancels are left alone by most steps of an execution.
LEMMA QuietStep ==
    ASSUME MysqlInv, TypeOK', UNCHANGED <<entries, caller>>, NEW a \in Attempts,
           \A b \in Attempts \ {a} :
              task'[b] = task[b] /\ ctl'[b] = ctl[b] /\ kill'[b] = kill[b],
           \A s \in Sessions :
              \/ session'[s].state = session[s].state
              \/ session[s].state \in {"unused", "pooled"}
              \/ Holds(a) /\ task[a].session = s,
           AttemptOK(a)',
           Holds(a)' => \/ Holds(a) /\ task'[a].session = task[a].session
                        \/ session[task'[a].session].state # "leased",
           task'[a].query = task[a].query, Live(a) => Live(a)',
           task[a].at # "idle" => task'[a].at # "idle",
           ctl[a].requested => ctl'[a].requested
    PROVE  MysqlInv'
  <1>1. Local(a)
    BY DEF Local
  <1>2. \A q \in Queries : entries'[q].kind = "active" /\ entries'[q].attempt = a
                              => Live(a)' /\ task'[a].query = q
    BY DEF MysqlInv, EntriesOwned
  <1>3. Proper(a)
    BY <1>2 DEF Proper
  <1>4. (\A b \in Attempts : AttemptOK(b)') /\ SessionsApart' /\ EntriesOwned'
    BY <1>1, <1>3, LocalStep
  <1>5. \A c \in Callers : CallerOK(c)'
    BY CallersKept
  <1> QED
    BY <1>4, <1>5 DEF MysqlInv, RetainedBounded, MysqlQueryConstantsOK

-----------------------------------------------------------------------------
(* The steps of an execution *)

\* Connect takes a session that nobody holds.
LEMMA ConnectKeeps ==
    ASSUME MysqlInv, NEW a \in Attempts, Connect(a)
    PROVE  MysqlInv'
  <1>1. PICK s \in Sessions :
              /\ session[s].state \in {"unused", "pooled"}
              /\ session' = [session EXCEPT ![s].state = "leased"]
              /\ task' = [task EXCEPT ![a].at = "attach", ![a].session = s]
    BY DEF Connect
  <1>2. TypeOK'
    <2>1. /\ task[a] \in TaskState /\ session[s] \in SessionState
          /\ task' = [task EXCEPT ![a] = [task[a] EXCEPT !.at = "attach", !.session = s]]
          /\ session' = [session EXCEPT ![s] = [session[s] EXCEPT !.state = "leased"]]
      BY <1>1 DEF MysqlInv, TypeOK
    <2>2. /\ [task[a] EXCEPT !.at = "attach", !.session = s] \in TaskState
          /\ [session[s] EXCEPT !.state = "leased"] \in SessionState
      BY <2>1 DEF TaskState, SessionState
    <2> QED
      BY <2>1, <2>2 DEF Connect, MysqlInv, TypeOK
  <1>3. /\ task'[a] = [task[a] EXCEPT !.at = "attach", !.session = s]
        /\ \A b \in Attempts \ {a} : task'[b] = task[b]
        /\ session'[s].state = "leased"
        /\ \A o \in Sessions \ {s} : session'[o] = session[o]
    BY <1>1 DEF MysqlInv, TypeOK, SessionState
  <1>4. /\ task'[a].at = "attach" /\ task'[a].session = s
        /\ task'[a].query = task[a].query /\ task'[a].result = task[a].result
        /\ task[a].at = "connect"
    <2>1. task[a] \in TaskState /\ task[a].at = "connect"
      BY DEF MysqlInv, TypeOK, Connect
    <2> QED
      BY <1>3, <2>1 DEF TaskState
  <1>5. AttemptOK(a)
    BY DEF MysqlInv
  <1>6. UNCHANGED <<entries, ctl, caller, kill>>
    BY DEF Connect
  <1>7. AttemptOK(a)'
    BY <1>3, <1>4, <1>5, <1>6 DEF AttemptOK, OwnsId, OwnsSession, KillAimed, ControlOK,
          ResultOK, Live, Holds, OnItsWay, Active
  <1> QED
    BY <1>1, <1>2, <1>3, <1>4, <1>6, <1>7, QuietStep DEF Live, Holds

\* The steps that move only the task: the session it holds stays where it is.
LEMMA MoveKeeps ==
    ASSUME MysqlInv, NEW a \in Attempts,
           \/ ConnectFails(a) \/ UseFails(a) \/ RunReturns(a)
           \/ RunCancelled(a) \/ AwaitOutcome(a)
    PROVE  MysqlInv'
  <1>0. UNCHANGED <<entries, ctl, caller, kill, session, now>>
    BY DEF ConnectFails, UseFails, RunReturns, RunCancelled, AwaitOutcome
  <1>1. PICK w \in {"drop", "settle", "close"}, r \in {"ok", "err"} :
              /\ task' = [task EXCEPT ![a].at = w, ![a].result = r]
              /\ w = "drop" => task[a].at = "connect" /\ r = "err"
              /\ w = "settle" => task[a].at \in {"use", "run"}
              /\ w = "close" => task[a].at = "await" /\ r = "err"
    <2>1. CASE ConnectFails(a)
      BY <2>1 DEF ConnectFails
    <2>2. CASE UseFails(a) \/ RunCancelled(a)
      BY <2>2 DEF UseFails, RunCancelled
    <2>3. CASE RunReturns(a)
      BY <2>3 DEF RunReturns
    <2>4. CASE AwaitOutcome(a)
      BY <2>4 DEF AwaitOutcome
    <2> QED
      BY <2>1, <2>2, <2>3, <2>4
  <1>2. TypeOK'
    <2>1. /\ task[a] \in TaskState
          /\ task' = [task EXCEPT ![a] = [task[a] EXCEPT !.at = w, !.result = r]]
      BY <1>1 DEF MysqlInv, TypeOK
    <2>2. [task[a] EXCEPT !.at = w, !.result = r] \in TaskState
      BY <2>1 DEF TaskState
    <2> QED
      BY <1>0, <2>1, <2>2 DEF MysqlInv, TypeOK
  <1>3. /\ task'[a].at = w /\ task'[a].result = r
        /\ task'[a].query = task[a].query /\ task'[a].session = task[a].session
        /\ \A b \in Attempts \ {a} : task'[b] = task[b]
    BY <1>1 DEF MysqlInv, TypeOK, TaskState
  <1>4. AttemptOK(a)
    BY DEF MysqlInv
  <1>5. AttemptOK(a)'
    BY <1>0, <1>1, <1>3, <1>4 DEF AttemptOK, OwnsId, OwnsSession, KillAimed, ControlOK,
          ResultOK, Live, Holds, OnItsWay, Active
  <1> QED
    BY <1>0, <1>1, <1>2, <1>3, <1>5, QuietStep DEF Live, Holds

\* What a task's record keeps when its place and result change.
LEMMA TaskMoves ==
    ASSUME TypeOK, NEW a \in Attempts,
           NEW w \in {"use", "run", "settle", "await", "close", "drop", "done"},
           NEW r \in {Nil, "ok", "err"},
           task' = [task EXCEPT ![a] = [task[a] EXCEPT !.at = w, !.result = r]]
    PROVE  /\ task' \in [Attempts -> TaskState]
           /\ task'[a].at = w /\ task'[a].result = r /\ task'[a].born = task[a].born
           /\ task'[a].query = task[a].query /\ task'[a].session = task[a].session
           /\ \A b \in Attempts \ {a} : task'[b] = task[b]
  <1>1. task[a] \in TaskState
    BY DEF TypeOK
  <1>2. [task[a] EXCEPT !.at = w, !.result = r] \in TaskState
    BY <1>1 DEF TaskState
  <1>3. task' \in [Attempts -> TaskState] /\ \A b \in Attempts \ {a} : task'[b] = task[b]
    BY <1>2 DEF TypeOK
  <1>4. task'[a] = [task[a] EXCEPT !.at = w, !.result = r]
    BY DEF TypeOK
  <1> QED
    BY <1>1, <1>3, <1>4 DEF TaskState

\* What a control keeps when its phase changes.
LEMMA PhaseMoves ==
    ASSUME TypeOK, NEW a \in Attempts,
           NEW p \in {"waiting", "running", "cancelling", "finished"},
           ctl' = [ctl EXCEPT ![a].phase = p]
    PROVE  /\ ctl' \in [Attempts -> ControlState]
           /\ ctl'[a].phase = p /\ ctl'[a].requested = ctl[a].requested
           /\ \A b \in Attempts \ {a} : ctl'[b] = ctl[b]
  <1>1. ctl[a] \in ControlState
    BY DEF TypeOK
  <1>2. [ctl[a] EXCEPT !.phase = p] \in ControlState
    BY <1>1 DEF ControlState
  <1>3. ctl' = [ctl EXCEPT ![a] = [ctl[a] EXCEPT !.phase = p]]
    BY DEF TypeOK
  <1>4. ctl' \in [Attempts -> ControlState] /\ \A b \in Attempts \ {a} : ctl'[b] = ctl[b]
    BY <1>2, <1>3 DEF TypeOK
  <1>5. ctl'[a] = [ctl[a] EXCEPT !.phase = p]
    BY <1>3 DEF TypeOK
  <1> QED
    BY <1>1, <1>4, <1>5 DEF ControlState

\* attach_connection: the phase is running only while the session is held.
LEMMA AttachKeeps ==
    ASSUME MysqlInv, NEW a \in Attempts, Attach(a)
    PROVE  MysqlInv'
  <1>0. UNCHANGED <<entries, caller, kill, session, now>> /\ task[a].at = "attach"
    BY DEF Attach
  <1>1. TypeOK /\ AttemptOK(a) /\ task[a] \in TaskState
    BY DEF MysqlInv, TypeOK
  <1>2. CASE ctl[a].phase = "waiting"
    <2>1. ctl' = [ctl EXCEPT ![a].phase = "running"]
      BY <1>2 DEF Attach
    <2>2. task' = [task EXCEPT ![a] = [task[a] EXCEPT !.at = "use", !.result = task[a].result]]
      BY <1>1, <1>2 DEF Attach, TypeOK, TaskState
    <2>3. /\ task' \in [Attempts -> TaskState]
          /\ task'[a].at = "use" /\ task'[a].result = task[a].result
          /\ task'[a].query = task[a].query /\ task'[a].session = task[a].session
          /\ \A b \in Attempts \ {a} : task'[b] = task[b]
      BY <1>1, <2>2, TaskMoves DEF TaskState
    <2>4. /\ ctl' \in [Attempts -> ControlState]
          /\ ctl'[a].phase = "running" /\ ctl'[a].requested = ctl[a].requested
          /\ \A b \in Attempts \ {a} : ctl'[b] = ctl[b]
      BY <1>1, <2>1, PhaseMoves
    <2>5. TypeOK'
      BY <1>0, <1>1, <2>3, <2>4 DEF TypeOK
    <2>6. AttemptOK(a)'
      BY <1>0, <1>1, <1>2, <2>3, <2>4 DEF AttemptOK, OwnsId, OwnsSession, KillAimed,
            ControlOK, ResultOK, Live, Holds, OnItsWay, Active
    <2> QED
      BY <1>0, <2>3, <2>4, <2>5, <2>6, QuietStep DEF Live, Holds
  <1>3. CASE ctl[a].phase # "waiting"
    <2>1. ctl' = ctl
      BY <1>3 DEF Attach
    <2>2. task' = [task EXCEPT ![a] = [task[a] EXCEPT !.at = "settle", !.result = "err"]]
      BY <1>1, <1>3 DEF Attach, TypeOK, TaskState
    <2>3. /\ task' \in [Attempts -> TaskState]
          /\ task'[a].at = "settle" /\ task'[a].result = "err"
          /\ task'[a].query = task[a].query /\ task'[a].session = task[a].session
          /\ \A b \in Attempts \ {a} : task'[b] = task[b]
      BY <1>1, <2>2, TaskMoves
    <2>4. TypeOK'
      BY <1>0, <1>1, <2>1, <2>3 DEF TypeOK
    <2>5. AttemptOK(a)'
      BY <1>0, <1>1, <2>1, <2>3 DEF AttemptOK, OwnsId, OwnsSession, KillAimed,
            ControlOK, ResultOK, Live, Holds, OnItsWay, Active
    <2> QED
      BY <1>0, <2>1, <2>3, <2>4, <2>5, QuietStep DEF Live, Holds
  <1> QED
    BY <1>2, <1>3

\* settle: a request and the end of the execution exclude each other.
LEMMA SettleKeeps ==
    ASSUME MysqlInv, NEW a \in Attempts, Settle(a)
    PROVE  MysqlInv'
  <1>0. UNCHANGED <<entries, caller, kill, session, now>> /\ task[a].at = "settle"
    BY DEF Settle
  <1>1. TypeOK /\ AttemptOK(a) /\ task[a] \in TaskState /\ ctl[a] \in ControlState
    BY DEF MysqlInv, TypeOK
  <1>2. CASE ctl[a].phase = "cancelling"
    <2>1. ctl' = ctl
      BY <1>2 DEF Settle
    <2>2. task' = [task EXCEPT ![a] = [task[a] EXCEPT !.at = "await", !.result = task[a].result]]
      BY <1>1, <1>2 DEF Settle, TypeOK, TaskState
    <2>3. /\ task' \in [Attempts -> TaskState]
          /\ task'[a].at = "await" /\ task'[a].result = task[a].result
          /\ task'[a].query = task[a].query /\ task'[a].session = task[a].session
          /\ \A b \in Attempts \ {a} : task'[b] = task[b]
      BY <1>1, <2>2, TaskMoves DEF TaskState
    <2>4. TypeOK'
      BY <1>0, <1>1, <2>1, <2>3 DEF TypeOK
    <2>5. AttemptOK(a)'
      BY <1>0, <1>1, <1>2, <2>1, <2>3 DEF AttemptOK, OwnsId, OwnsSession, KillAimed,
            ControlOK, ResultOK, Live, Holds, OnItsWay, Active
    <2> QED
      BY <1>0, <2>1, <2>3, <2>4, <2>5, QuietStep DEF Live, Holds
  <1>3. CASE ctl[a].phase # "cancelling"
    <2>1. ctl' = [ctl EXCEPT ![a].phase = "finished"]
      BY <1>3 DEF Settle
    <2>2. task' = [task EXCEPT ![a] = [task[a] EXCEPT !.at = "close", !.result = task[a].result]]
      BY <1>1, <1>3 DEF Settle, TypeOK, TaskState
    <2>3. /\ task' \in [Attempts -> TaskState]
          /\ task'[a].at = "close" /\ task'[a].result = task[a].result
          /\ task'[a].query = task[a].query /\ task'[a].session = task[a].session
          /\ \A b \in Attempts \ {a} : task'[b] = task[b]
      BY <1>1, <2>2, TaskMoves DEF TaskState
    <2>4. /\ ctl' \in [Attempts -> ControlState]
          /\ ctl'[a].phase = "finished" /\ ctl'[a].requested = ctl[a].requested
          /\ \A b \in Attempts \ {a} : ctl'[b] = ctl[b]
      BY <1>1, <2>1, PhaseMoves
    <2>5. TypeOK'
      BY <1>0, <1>1, <2>3, <2>4 DEF TypeOK
    <2>6. ~ctl[a].requested
      BY <1>0, <1>1, <1>3 DEF AttemptOK, ControlOK, ControlState
    <2>7. AttemptOK(a)'
      BY <1>0, <1>1, <2>3, <2>4, <2>6 DEF AttemptOK, OwnsId, OwnsSession, KillAimed,
            ControlOK, ResultOK, Live, Holds, OnItsWay, Active
    <2> QED
      BY <1>0, <2>3, <2>4, <2>5, <2>7, QuietStep DEF Live, Holds
  <1> QED
    BY <1>2, <1>3

\* A session whose statement changes keeps its state.
LEMMA RunsMoves ==
    ASSUME TypeOK, NEW s \in Sessions, NEW x \in Attempts \cup {Nil},
           session' = [session EXCEPT ![s].runs = x]
    PROVE  /\ session' \in [Sessions -> SessionState]
           /\ \A o \in Sessions : session'[o].state = session[o].state
  <1>1. session[s] \in SessionState
    BY DEF TypeOK
  <1>2. /\ [session[s] EXCEPT !.runs = x] \in SessionState
        /\ [session[s] EXCEPT !.runs = x].state = session[s].state
    BY <1>1 DEF SessionState
  <1>3. session' = [session EXCEPT ![s] = [session[s] EXCEPT !.runs = x]]
    BY DEF TypeOK
  <1> QED
    BY <1>2, <1>3 DEF TypeOK

\* run_sql_on_conn uses the session that the execution holds.
LEMMA SendSqlKeeps ==
    ASSUME MysqlInv, NEW a \in Attempts, SendSql(a)
    PROVE  MysqlInv'
  <1>0. UNCHANGED <<entries, ctl, caller, kill, now>> /\ task[a].at = "use"
    BY DEF SendSql
  <1>1. TypeOK /\ AttemptOK(a) /\ task[a] \in TaskState
    BY DEF MysqlInv, TypeOK
  <1>2. task[a].session \in Sessions
    BY <1>0, <1>1 DEF AttemptOK, OwnsSession, Holds
  <1>3. /\ session' \in [Sessions -> SessionState]
        /\ \A s \in Sessions : session'[s].state = session[s].state
    BY <1>1, <1>2, RunsMoves DEF SendSql
  <1>4. task' = [task EXCEPT ![a] = [task[a] EXCEPT !.at = "run", !.result = task[a].result]]
    BY <1>1 DEF SendSql, TypeOK, TaskState
  <1>5. /\ task' \in [Attempts -> TaskState]
        /\ task'[a].at = "run" /\ task'[a].result = task[a].result
        /\ task'[a].query = task[a].query /\ task'[a].session = task[a].session
        /\ \A b \in Attempts \ {a} : task'[b] = task[b]
    BY <1>1, <1>4, TaskMoves DEF TaskState
  <1>6. TypeOK'
    BY <1>0, <1>1, <1>3, <1>5 DEF TypeOK
  <1>7. AttemptOK(a)'
    BY <1>0, <1>1, <1>2, <1>3, <1>5 DEF AttemptOK, OwnsId, OwnsSession, KillAimed,
          ControlOK, ResultOK, Live, Holds, OnItsWay, Active
  <1> QED
    BY <1>0, <1>3, <1>5, <1>6, <1>7, QuietStep DEF Live, Holds

\* finish_connection: a session with a KILL on its way is closed, not pooled.
LEMMA FinishKeeps ==
    ASSUME MysqlInv, NEW a \in Attempts, Finish(a)
    PROVE  MysqlInv'
  <1>0. UNCHANGED <<entries, caller, kill, now>> /\ task[a].at = "close"
    BY DEF Finish
  <1>1. TypeOK /\ AttemptOK(a) /\ task[a] \in TaskState /\ ctl[a] \in ControlState
    BY DEF MysqlInv, TypeOK
  <1>2. PICK s \in Sessions : s = task[a].session
    BY <1>0, <1>1 DEF AttemptOK, OwnsSession, Holds
  <1>3. PICK x \in {"closed", "pooled"} :
              /\ session' = [session EXCEPT ![s] = [session[s] EXCEPT !.state = x]]
              /\ ctl[a].requested => x = "closed"
    BY <1>1, <1>2 DEF Finish, TypeOK
  <1>4. /\ [session[s] EXCEPT !.state = x] \in SessionState
        /\ [session[s] EXCEPT !.state = x].state = x
    BY <1>1 DEF TypeOK, SessionState
  <1>5. /\ session' \in [Sessions -> SessionState] /\ session'[s].state = x
        /\ \A o \in Sessions \ {s} : session'[o] = session[o]
    BY <1>1, <1>3, <1>4 DEF TypeOK
  <1>6. task' = [task EXCEPT ![a] = [task[a] EXCEPT !.at = "drop", !.result = task[a].result]]
    BY <1>1 DEF Finish, TypeOK, TaskState
  <1>7. /\ task' \in [Attempts -> TaskState]
        /\ task'[a].at = "drop" /\ task'[a].result = task[a].result
        /\ task'[a].query = task[a].query /\ task'[a].session = task[a].session
        /\ \A b \in Attempts \ {a} : task'[b] = task[b]
    BY <1>1, <1>6, TaskMoves DEF TaskState
  <1>8. /\ ctl' \in [Attempts -> ControlState]
        /\ ctl'[a].phase = "finished" /\ ctl'[a].requested = ctl[a].requested
        /\ \A b \in Attempts \ {a} : ctl'[b] = ctl[b]
    BY <1>1, PhaseMoves DEF Finish
  <1>9. TypeOK'
    BY <1>0, <1>1, <1>5, <1>7, <1>8 DEF TypeOK
  <1>10. AttemptOK(a)'
    BY <1>0, <1>1, <1>2, <1>3, <1>5, <1>7, <1>8 DEF AttemptOK, OwnsId, OwnsSession,
          KillAimed, ControlOK, ResultOK, Live, Holds, OnItsWay, Active
  <1>11. Holds(a) /\ \A o \in Sessions : \/ session'[o].state = session[o].state
                                         \/ task[a].session = o
    BY <1>0, <1>2, <1>5 DEF Holds
  <1> QED
    BY <1>0, <1>7, <1>8, <1>9, <1>10, <1>11, QuietStep DEF Live, Holds

-----------------------------------------------------------------------------
(* The steps of a KILL, of the server and of the clock *)

\* A KILL moves on without changing who holds what.
LEMMA KillKeeps ==
    ASSUME MysqlInv, NEW a \in Attempts, SendKill(a) \/ KillArrives(a) \/ KillFails(a)
    PROVE  MysqlInv'
  <1>0. UNCHANGED <<entries, task, caller, now>> /\ kill[a] \in {"connect", "sent", "late"}
    BY DEF SendKill, KillArrives, KillFails
  <1>1. TypeOK /\ AttemptOK(a) /\ task[a] \in TaskState /\ ctl[a] \in ControlState
    BY DEF MysqlInv, TypeOK
  <1>2. task[a].session \in Sessions
    BY <1>0, <1>1 DEF AttemptOK, KillAimed
  <1>3. PICK k \in {"sent", "late", "over"} : kill' = [kill EXCEPT ![a] = k]
    BY <1>1 DEF SendKill, KillArrives, KillFails, TypeOK
  <1>4. PICK o \in {Nil, "ok", "unconfirmed"} :
              ctl' = [ctl EXCEPT ![a] = [ctl[a] EXCEPT !.outcome = o]]
    <2>1. ctl[a].outcome \in {Nil, "ok", "unconfirmed"}
      BY <1>1 DEF ControlState
    <2>2. CASE SendKill(a)
      <3>1. ctl' = [ctl EXCEPT ![a] = [ctl[a] EXCEPT !.outcome = ctl[a].outcome]]
        BY <1>1, <2>2 DEF SendKill, TypeOK, ControlState
      <3> QED
        BY <2>1, <3>1
    <2>3. CASE KillArrives(a)
      <3>1. ctl' = [ctl EXCEPT ![a] = [ctl[a] EXCEPT !.outcome =
                      IF kill[a] = "sent" THEN "ok" ELSE ctl[a].outcome]]
        BY <1>1, <2>3 DEF KillArrives, TypeOK, ControlState
      <3> QED
        BY <2>1, <3>1
    <2>4. CASE KillFails(a)
      BY <1>1, <2>4 DEF KillFails, TypeOK, ControlState
    <2> QED
      BY <2>2, <2>3, <2>4
  <1>5. /\ [ctl[a] EXCEPT !.outcome = o] \in ControlState
        /\ [ctl[a] EXCEPT !.outcome = o].phase = ctl[a].phase
        /\ [ctl[a] EXCEPT !.outcome = o].requested = ctl[a].requested
    BY <1>1 DEF ControlState
  <1>6. /\ ctl' \in [Attempts -> ControlState] /\ ctl'[a].phase = ctl[a].phase
        /\ ctl'[a].requested = ctl[a].requested
        /\ \A b \in Attempts \ {a} : ctl'[b] = ctl[b]
    BY <1>1, <1>4, <1>5 DEF TypeOK
  <1>7. /\ session' \in [Sessions -> SessionState]
        /\ \A s \in Sessions : session'[s].state = session[s].state
    <2>1. CASE SendKill(a) \/ KillFails(a)
      BY <1>1, <2>1 DEF SendKill, KillFails, TypeOK
    <2>2. CASE KillArrives(a)
      BY <1>1, <1>2, <2>2, RunsMoves DEF KillArrives
    <2> QED
      BY <2>1, <2>2
  <1>8. TypeOK'
    BY <1>0, <1>1, <1>3, <1>6, <1>7 DEF TypeOK
  <1>9. kill'[a] = k /\ \A b \in Attempts \ {a} : kill'[b] = kill[b]
    BY <1>1, <1>3 DEF TypeOK
  <1>10. AttemptOK(a)'
    BY <1>0, <1>1, <1>2, <1>6, <1>7, <1>9 DEF AttemptOK, OwnsId, OwnsSession, KillAimed,
          ControlOK, ResultOK, Live, Holds, OnItsWay, Active
  <1> QED
    BY <1>0, <1>6, <1>7, <1>8, <1>9, <1>10, QuietStep DEF Live, Holds

\* The server ends a statement; the clock moves.
LEMMA WorldKeeps ==
    ASSUME MysqlInv, Tick \/ \E s \in Sessions : StatementEnds(s)
    PROVE  MysqlInv'
  <1>0. UNCHANGED <<entries, ctl, task, caller, kill>> /\ TypeOK
    BY DEF MysqlInv, Tick, StatementEnds
  <1>1. /\ session' \in [Sessions -> SessionState]
        /\ \A s \in Sessions : session'[s].state = session[s].state
    <2>1. CASE Tick
      BY <1>0, <2>1 DEF Tick, TypeOK
    <2>2. ASSUME NEW s \in Sessions, StatementEnds(s)
          PROVE  <1>1!1 /\ <1>1!2
      BY <1>0, <2>2, RunsMoves DEF StatementEnds
    <2> QED
      BY <2>1, <2>2
  <1>2. now' \in 0 .. MaxTime
    BY <1>0 DEF MysqlInv, MysqlQueryConstantsOK, Tick, StatementEnds, TypeOK
  <1>3. TypeOK'
    BY <1>0, <1>1, <1>2 DEF TypeOK
  <1>4. Local(Nil)
    BY <1>0, <1>1 DEF Local
  <1>5. \A q \in Queries : entries'[q].kind = "active" => entries'[q].attempt # Nil
    BY <1>0 DEF MysqlInv, EntriesOwned, MysqlQueryConstantsOK
  <1>6. Nil \notin Attempts
    BY DEF MysqlInv, MysqlQueryConstantsOK
  <1>7. (\A b \in Attempts : AttemptOK(b)') /\ SessionsApart' /\ EntriesOwned'
    BY <1>3, <1>4, <1>5, <1>6, LocalStep
  <1>8. \A c \in Callers : CallerOK(c)'
    BY <1>0, <1>3, CallersKept
  <1> QED
    BY <1>0, <1>3, <1>7, <1>8 DEF MysqlInv, RetainedBounded, MysqlQueryConstantsOK

-----------------------------------------------------------------------------
(* The steps that change the registry *)

\* A prune touches no active entry.
LEMMA Pruned ==
    ASSUME MysqlInv, NEW e \in [Queries -> Entry], NEW es \in Prune(e)
    PROVE  /\ es \in [Queries -> Entry]
           /\ \A q \in Queries : \/ es[q] = e[q]
                                 \/ /\ es[q] = NoEntry
                                    /\ e[q].kind # "active" /\ es[q].kind # "active"
           /\ Cardinality({q \in Queries : IsRetained(es[q])}) <= MaxRetained
  <1>1. MysqlQueryConstantsOK
    BY DEF MysqlInv
  <1>2. \A q \in Queries : \/ es[q] = e[q]
                           \/ es[q] = NoEntry /\ IsRetained(e[q])
    BY <1>1, PruneFacts
  <1> QED
    BY <1>1, <1>2, PruneFacts, PruneBounds DEF NoEntry, IsRetained

\* The prune of the registry's own entries.
LEMMA PrunedOthers ==
    ASSUME MysqlInv, NEW es \in Prune(entries)
    PROVE  /\ es \in [Queries -> Entry]
           /\ \A q \in Queries : \/ es[q] = entries[q]
                                 \/ entries[q].kind # "active" /\ es[q].kind # "active"
           /\ Cardinality({q \in Queries : IsRetained(es[q])}) <= MaxRetained
  <1>1. entries \in [Queries -> Entry]
    BY DEF MysqlInv, TypeOK
  <1> QED
    BY <1>1, Pruned

\* register: the new execution is the only owner of its id.
LEMMA RegisterKeeps ==
    ASSUME MysqlInv, NEW a \in Attempts, NEW q \in Queries, Register(a, q)
    PROVE  MysqlInv'
  <1>0. UNCHANGED <<caller, kill, session, now>> /\ task[a].at = "idle"
    BY DEF Register
  <1>1. TypeOK /\ AttemptOK(a) /\ task[a] \in TaskState /\ now \in 0 .. MaxTime
    BY DEF MysqlInv, TypeOK
  <1>2. PICK es \in Prune(entries) :
              /\ es[q].kind \in {"none", "pending"}
              /\ entries' = [es EXCEPT ![q] = Active(a)]
              /\ ctl' = [ctl EXCEPT ![a] = Control(es[q].kind = "pending")]
    BY DEF Register
  <1>3. /\ es \in [Queries -> Entry]
        /\ \A p \in Queries : \/ es[p] = entries[p]
                              \/ entries[p].kind # "active" /\ es[p].kind # "active"
        /\ Cardinality({p \in Queries : IsRetained(es[p])}) <= MaxRetained
    BY PrunedOthers
  <1>4. Active(a) \in Entry /\ Active(a).kind = "active" /\ Active(a).attempt = a
    BY DEF Active, Entry, MysqlInv, MysqlQueryConstantsOK
  <1>5. entries' \in [Queries -> Entry] /\ entries'[q] = Active(a)
        /\ \A p \in Queries \ {q} : entries'[p] = es[p]
    BY <1>2, <1>3, <1>4
  <1>6. PICK k : k = Control(es[q].kind = "pending")
    OBVIOUS
  <1>7. /\ k \in ControlState /\ k.phase \in {"waiting", "cancelling"}
        /\ k.requested <=> k.phase = "cancelling"
    BY <1>6 DEF Control, ControlState
  <1>8. /\ ctl' \in [Attempts -> ControlState] /\ ctl'[a] = k
        /\ \A b \in Attempts \ {a} : ctl'[b] = ctl[b]
    BY <1>1, <1>2, <1>6, <1>7 DEF TypeOK
  <1>9. PICK t : t = [task[a] EXCEPT !.at = "connect", !.query = q, !.born = now]
    OBVIOUS
  <1>10. /\ t \in TaskState /\ t.at = "connect" /\ t.query = q
         /\ t.session = task[a].session /\ t.result = task[a].result
    BY <1>1, <1>9 DEF TaskState
  <1>11. task' = [task EXCEPT ![a] = t]
    BY <1>1, <1>9 DEF Register, TypeOK
  <1>12. /\ task' \in [Attempts -> TaskState] /\ task'[a] = t
         /\ \A b \in Attempts \ {a} : task'[b] = task[b]
    BY <1>1, <1>10, <1>11 DEF TypeOK
  <1>13. TypeOK'
    BY <1>0, <1>1, <1>5, <1>8, <1>12 DEF TypeOK
  <1>14. Local(a)
    <2>1. \A p \in Queries :
             \/ entries'[p] = entries[p]
             \/ /\ entries[p].kind = "active" => entries[p].attempt = a
                /\ entries'[p].kind = "active" => entries'[p].attempt = a
      BY <1>2, <1>3, <1>4, <1>5
    <2> QED
      BY <1>0, <1>8, <1>12, <2>1 DEF Local
  <1>15. Proper(a)
    <2>1. AttemptOK(a)'
      BY <1>0, <1>1, <1>5, <1>7, <1>8, <1>10, <1>12 DEF AttemptOK, OwnsId, OwnsSession,
            KillAimed, ControlOK, ResultOK, Live, Holds, OnItsWay, Active
    <2>2. ASSUME NEW p \in Queries, entries'[p].kind = "active", entries'[p].attempt = a
          PROVE  p = q
      <3>1. CASE p # q
        <4>1. entries[p].kind = "active" /\ entries[p].attempt = a
          BY <1>3, <1>5, <2>2, <3>1
        <4> QED
          BY <1>0, <4>1 DEF MysqlInv, EntriesOwned, Live
      <3> QED
        BY <3>1
    <2>3. Live(a)' /\ ~Holds(a)' /\ task'[a].query = q
      BY <1>10, <1>12 DEF Live, Holds
    <2> QED
      BY <2>1, <2>2, <2>3 DEF Proper
  <1>16. (\A b \in Attempts : AttemptOK(b)') /\ SessionsApart' /\ EntriesOwned'
    BY <1>13, <1>14, <1>15, LocalStep
  <1>17. ASSUME NEW c \in Callers
         PROVE  CallerOK(c)'
    <2>1. \A b \in Attempts : /\ task[b].at # "idle" => task'[b].at # "idle"
                              /\ task[b].at # "idle" /\ ctl[b].requested => ctl'[b].requested
      BY <1>0, <1>8, <1>10, <1>12
    <2> QED
      BY <1>0, <1>13, <2>1, CallersKept
  <1>18. RetainedBounded'
    <2> DEFINE old == {p \in Queries : IsRetained(es[p])}
               new == {p \in Queries : IsRetained(entries'[p])}
    <2>1. new \subseteq old
      BY <1>4, <1>5 DEF IsRetained
    <2>2. IsFiniteSet(old) /\ Cardinality(old) \in Nat
      BY FS_Subset, FS_CardinalityType DEF MysqlInv, MysqlQueryConstantsOK
    <2>3. IsFiniteSet(new) /\ Cardinality(new) <= Cardinality(old) /\ Cardinality(new) \in Nat
      BY <2>1, <2>2, FS_Subset, FS_CardinalityType
    <2>4. MaxRetained \in Nat
      BY DEF MysqlInv, MysqlQueryConstantsOK
    <2> QED
      BY <1>3, <2>2, <2>3, <2>4 DEF RetainedBounded
  <1> QED
    BY <1>13, <1>16, <1>17, <1>18 DEF MysqlInv, MysqlQueryConstantsOK

\* A refused id: the command ends without an entry of its own.
LEMMA RegisterRefusedKeeps ==
    ASSUME MysqlInv, NEW a \in Attempts, NEW q \in Queries, RegisterRefused(a, q)
    PROVE  MysqlInv'
  <1>0. UNCHANGED <<ctl, caller, kill, session, now>> /\ task[a].at = "idle"
        /\ entries' \in Prune(entries)
    BY DEF RegisterRefused
  <1>1. TypeOK /\ AttemptOK(a) /\ task[a] \in TaskState
    BY DEF MysqlInv, TypeOK
  <1>2. PICK es \in Prune(entries) : es = entries'
    BY <1>0
  <1>3. /\ es \in [Queries -> Entry]
        /\ \A p \in Queries : \/ es[p] = entries[p]
                              \/ entries[p].kind # "active" /\ es[p].kind # "active"
        /\ Cardinality({p \in Queries : IsRetained(es[p])}) <= MaxRetained
    BY PrunedOthers
  <1>4. task' = [task EXCEPT ![a] = [task[a] EXCEPT !.at = "done", !.result = "err"]]
    BY <1>1 DEF RegisterRefused, TypeOK, TaskState
  <1>5. /\ task' \in [Attempts -> TaskState]
        /\ task'[a].at = "done" /\ task'[a].result = "err"
        /\ task'[a].query = task[a].query /\ task'[a].session = task[a].session
        /\ \A b \in Attempts \ {a} : task'[b] = task[b]
    BY <1>1, <1>4, TaskMoves
  <1>6. TypeOK'
    BY <1>0, <1>1, <1>2, <1>3, <1>5 DEF TypeOK
  <1>7. Local(a)
    BY <1>0, <1>2, <1>3, <1>5 DEF Local
  <1>8. Proper(a)
    <2>1. AttemptOK(a)'
      BY <1>0, <1>1, <1>5 DEF AttemptOK, OwnsId, OwnsSession, KillAimed, ControlOK,
            ResultOK, Live, Holds, OnItsWay
    <2>2. \A p \in Queries : ~(entries'[p].kind = "active" /\ entries'[p].attempt = a)
      BY <1>0, <1>2, <1>3 DEF MysqlInv, EntriesOwned, Live
    <2> QED
      BY <1>5, <2>1, <2>2 DEF Proper, Holds
  <1>9. (\A b \in Attempts : AttemptOK(b)') /\ SessionsApart' /\ EntriesOwned'
    BY <1>6, <1>7, <1>8, LocalStep
  <1>10. \A c \in Callers : CallerOK(c)'
    BY <1>0, <1>5, <1>6, CallersKept
  <1>11. RetainedBounded'
    BY <1>2, <1>3 DEF RetainedBounded
  <1> QED
    BY <1>6, <1>9, <1>10, <1>11 DEF MysqlInv, MysqlQueryConstantsOK

\* A retained entry is written for an id.
LEMMA RetainedEntry ==
    ASSUME MysqlInv, NEW e \in [Queries -> Entry], NEW q \in Queries,
           NEW k \in {"pending", "finished"}
    PROVE  /\ [e EXCEPT ![q] = Retained(k)] \in [Queries -> Entry]
           /\ [e EXCEPT ![q] = Retained(k)][q] = Retained(k)
           /\ [e EXCEPT ![q] = Retained(k)][q].kind # "active"
           /\ \A p \in Queries \ {q} : [e EXCEPT ![q] = Retained(k)][p] = e[p]
  <1>1. Retained(k) \in Entry /\ Retained(k).kind = k
    BY DEF MysqlInv, TypeOK, Retained, Entry
  <1> QED
    BY <1>1

\* Drop of the guard: the owner of the active entry retires it.
LEMMA DropGuardKeeps ==
    ASSUME MysqlInv, NEW a \in Attempts, DropGuard(a)
    PROVE  MysqlInv'
  <1>0. UNCHANGED <<caller, kill, session, now>> /\ task[a].at = "drop"
    BY DEF DropGuard
  <1>1. TypeOK /\ AttemptOK(a) /\ task[a] \in TaskState /\ ctl[a] \in ControlState
    BY DEF MysqlInv, TypeOK
  <1>2. PICK q \in Queries : q = task[a].query /\ entries[q] = Active(a)
    BY <1>0, <1>1 DEF AttemptOK, OwnsId, Live
  <1>3. PICK f, es : /\ f = [entries EXCEPT ![q] = Retained("finished")]
                     /\ es \in Prune(f) /\ es = entries'
    BY <1>2 DEF DropGuard
  <1>4. /\ es \in [Queries -> Entry] /\ es[q].kind # "active"
        /\ \A p \in Queries \ {q} : \/ es[p] = entries[p]
                                    \/ entries[p].kind # "active" /\ es[p].kind # "active"
        /\ Cardinality({p \in Queries : IsRetained(es[p])}) <= MaxRetained
    <2>1. entries \in [Queries -> Entry]
      BY <1>1 DEF TypeOK
    <2>2. /\ f \in [Queries -> Entry] /\ f[q].kind # "active"
          /\ \A p \in Queries \ {q} : f[p] = entries[p]
      BY <1>3, <2>1, RetainedEntry
    <2> QED
      BY <1>3, <2>2, Pruned
  <1>5. task' = [task EXCEPT ![a] = [task[a] EXCEPT !.at = "done", !.result = task[a].result]]
    BY <1>1 DEF DropGuard, TypeOK, TaskState
  <1>6. /\ task' \in [Attempts -> TaskState]
        /\ task'[a].at = "done" /\ task'[a].result = task[a].result
        /\ task'[a].query = task[a].query /\ task'[a].session = task[a].session
        /\ \A b \in Attempts \ {a} : task'[b] = task[b]
    BY <1>1, <1>5, TaskMoves DEF TaskState
  <1>7. /\ ctl' \in [Attempts -> ControlState]
        /\ ctl'[a].phase = "finished" /\ ctl'[a].requested = ctl[a].requested
        /\ \A b \in Attempts \ {a} : ctl'[b] = ctl[b]
    BY <1>1, PhaseMoves DEF DropGuard
  <1>8. TypeOK'
    BY <1>0, <1>1, <1>3, <1>4, <1>6, <1>7 DEF TypeOK
  <1>9. Local(a)
    <2>1. entries[q].attempt = a
      BY <1>2 DEF Active
    <2> QED
      BY <1>0, <1>3, <1>4, <1>6, <1>7, <2>1 DEF Local
  <1>10. Proper(a)
    <2>1. AttemptOK(a)'
      BY <1>0, <1>1, <1>6, <1>7 DEF AttemptOK, OwnsId, OwnsSession, KillAimed, ControlOK,
            ResultOK, Live, Holds, OnItsWay
    <2>2. \A p \in Queries : ~(entries'[p].kind = "active" /\ entries'[p].attempt = a)
      <3>1. \A p \in Queries \ {q} : ~(entries[p].kind = "active" /\ entries[p].attempt = a)
        BY <1>2 DEF MysqlInv, EntriesOwned
      <3> QED
        BY <1>3, <1>4, <3>1
    <2> QED
      BY <1>6, <2>1, <2>2 DEF Proper, Holds
  <1>11. (\A b \in Attempts : AttemptOK(b)') /\ SessionsApart' /\ EntriesOwned'
    BY <1>8, <1>9, <1>10, LocalStep
  <1>12. \A c \in Callers : CallerOK(c)'
    BY <1>0, <1>6, <1>7, <1>8, CallersKept
  <1>13. RetainedBounded'
    BY <1>3, <1>4 DEF RetainedBounded
  <1> QED
    BY <1>8, <1>11, <1>12, <1>13 DEF MysqlInv, MysqlQueryConstantsOK

-----------------------------------------------------------------------------
(* The steps of a cancel *)

\* cancel, the registry's lock: an execution is found, or the cancel is answered.
LEMMA CancelKeeps ==
    ASSUME MysqlInv, NEW c \in Callers, NEW q \in Queries, Cancel(c, q)
    PROVE  MysqlInv'
  <1>0. UNCHANGED <<ctl, task, kill, session, now>> /\ caller[c].at = "idle"
    BY DEF Cancel
  <1>1. /\ TypeOK /\ CallerOK(c) /\ caller[c] \in CallerState /\ now \in 0 .. MaxTime
        /\ MysqlQueryConstantsOK
    BY DEF MysqlInv, TypeOK
  <1>2. PICK es \in Prune(entries) :
          CASE es[q].kind = "active" ->
                 /\ caller' = [caller EXCEPT ![c].at = "found", ![c].query = q,
                                             ![c].attempt = es[q].attempt]
                 /\ entries' = es
            [] es[q].kind = "finished" ->
                 caller' = Answer(c, q, "false") /\ entries' = es
            [] es[q].kind = "pending" ->
                 /\ caller' = [Answer(c, q, "true") EXCEPT ![c].since = es[q].at]
                 /\ entries' = es
            [] es[q].kind = "none" ->
                 /\ caller' = [Answer(c, q, "true") EXCEPT ![c].since = now]
                 /\ entries' \in Prune([es EXCEPT ![q] = Retained("pending")])
    BY DEF Cancel
  <1>3. /\ es \in [Queries -> Entry]
        /\ \A p \in Queries : \/ es[p] = entries[p]
                              \/ entries[p].kind # "active" /\ es[p].kind # "active"
        /\ Cardinality({p \in Queries : IsRetained(es[p])}) <= MaxRetained
    BY PrunedOthers
  <1>4. es[q] \in Entry /\ es[q].kind \in {"none", "active", "pending", "finished"}
        /\ es[q].at \in 0 .. MaxTime
    BY <1>3 DEF Entry
  <1>5. /\ entries' \in [Queries -> Entry]
        /\ \A p \in Queries : \/ entries'[p] = entries[p]
                              \/ entries[p].kind # "active" /\ entries'[p].kind # "active"
        /\ Cardinality({p \in Queries : IsRetained(entries'[p])}) <= MaxRetained
    <2>1. CASE es[q].kind = "none"
      <3>1. PICK f, fs : /\ f = [es EXCEPT ![q] = Retained("pending")]
                         /\ fs \in Prune(f) /\ fs = entries'
        BY <1>2, <2>1
      <3>2. /\ fs \in [Queries -> Entry] /\ fs[q].kind # "active"
            /\ \A p \in Queries \ {q} : \/ fs[p] = es[p]
                                        \/ es[p].kind # "active" /\ fs[p].kind # "active"
            /\ Cardinality({p \in Queries : IsRetained(fs[p])}) <= MaxRetained
        <4>1. /\ f \in [Queries -> Entry] /\ f[q].kind # "active"
              /\ \A p \in Queries \ {q} : f[p] = es[p]
          BY <1>3, <3>1, RetainedEntry
        <4> QED
          BY <3>1, <4>1, Pruned
      <3> QED
        BY <1>3, <2>1, <3>1, <3>2
    <2>2. CASE es[q].kind # "none"
      <3>1. entries' = es
        BY <1>2, <1>4, <2>2
      <3> QED
        BY <1>3, <3>1
    <2> QED
      BY <2>1, <2>2
  <1>6. PICK y \in CallerState :
          /\ caller' = [caller EXCEPT ![c] = y]
          /\ \/ /\ y.at = "found" /\ y.answer = Nil /\ es[q].kind = "active"
                /\ y.attempt = es[q].attempt /\ y.attempt \in Attempts
             \/ y.at = "done" /\ y.attempt = Nil
    <2>1. caller[c].attempt = Nil /\ caller[c].answer = Nil
      BY <1>0, <1>1 DEF CallerOK
    <2>2. CASE es[q].kind = "active"
      <3>1. es[q].attempt \in Attempts
        BY <1>3, <2>2 DEF MysqlInv, EntriesOwned
      <3>2. PICK y : y = [caller[c] EXCEPT !.at = "found", !.query = q,
                                           !.attempt = es[q].attempt]
        OBVIOUS
      <3>3. caller' = [caller EXCEPT ![c] = y]
        BY <1>1, <1>2, <2>2, <3>2 DEF TypeOK
      <3>4. y \in CallerState /\ y.at = "found" /\ y.answer = Nil /\ y.attempt = es[q].attempt
        BY <1>1, <2>1, <3>1, <3>2 DEF CallerState
      <3> QED
        BY <2>2, <3>1, <3>3, <3>4
    <2>3. CASE es[q].kind = "finished"
      <3>1. PICK y : y = [caller[c] EXCEPT !.at = "done", !.query = q, !.answer = "false"]
        OBVIOUS
      <3>2. caller' = [caller EXCEPT ![c] = y]
        BY <1>1, <1>2, <2>3, <3>1 DEF TypeOK, Answer
      <3>3. y \in CallerState /\ y.at = "done" /\ y.attempt = Nil
        BY <1>1, <2>1, <3>1 DEF CallerState
      <3> QED
        BY <3>2, <3>3
    <2>4. CASE es[q].kind \in {"pending", "none"}
      <3>1. PICK m \in 0 .. MaxTime : caller' = [Answer(c, q, "true") EXCEPT ![c].since = m]
        BY <1>1, <1>2, <1>4, <2>4
      <3>2. PICK y : y = [caller[c] EXCEPT !.at = "done", !.query = q, !.answer = "true",
                                           !.since = m]
        OBVIOUS
      <3>3. caller' = [caller EXCEPT ![c] = y]
        BY <1>1, <3>1, <3>2 DEF TypeOK, Answer
      <3>4. y \in CallerState /\ y.at = "done" /\ y.attempt = Nil
        BY <1>1, <2>1, <3>2 DEF CallerState
      <3> QED
        BY <3>3, <3>4
    <2> QED
      BY <1>4, <2>2, <2>3, <2>4
  <1>9. /\ caller' \in [Callers -> CallerState] /\ caller'[c] = y
        /\ \A d \in Callers \ {c} : caller'[d] = caller[d]
    BY <1>1, <1>6 DEF TypeOK
  <1>10. TypeOK'
    BY <1>0, <1>1, <1>5, <1>9 DEF TypeOK
  <1>11. Local(Nil)
    BY <1>0, <1>5 DEF Local
  <1>12. Nil \notin Attempts
    BY <1>1 DEF MysqlQueryConstantsOK
  <1>13. \A p \in Queries : entries'[p].kind = "active" => entries'[p].attempt \in Attempts
    BY <1>5 DEF MysqlInv, EntriesOwned
  <1>14. (\A b \in Attempts : AttemptOK(b)') /\ SessionsApart' /\ EntriesOwned'
    BY <1>10, <1>11, <1>12, <1>13, LocalStep
  <1>15. ASSUME NEW d \in Callers
         PROVE  CallerOK(d)'
    <2>1. CASE d # c
      BY <1>0, <1>9, <1>10, <2>1, CallersKept
    <2>2. CASE d = c
      <3>1. y.attempt # Nil => task[y.attempt].at # "idle"
        <4>1. y.attempt # Nil => entries[q].kind = "active" /\ entries[q].attempt = y.attempt
          BY <1>3, <1>6
        <4> QED
          BY <4>1 DEF MysqlInv, EntriesOwned, Live
      <3>2. Nil # "true"
        BY <1>1 DEF MysqlQueryConstantsOK
      <3> QED
        BY <1>0, <1>6, <1>9, <2>2, <3>1, <3>2 DEF CallerOK
    <2> QED
      BY <2>1, <2>2
  <1>16. RetainedBounded'
    BY <1>5 DEF RetainedBounded
  <1> QED
    BY <1>10, <1>14, <1>15, <1>16 DEF MysqlInv, MysqlQueryConstantsOK

\* What a cancel's record keeps when it moves on.
LEMMA CallerMoves ==
    ASSUME TypeOK, NEW c \in Callers, NEW w \in {"await", "done"},
           NEW r \in {Nil, "true", "false", "err"},
           caller' = [caller EXCEPT ![c] = [caller[c] EXCEPT !.at = w, !.answer = r]]
    PROVE  /\ caller' \in [Callers -> CallerState]
           /\ caller'[c].at = w /\ caller'[c].answer = r
           /\ caller'[c].query = caller[c].query /\ caller'[c].attempt = caller[c].attempt
           /\ caller'[c].since = caller[c].since
           /\ \A d \in Callers \ {c} : caller'[d] = caller[d]
  <1>1. caller[c] \in CallerState
    BY DEF TypeOK
  <1>2. PICK y : y = [caller[c] EXCEPT !.at = w, !.answer = r]
    OBVIOUS
  <1>3. /\ y \in CallerState /\ y.at = w /\ y.answer = r /\ y.query = caller[c].query
        /\ y.attempt = caller[c].attempt /\ y.since = caller[c].since
    BY <1>1, <1>2 DEF CallerState
  <1>4. /\ caller' \in [Callers -> CallerState] /\ caller'[c] = y
        /\ \A d \in Callers \ {c} : caller'[d] = caller[d]
    BY <1>2, <1>3 DEF TypeOK
  <1> QED
    BY <1>3, <1>4

\* cancel, the phase lock: the request is made before the execution ended, or never.
LEMMA CancelFoundKeeps ==
    ASSUME MysqlInv, NEW c \in Callers, CancelFound(c)
    PROVE  MysqlInv'
  <1>0. UNCHANGED <<entries, task, session, now>> /\ caller[c].at = "found"
    BY DEF CancelFound
  <1>1. /\ TypeOK /\ CallerOK(c) /\ caller[c] \in CallerState /\ Nil # "true"
        /\ Nil \notin Attempts
    BY DEF MysqlInv, TypeOK, MysqlQueryConstantsOK
  <1>2. PICK a \in Attempts : a = caller[c].attempt
    BY <1>0, <1>1 DEF CallerOK
  <1>3. /\ task[a].at # "idle" /\ caller[c].answer = Nil /\ AttemptOK(a)
        /\ ctl[a] \in ControlState /\ task[a] \in TaskState
    BY <1>0, <1>1, <1>2 DEF CallerOK, MysqlInv, TypeOK
  <1>4. PICK w \in {"await", "done"}, r \in {Nil, "false"} :
          /\ caller' = [caller EXCEPT ![c] = [caller[c] EXCEPT !.at = w, !.answer = r]]
          /\ w = "await" => r = Nil /\ ctl[a].phase # "finished"
    <2>1. CASE ctl[a].phase = "finished"
      <3>1. caller' = [caller EXCEPT ![c] = [caller[c] EXCEPT !.at = "done", !.answer = "false"]]
        <4>1. caller' = Answer(c, caller[c].query, "false")
          BY <1>2, <2>1 DEF CancelFound
        <4> QED
          BY <1>1, <4>1 DEF Answer, TypeOK, CallerState
      <3> QED
        BY <3>1
    <2>2. CASE ctl[a].phase # "finished"
      <3>1. caller' = [caller EXCEPT ![c].at = "await"]
        BY <1>2, <1>3, <2>2 DEF CancelFound, ControlState
      <3>2. caller' = [caller EXCEPT ![c] = [caller[c] EXCEPT !.at = "await", !.answer = Nil]]
        BY <1>1, <1>3, <3>1 DEF TypeOK, CallerState
      <3> QED
        BY <2>2, <3>2
    <2> QED
      BY <2>1, <2>2
  <1>5. /\ caller' \in [Callers -> CallerState]
        /\ caller'[c].at = w /\ caller'[c].answer = r /\ caller'[c].attempt = a
        /\ \A d \in Callers \ {c} : caller'[d] = caller[d]
    BY <1>1, <1>2, <1>4, CallerMoves
  <1>6. /\ ctl' \in [Attempts -> ControlState]
        /\ \A b \in Attempts \ {a} : ctl'[b] = ctl[b]
        /\ \/ ctl'[a] = ctl[a] /\ ctl[a].phase \in {"finished", "cancelling"}
           \/ /\ ctl'[a].phase = "cancelling" /\ ctl'[a].requested
              /\ ctl[a].phase \in {"waiting", "running"}
    <2>1. CASE ctl[a].phase \in {"finished", "cancelling"}
      BY <1>1, <1>2, <2>1 DEF CancelFound, TypeOK
    <2>2. CASE ctl[a].phase = "waiting"
      <3>1. ctl' = [ctl EXCEPT ![a] = Control(TRUE)]
        BY <1>2, <2>2 DEF CancelFound
      <3>2. Control(TRUE) \in ControlState /\ Control(TRUE).phase = "cancelling"
            /\ Control(TRUE).requested
        BY DEF Control, ControlState
      <3> QED
        BY <1>1, <2>2, <3>1, <3>2 DEF TypeOK
    <2>3. CASE ctl[a].phase = "running"
      <3>1. PICK k : k = [ctl[a] EXCEPT !.phase = "cancelling", !.requested = TRUE]
        OBVIOUS
      <3>2. ctl' = [ctl EXCEPT ![a] = k]
        BY <1>1, <1>2, <2>3, <3>1 DEF CancelFound, TypeOK
      <3>3. k \in ControlState /\ k.phase = "cancelling" /\ k.requested
        BY <1>3, <3>1 DEF ControlState
      <3> QED
        BY <1>1, <2>3, <3>2, <3>3 DEF TypeOK
    <2> QED
      BY <1>3, <2>1, <2>2, <2>3 DEF ControlState
  <1>7. \/ kill' = kill
        \/ kill' = [kill EXCEPT ![a] = "connect"] /\ ctl[a].phase = "running"
    BY <1>2, <1>3 DEF CancelFound, ControlState
  <1>8. /\ kill' \in [Attempts -> {"none", "connect", "sent", "late", "over"}]
        /\ kill'[a] = kill[a] \/ (kill'[a] = "connect" /\ ctl[a].phase = "running")
        /\ \A b \in Attempts \ {a} : kill'[b] = kill[b]
    BY <1>1, <1>7 DEF TypeOK
  <1>9. TypeOK'
    BY <1>0, <1>1, <1>5, <1>6, <1>8 DEF TypeOK
  <1>10. Local(a)
    BY <1>0, <1>6, <1>8 DEF Local
  <1>11. ctl[a].phase \in {"waiting", "running"} => task[a].result # "ok" \/ task[a].at = "settle"
    BY <1>3 DEF AttemptOK, ControlOK, ResultOK
  <1>12. AttemptOK(a)'
    <2>1. OwnsId(a)' /\ OwnsSession(a)' /\ KillAimed(a)'
      BY <1>0, <1>3, <1>6, <1>8 DEF AttemptOK, OwnsId, OwnsSession, KillAimed, ControlOK,
            Live, Holds, OnItsWay, Active
    <2>2. ControlOK(a)' /\ ResultOK(a)'
      BY <1>0, <1>3, <1>6, <1>11 DEF AttemptOK, ControlOK, ResultOK
    <2> QED
      BY <2>1, <2>2 DEF AttemptOK
  <1>13. Proper(a)
    BY <1>0, <1>12 DEF Proper, MysqlInv, EntriesOwned, Live, Holds
  <1>14. (\A b \in Attempts : AttemptOK(b)') /\ SessionsApart' /\ EntriesOwned'
    BY <1>9, <1>10, <1>13, LocalStep
  <1>15. ASSUME NEW d \in Callers
         PROVE  CallerOK(d)'
    <2>1. CASE d # c
      BY <1>0, <1>5, <1>6, <1>9, <2>1, CallersKept
    <2>2. CASE d = c
      <3>1. w = "await" => ctl'[a].requested
        BY <1>3, <1>4, <1>6 DEF AttemptOK, ControlOK
      <3> QED
        BY <1>0, <1>1, <1>3, <1>4, <1>5, <2>2, <3>1 DEF CallerOK
    <2> QED
      BY <2>1, <2>2
  <1> QED
    BY <1>0, <1>9, <1>14, <1>15 DEF MysqlInv, RetainedBounded, MysqlQueryConstantsOK

\* cancel returns what the outcome says.
LEMMA CancelReturnsKeeps ==
    ASSUME MysqlInv, NEW c \in Callers, CancelReturns(c)
    PROVE  MysqlInv'
  <1>0. UNCHANGED <<entries, ctl, task, kill, session, now>> /\ caller[c].at = "await"
    BY DEF CancelReturns
  <1>1. TypeOK /\ CallerOK(c) /\ caller[c] \in CallerState /\ Nil \notin Attempts
    BY DEF MysqlInv, TypeOK, MysqlQueryConstantsOK
  <1>2. PICK r \in {"true", "err"} :
          caller' = [caller EXCEPT ![c] = [caller[c] EXCEPT !.at = "done", !.answer = r]]
    <2>1. PICK r \in {"true", "err"} : caller' = Answer(c, caller[c].query, r)
      BY DEF CancelReturns
    <2>2. caller' = [caller EXCEPT ![c] = [caller[c] EXCEPT !.at = "done", !.answer = r]]
      BY <1>1, <2>1 DEF Answer, TypeOK, CallerState
    <2> QED
      BY <2>2
  <1>3. /\ caller' \in [Callers -> CallerState]
        /\ caller'[c].at = "done" /\ caller'[c].answer = r
        /\ caller'[c].attempt = caller[c].attempt
        /\ \A d \in Callers \ {c} : caller'[d] = caller[d]
    BY <1>1, <1>2, CallerMoves
  <1>4. TypeOK'
    BY <1>0, <1>1, <1>3 DEF TypeOK
  <1>5. Local(Nil)
    BY <1>0 DEF Local
  <1>6. \A q \in Queries : entries'[q].kind = "active" => entries'[q].attempt \in Attempts
    BY <1>0 DEF MysqlInv, EntriesOwned
  <1>7. (\A b \in Attempts : AttemptOK(b)') /\ SessionsApart' /\ EntriesOwned'
    BY <1>1, <1>4, <1>5, <1>6, LocalStep
  <1>8. ASSUME NEW d \in Callers
        PROVE  CallerOK(d)'
    <2>1. CASE d # c
      BY <1>0, <1>3, <1>4, <2>1, CallersKept
    <2>2. CASE d = c
      BY <1>0, <1>1, <1>3, <2>2 DEF CallerOK
    <2> QED
      BY <2>1, <2>2
  <1> QED
    BY <1>0, <1>4, <1>7, <1>8 DEF MysqlInv, RetainedBounded, MysqlQueryConstantsOK

-----------------------------------------------------------------------------
(* The invariant holds, and what follows from it *)

\* Nothing is registered, held or asked for at the start.
LEMMA InitOK ==
    ASSUME MysqlQueryConstantsOK, Init
    PROVE  MysqlInv
  <1>1. NoEntry \in Entry /\ NoEntry.kind = "none" /\ ~IsRetained(NoEntry)
    BY DEF MysqlQueryConstantsOK, NoEntry, Entry, IsRetained
  <1>2. /\ Control(FALSE) \in ControlState /\ Control(FALSE).phase = "waiting"
        /\ ~Control(FALSE).requested
    BY DEF Control, ControlState
  <1>3. TypeOK
    <2>1. entries \in [Queries -> Entry] /\ ctl \in [Attempts -> ControlState]
      BY <1>1, <1>2 DEF Init
    <2>2. task \in [Attempts -> TaskState] /\ caller \in [Callers -> CallerState]
      BY DEF Init, TaskState, CallerState, MysqlQueryConstantsOK
    <2>3. /\ kill \in [Attempts -> {"none", "connect", "sent", "late", "over"}]
          /\ session \in [Sessions -> SessionState] /\ now \in 0 .. MaxTime
      BY DEF Init, SessionState, MysqlQueryConstantsOK
    <2> QED
      BY <2>1, <2>2, <2>3 DEF TypeOK
  <1>4. \A a \in Attempts : AttemptOK(a)
    BY <1>2 DEF Init, MysqlQueryConstantsOK, AttemptOK, OwnsId, OwnsSession, KillAimed, ControlOK,
          ResultOK, Live, Holds, OnItsWay
  <1>5. SessionsApart /\ EntriesOwned
    BY <1>1 DEF Init, SessionsApart, EntriesOwned, Holds
  <1>6. \A c \in Callers : CallerOK(c)
    BY DEF Init, CallerOK, MysqlQueryConstantsOK
  <1>7. RetainedBounded
    <2>1. {q \in Queries : IsRetained(entries[q])} = {}
      BY <1>1 DEF Init
    <2> QED
      BY <2>1, FS_EmptySet DEF RetainedBounded, MysqlQueryConstantsOK
  <1> QED
    BY <1>3, <1>4, <1>5, <1>6, <1>7 DEF MysqlInv

\* Every step keeps the invariant.
LEMMA NextOK ==
    ASSUME MysqlInv, [Next]_vars
    PROVE  MysqlInv'
  <1>1. ASSUME NEW a \in Attempts, NEW q \in Queries, Register(a, q) \/ RegisterRefused(a, q)
        PROVE  MysqlInv'
    BY <1>1, RegisterKeeps, RegisterRefusedKeeps
  <1>2. ASSUME NEW a \in Attempts, Connect(a) \/ TaskStep(a)
        PROVE  MysqlInv'
    BY <1>2, ConnectKeeps, MoveKeeps, AttachKeeps, SendSqlKeeps, SettleKeeps, FinishKeeps,
       DropGuardKeeps DEF TaskStep
  <1>3. ASSUME NEW c \in Callers, NEW q \in Queries, Cancel(c, q)
        PROVE  MysqlInv'
    BY <1>3, CancelKeeps
  <1>4. ASSUME NEW c \in Callers, CancelFound(c) \/ CancelReturns(c)
        PROVE  MysqlInv'
    BY <1>4, CancelFoundKeeps, CancelReturnsKeeps
  <1>5. ASSUME NEW a \in Attempts, SendKill(a) \/ KillArrives(a) \/ KillFails(a)
        PROVE  MysqlInv'
    BY <1>5, KillKeeps
  <1>6. CASE Tick \/ \E s \in Sessions : StatementEnds(s)
    BY <1>6, WorldKeeps
  <1>7. CASE UNCHANGED vars
    BY <1>7 DEF vars, MysqlInv, TypeOK, AttemptOK, OwnsId, OwnsSession, KillAimed, ControlOK,
       ResultOK, SessionsApart, EntriesOwned, CallerOK, RetainedBounded, Live, Holds, OnItsWay,
       Active, MysqlQueryConstantsOK
  <1> QED
    BY <1>1, <1>2, <1>3, <1>4, <1>5, <1>6, <1>7 DEF Next

\* The invariant holds in every state of every behaviour.
THEOREM MysqlInvariance ==
    ASSUME MysqlQueryConstantsOK
    PROVE  Spec => []MysqlInv
  BY InitOK, NextOK, PTL DEF Spec

\* A KILL QUERY, one that arrives after its time-out included, never hits the next
\* statement of a pooled session, whatever the server and the callers do
\* (cancel, settle and finish_connection of mysql_query.rs).
THEOREM KillsStayHome ==
    ASSUME MysqlQueryConstantsOK
    PROVE  Spec => []StopStaysWithQuery
  <1>1. MysqlInv => StopStaysWithQuery
    <2> SUFFICES ASSUME MysqlInv, NEW a \in Attempts, OnItsWay(a), NEW s, s = task[a].session
                 PROVE  /\ s # Nil /\ session[s].state # "pooled"
                        /\ \A b \in Attempts \ {a} :
                              task[b].session = s /\ task[b].at \notin {"drop", "done"} =>
                                  session[s].state = "closed"
      BY DEF StopStaysWithQuery, OnItsWay
    <2>1. s \in Sessions /\ s # Nil
      BY DEF MysqlInv, AttemptOK, KillAimed, OnItsWay, MysqlQueryConstantsOK
    <2>2. CASE Holds(a)
      <3>1. session[s].state = "leased"
        BY <2>2 DEF MysqlInv, AttemptOK, OwnsSession
      <3>2. ASSUME NEW b \in Attempts \ {a}, task[b].session = s,
                   task[b].at \notin {"drop", "done"}
            PROVE  FALSE
        <4>1. task[b].at \notin {"idle", "connect"}
          BY <2>1, <3>2 DEF MysqlInv, AttemptOK, OwnsSession
        <4>2. Holds(b)
          BY <3>2, <4>1 DEF MysqlInv, TypeOK, TaskState, Holds
        <4> QED
          BY <2>2, <3>2, <4>2 DEF MysqlInv, SessionsApart
      <3> QED
        BY <2>1, <3>1, <3>2
    <2>3. CASE ~Holds(a)
      BY <2>1, <2>3 DEF MysqlInv, AttemptOK, KillAimed
    <2> QED
      BY <2>2, <2>3
  <1> QED
    BY <1>1, MysqlInvariance, PTL

\* Two executions with one id never run at the same time, although entries expire
\* and are evicted, and what is kept of ended ids is bounded (register, prune and
\* Drop of mysql_query.rs).
THEOREM IdsRunOnce ==
    ASSUME MysqlQueryConstantsOK
    PROVE  Spec => [](TypeOK /\ OneRunPerId /\ RetainedBounded)
  <1>1. MysqlInv => TypeOK /\ OneRunPerId /\ RetainedBounded
    <2> SUFFICES ASSUME MysqlInv, NEW a \in Attempts, NEW b \in Attempts,
                        a # b, task[a].query = task[b].query, Live(a), Live(b)
                 PROVE  FALSE
      BY DEF OneRunPerId, MysqlInv, Live
    <2>1. Active(a) = Active(b)
      BY DEF MysqlInv, AttemptOK, OwnsId
    <2> QED
      BY <2>1 DEF Active
  <1> QED
    BY <1>1, MysqlInvariance, PTL

-----------------------------------------------------------------------------
(* An accepted cancel is effective *)

\* No entry is evicted: there are no more ids than entries may be retained, or one
\* more fits.
Room ==
    \/ Cardinality(Queries) <= MaxRetained
    \/ Cardinality({q \in Queries : IsRetained(entries[q])}) < MaxRetained

\* An id used at time t can neither be used again nor be cancelled for a while.
Guarded(q, t) ==
    now < t + RetainFor =>
        \/ entries[q].kind = "active"
        \/ entries[q].kind = "finished" /\ entries[q].at >= t

\* A cancel of an id accepted at time t is remembered for as long.
Remembered(q, t) ==
    now < t + RetainFor =>
        \/ entries[q].kind = "active"
        \/ IsRetained(entries[q]) /\ entries[q].at >= t

BornOK(a) == task[a].query # Nil => task[a].born <= now /\ Guarded(task[a].query, task[a].born)

TombOK(q) ==
    /\ IsRetained(entries[q]) => entries[q].at <= now
    /\ entries[q].kind = "pending" =>
          \A a \in Attempts : task[a].query = q => task[a].born < entries[q].at

\* An answer that was given without finding the execution.
Promised(c) == caller[c].answer = "true" /\ caller[c].attempt = Nil

PromiseOK(c) ==
    Promised(c) =>
        /\ caller[c].query \in Queries /\ caller[c].since <= now
        /\ Remembered(caller[c].query, caller[c].since)
        /\ \A a \in Attempts :
              /\ task[a].query = caller[c].query
              /\ task[a].born >= caller[c].since
              /\ task[a].born < caller[c].since + RetainFor
              => ctl[a].requested

Tombs ==
    /\ \A a \in Attempts : BornOK(a)
    /\ \A q \in Queries : TombOK(q)
    /\ \A c \in Callers : PromiseOK(c)

\* What most steps leave alone.
Steady ==
    /\ \A a \in Attempts : /\ task'[a].query = task[a].query
                           /\ task'[a].born = task[a].born
                           /\ ctl[a].requested => ctl'[a].requested
    /\ entries' = entries
    /\ \A c \in Callers : caller'[c] = caller[c] \/ caller'[c].attempt # Nil
    /\ now <= now'

\* Numbers of the clock are integers.
LEMMA Clocks ==
    ASSUME MysqlInv
    PROVE  /\ now \in Nat /\ RetainFor \in Nat \ {0} /\ MaxTime \in Nat
           /\ \A a \in Attempts : task[a].born \in Nat
           /\ \A q \in Queries : entries[q].at \in Nat
           /\ \A c \in Callers : caller[c].since \in Nat
  BY DEF MysqlInv, TypeOK, MysqlQueryConstantsOK, TaskState, Entry, CallerState

\* Such a step keeps every promise.
LEMMA SteadyKeeps ==
    ASSUME MysqlInv, MysqlInv', Tombs, Steady
    PROVE  Tombs'
  <1>1. /\ now \in Nat /\ now' \in Nat /\ RetainFor \in Nat /\ now <= now'
        /\ \A a \in Attempts : task[a].born \in Nat
        /\ \A q \in Queries : entries[q].at \in Nat
        /\ \A c \in Callers : caller[c].since \in Nat
    BY Clocks DEF MysqlInv, TypeOK, Steady
  <1>2. \A a \in Attempts : BornOK(a)'
    BY <1>1 DEF Tombs, BornOK, Guarded, Steady
  <1>3. \A q \in Queries : TombOK(q)'
    BY <1>1 DEF Tombs, TombOK, Steady, IsRetained
  <1>4. ASSUME NEW c \in Callers
        PROVE  PromiseOK(c)'
    <2>1. CASE caller'[c].attempt # Nil
      BY <2>1 DEF PromiseOK, Promised
    <2>2. CASE caller'[c] = caller[c]
      BY <1>1, <2>2 DEF Tombs, PromiseOK, Promised, Remembered, Steady, IsRetained
    <2> QED
      BY <2>1, <2>2 DEF Steady
  <1> QED
    BY <1>2, <1>3, <1>4 DEF Tombs

\* What prune makes of an entry if nothing has to be evicted: it expires or stays.
Aged(old, new) ==
    \/ new = old
    \/ new = NoEntry /\ IsRetained(old) /\ now >= old.at + RetainFor

\* Nothing is evicted while the retained entries fit.
LEMMA PruneFits ==
    ASSUME MysqlInv, NEW e \in [Queries -> Entry], NEW es \in Prune(e),
           Cardinality({q \in Queries : IsRetained(e[q])}) <= MaxRetained
    PROVE  \A q \in Queries : Aged(e[q], es[q])
  <1> DEFINE fresh == Fresh(e)
             all == {q \in Queries : IsRetained(e[q])}
             kept == {q \in Queries : IsRetained(fresh[q])}
             n == Cardinality(kept)
             excess == IF n > MaxRetained THEN n - MaxRetained ELSE 0
  <1>1. PICK out \in SUBSET kept :
              /\ Cardinality(out) = excess
              /\ es = [q \in Queries |-> IF q \in out THEN NoEntry ELSE fresh[q]]
    BY DEF Prune
  <1>2. \A q \in Queries : Aged(e[q], fresh[q]) /\ (fresh[q] = e[q] \/ ~IsRetained(fresh[q]))
    <2>1. now \in Nat /\ RetainFor \in Nat /\ \A q \in Queries : e[q].at \in Nat
      BY DEF MysqlInv, TypeOK, MysqlQueryConstantsOK, Entry
    <2>2. ~IsRetained(NoEntry)
      BY DEF IsRetained, NoEntry
    <2> QED
      BY <2>1, <2>2 DEF Fresh, Aged
  <1>3. kept \subseteq all
    BY <1>2
  <1>4. IsFiniteSet(all) /\ Cardinality(all) \in Nat /\ MaxRetained \in Nat
    BY FS_Subset, FS_CardinalityType DEF MysqlInv, MysqlQueryConstantsOK
  <1>5. IsFiniteSet(kept) /\ n \in Nat /\ n <= Cardinality(all)
    BY <1>3, <1>4, FS_Subset, FS_CardinalityType
  <1>6. excess = 0
    BY <1>4, <1>5
  <1>7. IsFiniteSet(out)
    BY <1>5, FS_Subset
  <1>8. out = {}
    BY <1>1, <1>6, <1>7, FS_EmptySet
  <1> QED
    BY <1>1, <1>2, <1>8

\* The first prune of every operation only ages the entries.
LEMMA PruneAges ==
    ASSUME MysqlInv, NEW es \in Prune(entries)
    PROVE  es \in [Queries -> Entry] /\ \A q \in Queries : Aged(entries[q], es[q])
  <1>1. entries \in [Queries -> Entry]
    BY DEF MysqlInv, TypeOK
  <1>2. Cardinality({q \in Queries : IsRetained(entries[q])}) <= MaxRetained
    BY DEF MysqlInv, RetainedBounded
  <1> QED
    BY <1>1, <1>2, PruneFits, Pruned

\* While there is room, so does the prune after a new retained entry.
LEMMA RoomAges ==
    ASSUME MysqlInv, Room, NEW e \in [Queries -> Entry], NEW q \in Queries,
           \A p \in Queries : IsRetained(e[p]) => IsRetained(entries[p]),
           NEW f \in [Queries -> Entry], NEW es \in Prune(f),
           \A p \in Queries \ {q} : f[p] = e[p]
    PROVE  es \in [Queries -> Entry] /\ \A p \in Queries : Aged(f[p], es[p])
  <1> DEFINE old == {p \in Queries : IsRetained(entries[p])}
             new == {p \in Queries : IsRetained(f[p])}
  <1>1. new \subseteq old \cup {q} /\ new \subseteq Queries /\ old \subseteq Queries
    OBVIOUS
  <1>2. IsFiniteSet(Queries) /\ MaxRetained \in Nat
    BY DEF MysqlInv, MysqlQueryConstantsOK
  <1>3. IsFiniteSet(old) /\ Cardinality(old) \in Nat /\ Cardinality(Queries) \in Nat
    BY <1>1, <1>2, FS_Subset, FS_CardinalityType
  <1>4. IsFiniteSet(new) /\ Cardinality(new) \in Nat
    BY <1>1, <1>2, FS_Subset, FS_CardinalityType
  <1>5. Cardinality(new) <= MaxRetained
    <2>1. CASE Cardinality(Queries) <= MaxRetained
      <3>1. Cardinality(new) <= Cardinality(Queries)
        BY <1>1, <1>2, FS_Subset
      <3> QED
        BY <1>2, <1>3, <1>4, <2>1, <3>1
    <2>2. CASE Cardinality(old) < MaxRetained
      <3>1. /\ IsFiniteSet(old \cup {q})
            /\ Cardinality(old \cup {q}) = IF q \in old THEN Cardinality(old)
                                           ELSE Cardinality(old) + 1
        BY <1>3, FS_AddElement
      <3>2. Cardinality(new) <= Cardinality(old \cup {q})
        BY <1>1, <3>1, FS_Subset
      <3> QED
        BY <1>2, <1>3, <1>4, <2>2, <3>1, <3>2
    <2> QED
      BY <2>1, <2>2 DEF Room
  <1> QED
    BY <1>5, PruneFits, Pruned

\* Aging breaks no promise.
LEMMA AgedGuards ==
    ASSUME MysqlInv, NEW q \in Queries, NEW t \in Nat, NEW x \in Entry,
           Aged(entries[q], x), now < t + RetainFor
    PROVE  /\ Guarded(q, t) => x = entries[q]
           /\ Remembered(q, t) => x = entries[q]
  <1>1. /\ now \in Nat /\ RetainFor \in Nat /\ entries[q].at \in Nat
    BY Clocks
  <1> QED
    BY <1>1 DEF Aged, Guarded, Remembered, IsRetained

\* How an entry changes when no execution is registered: it ages, its execution
\* ends, or a tombstone is left where every use of the id is long over.
Rewritten(q) ==
    \/ Aged(entries[q], entries'[q])
    \/ entries'[q] = Retained("finished")
    \/ /\ entries'[q] = Retained("pending")
       /\ \A a \in Attempts : task[a].query = q => now >= task[a].born + RetainFor

\* Such a change keeps what is known of executions and entries, and the promises
\* that were made.
LEMMA RewriteKeeps ==
    ASSUME MysqlInv, MysqlInv', Tombs, now' = now,
           \A q \in Queries : Rewritten(q),
           \A a \in Attempts : /\ task'[a].query = task[a].query
                               /\ task'[a].born = task[a].born
                               /\ ctl[a].requested => ctl'[a].requested
    PROVE  /\ \A a \in Attempts : BornOK(a)'
           /\ \A q \in Queries : TombOK(q)'
           /\ \A c \in Callers : caller'[c] = caller[c] => PromiseOK(c)'
  <1>1. /\ now \in Nat /\ RetainFor \in Nat \ {0}
        /\ \A a \in Attempts : task[a].born \in Nat
        /\ \A q \in Queries : entries[q].at \in Nat /\ entries'[q] \in Entry
        /\ \A c \in Callers : caller[c].since \in Nat
    BY Clocks DEF MysqlInv, TypeOK
  <1>2. /\ \A k \in {"pending", "finished"} : Retained(k).kind = k /\ Retained(k).at = now
        /\ NoEntry.kind = "none"
    BY DEF Retained, NoEntry
  <1>3. \A a \in Attempts : task[a].query # Nil => task[a].query \in Queries
    BY DEF MysqlInv, TypeOK, TaskState
  <1>4. ASSUME NEW a \in Attempts
        PROVE  BornOK(a)'
    <2> SUFFICES ASSUME task[a].query # Nil, NEW q \in Queries, q = task[a].query,
                        NEW t \in Nat, t = task[a].born, now < t + RetainFor
                 PROVE  \/ entries'[q].kind = "active"
                        \/ entries'[q].kind = "finished" /\ entries'[q].at >= t
      <3>1. BornOK(a)
        BY DEF Tombs
      <3> QED
        BY <1>1, <1>3, <3>1 DEF BornOK, Guarded
    <2>1. t <= now /\ Guarded(q, t)
      BY DEF Tombs, BornOK
    <2>2. CASE Aged(entries[q], entries'[q])
      <3>1. entries'[q] = entries[q]
        BY <1>1, <2>1, <2>2, AgedGuards
      <3> QED
        BY <2>1, <3>1 DEF Guarded
    <2>3. CASE entries'[q] = Retained("finished")
      BY <1>1, <1>2, <2>1, <2>3
    <2>4. CASE now >= task[a].born + RetainFor
      BY <1>1, <2>4
    <2> QED
      BY <2>2, <2>3, <2>4 DEF Rewritten
  <1>5. ASSUME NEW q \in Queries
        PROVE  TombOK(q)'
    <2>1. CASE Aged(entries[q], entries'[q])
      BY <1>1, <1>2, <2>1 DEF Tombs, TombOK, Aged, IsRetained
    <2>2. CASE entries'[q] = Retained("finished")
      BY <1>1, <1>2, <2>2 DEF TombOK, IsRetained
    <2>3. CASE /\ entries'[q] = Retained("pending")
               /\ \A a \in Attempts : task[a].query = q => now >= task[a].born + RetainFor
      BY <1>1, <1>2, <2>3 DEF TombOK, IsRetained
    <2> QED
      BY <2>1, <2>2, <2>3 DEF Rewritten
  <1>6. ASSUME NEW c \in Callers, caller'[c] = caller[c]
        PROVE  PromiseOK(c)'
    <2> SUFFICES ASSUME Promised(c)
                 PROVE  PromiseOK(c)'
      BY <1>6 DEF PromiseOK, Promised
    <2>1. PICK q \in Queries, t \in Nat : q = caller[c].query /\ t = caller[c].since
      BY <1>1 DEF Tombs, PromiseOK
    <2>2. t <= now /\ Remembered(q, t)
      BY <2>1 DEF Tombs, PromiseOK
    <2>3. ASSUME now < t + RetainFor
          PROVE  \/ entries'[q].kind = "active"
                 \/ IsRetained(entries'[q]) /\ entries'[q].at >= t
      <3>1. CASE Aged(entries[q], entries'[q])
        <4>1. entries'[q] = entries[q]
          BY <1>1, <2>2, <2>3, <3>1, AgedGuards
        <4> QED
          BY <2>2, <2>3, <4>1 DEF Remembered
      <3>2. CASE entries'[q] = Retained("finished") \/ entries'[q] = Retained("pending")
        BY <1>1, <1>2, <2>2, <3>2 DEF IsRetained
      <3> QED
        BY <3>1, <3>2 DEF Rewritten
    <2> QED
      BY <1>1, <1>6, <2>1, <2>2, <2>3 DEF Tombs, PromiseOK, Remembered, IsRetained
  <1> QED
    BY <1>4, <1>5, <1>6

\* register after a tombstone starts the execution as cancelled.
LEMMA RegisterPromises ==
    ASSUME MysqlInv, MysqlInv', Tombs, NEW a \in Attempts, NEW q \in Queries, Register(a, q)
    PROVE  Tombs'
  <1>0. UNCHANGED <<caller, now>> /\ task[a].at = "idle" /\ task[a].query = Nil
    BY DEF Register, MysqlInv, AttemptOK, OwnsId
  <1>1. /\ now \in Nat /\ RetainFor \in Nat \ {0}
        /\ \A b \in Attempts : task[b].born \in Nat
        /\ \A c \in Callers : caller[c].since \in Nat
        /\ Nil \notin Queries
    BY Clocks DEF MysqlInv, MysqlQueryConstantsOK
  <1>2. PICK es \in Prune(entries) :
              /\ es[q].kind \in {"none", "pending"}
              /\ entries' = [es EXCEPT ![q] = Active(a)]
              /\ ctl' = [ctl EXCEPT ![a] = Control(es[q].kind = "pending")]
    BY DEF Register
  <1>3. es \in [Queries -> Entry] /\ \A p \in Queries : Aged(entries[p], es[p])
    BY PruneAges
  <1>4. entries'[q].kind = "active" /\ \A p \in Queries \ {q} : entries'[p] = es[p]
    BY <1>2, <1>3 DEF Active
  <1>5. /\ ctl'[a].requested <=> es[q].kind = "pending"
        /\ \A b \in Attempts \ {a} : ctl'[b] = ctl[b]
    BY <1>2 DEF Control, MysqlInv, TypeOK
  <1>6. /\ task'[a].query = q /\ task'[a].born = now
        /\ \A b \in Attempts \ {a} : task'[b] = task[b]
    <2>1. task[a] \in TaskState /\ task \in [Attempts -> TaskState]
      BY DEF MysqlInv, TypeOK
    <2>2. task'[a] = [task[a] EXCEPT !.at = "connect", !.query = q, !.born = now]
          /\ \A b \in Attempts \ {a} : task'[b] = task[b]
      BY <2>1 DEF Register
    <2> QED
      BY <2>1, <2>2 DEF TaskState
  <1>7. ASSUME NEW b \in Attempts
        PROVE  BornOK(b)'
    <2>1. CASE b = a
      BY <1>0, <1>1, <1>4, <1>6, <2>1 DEF BornOK, Guarded
    <2>2. CASE b # a /\ task[b].query = q
      BY <1>0, <1>4, <1>6, <2>2 DEF BornOK, Guarded, Tombs
    <2>3. CASE b # a /\ task[b].query \notin {q, Nil}
      <3>1. PICK p \in Queries, t \in Nat : p = task[b].query /\ t = task[b].born
        BY <1>1, <2>3 DEF MysqlInv, TypeOK, TaskState
      <3>2. p # q /\ t <= now /\ Guarded(p, t)
        BY <2>3, <3>1 DEF Tombs, BornOK
      <3>3. now < t + RetainFor => es[p] = entries[p]
        BY <1>3, <3>2, AgedGuards
      <3> QED
        BY <1>0, <1>4, <1>6, <2>3, <3>1, <3>2, <3>3 DEF BornOK, Guarded
    <2>4. CASE b # a /\ task[b].query = Nil
      BY <1>6, <2>4 DEF BornOK
    <2> QED
      BY <2>1, <2>2, <2>3, <2>4
  <1>8. ASSUME NEW p \in Queries
        PROVE  TombOK(p)'
    <2>1. CASE p = q
      BY <1>4, <2>1 DEF TombOK, IsRetained
    <2>2. CASE p # q
      <3>1. entries'[p] = entries[p] \/ entries'[p] = NoEntry
        BY <1>3, <1>4, <2>2 DEF Aged
      <3> QED
        BY <1>0, <1>6, <2>2, <3>1 DEF Tombs, TombOK, IsRetained, NoEntry
    <2> QED
      BY <2>1, <2>2
  <1>9. ASSUME NEW c \in Callers
        PROVE  PromiseOK(c)'
    <2> SUFFICES ASSUME Promised(c)
                 PROVE  PromiseOK(c)'
      BY <1>0 DEF PromiseOK, Promised
    <2>1. PICK p \in Queries, t \in Nat : p = caller[c].query /\ t = caller[c].since
      BY <1>1 DEF Tombs, PromiseOK
    <2>2. t <= now /\ Remembered(p, t)
      BY <2>1 DEF Tombs, PromiseOK
    <2>3. now < t + RetainFor => es[p] = entries[p]
      BY <1>3, <2>2, AgedGuards
    <2>4. now < t + RetainFor => \/ entries'[p].kind = "active"
                                 \/ IsRetained(entries'[p]) /\ entries'[p].at >= t
      BY <1>4, <2>2, <2>3 DEF Remembered
    <2>5. p = q /\ now < t + RetainFor => ctl'[a].requested
      BY <1>2, <1>5, <2>2, <2>3 DEF Remembered, IsRetained
    <2>6. ASSUME NEW b \in Attempts, task'[b].query = p, task'[b].born >= t,
                 task'[b].born < t + RetainFor
          PROVE  ctl'[b].requested
      <3>1. CASE b = a
        BY <1>6, <2>5, <2>6, <3>1
      <3>2. CASE b # a
        BY <1>5, <1>6, <2>1, <2>6, <3>2 DEF Tombs, PromiseOK
      <3> QED
        BY <3>1, <3>2
    <2> QED
      BY <1>0, <2>1, <2>2, <2>4, <2>6 DEF PromiseOK, Remembered
  <1> QED
    BY <1>7, <1>8, <1>9 DEF Tombs

\* A refused id.
LEMMA RefusalPromises ==
    ASSUME MysqlInv, MysqlInv', Tombs, NEW a \in Attempts, NEW q \in Queries,
           RegisterRefused(a, q)
    PROVE  Tombs'
  <1>0. UNCHANGED <<ctl, caller, now>> /\ entries' \in Prune(entries)
    BY DEF RegisterRefused
  <1>1. PICK es \in Prune(entries) : es = entries'
    BY <1>0
  <1>2. \A p \in Queries : Rewritten(p)
    BY <1>1, PruneAges DEF Rewritten
  <1>3. \A b \in Attempts : task'[b].query = task[b].query /\ task'[b].born = task[b].born
    BY DEF RegisterRefused, MysqlInv, TypeOK, TaskState
  <1> QED
    BY <1>0, <1>2, <1>3, RewriteKeeps DEF Tombs

\* Drop of the guard: the id stays used for as long as any promise about it.
LEMMA DropPromises ==
    ASSUME MysqlInv, MysqlInv', Room, Tombs, NEW a \in Attempts, DropGuard(a)
    PROVE  Tombs'
  <1>0. UNCHANGED <<caller, now>> /\ task[a].at = "drop"
    BY DEF DropGuard
  <1>1. PICK q \in Queries : q = task[a].query /\ entries[q] = Active(a)
    BY <1>0 DEF MysqlInv, AttemptOK, OwnsId, Live
  <1>2. PICK f, es : /\ f = [entries EXCEPT ![q] = Retained("finished")]
                     /\ es \in Prune(f) /\ es = entries'
    BY <1>1 DEF DropGuard
  <1>3. entries \in [Queries -> Entry]
    BY DEF MysqlInv, TypeOK
  <1>4. /\ f \in [Queries -> Entry] /\ f[q] = Retained("finished")
        /\ \A p \in Queries \ {q} : f[p] = entries[p]
    BY <1>2, <1>3, RetainedEntry
  <1>5. \A p \in Queries : Aged(f[p], es[p])
    BY <1>2, <1>3, <1>4, RoomAges
  <1>6. es[q] = Retained("finished")
    <2>1. now \in Nat /\ RetainFor \in Nat \ {0} /\ Retained("finished").at = now
      BY Clocks DEF Retained
    <2> QED
      BY <1>4, <1>5, <2>1 DEF Aged
  <1>7. \A p \in Queries : Rewritten(p)
    BY <1>2, <1>4, <1>5, <1>6 DEF Rewritten
  <1>8. \A b \in Attempts : /\ task'[b].query = task[b].query /\ task'[b].born = task[b].born
                            /\ ctl[b].requested => ctl'[b].requested
    BY DEF DropGuard, MysqlInv, TypeOK, TaskState, ControlState
  <1> QED
    BY <1>0, <1>7, <1>8, RewriteKeeps DEF Tombs

\* cancel: a promise is made only where the id is free, and remembered from then on.
LEMMA CancelPromises ==
    ASSUME MysqlInv, MysqlInv', Room, Tombs, NEW c \in Callers, NEW q \in Queries, Cancel(c, q)
    PROVE  Tombs'
  <1>0. UNCHANGED <<ctl, task, now>> /\ caller[c].at = "idle"
    BY DEF Cancel
  <1>1. PICK es \in Prune(entries) :
          CASE es[q].kind = "active" ->
                 /\ caller' = [caller EXCEPT ![c].at = "found", ![c].query = q,
                                             ![c].attempt = es[q].attempt]
                 /\ entries' = es
            [] es[q].kind = "finished" ->
                 caller' = Answer(c, q, "false") /\ entries' = es
            [] es[q].kind = "pending" ->
                 /\ caller' = [Answer(c, q, "true") EXCEPT ![c].since = es[q].at]
                 /\ entries' = es
            [] es[q].kind = "none" ->
                 /\ caller' = [Answer(c, q, "true") EXCEPT ![c].since = now]
                 /\ entries' \in Prune([es EXCEPT ![q] = Retained("pending")])
    BY DEF Cancel
  <1>2. es \in [Queries -> Entry] /\ \A p \in Queries : Aged(entries[p], es[p])
    BY PruneAges
  <1>3. es[q].kind \in {"none", "active", "pending", "finished"}
    BY <1>2 DEF Entry
  <1>4. /\ now \in Nat /\ RetainFor \in Nat \ {0}
        /\ \A a \in Attempts : task[a].born \in Nat
    BY Clocks
  <1>5. caller \in [Callers -> CallerState] /\ caller[c] \in CallerState
        /\ caller[c].answer = Nil /\ Nil # "true" /\ Nil \notin Queries /\ Nil \notin Attempts
    BY <1>0 DEF MysqlInv, TypeOK, CallerOK, MysqlQueryConstantsOK
  <1>6. CASE es[q].kind = "none"
    <2>1. PICK f, fs : /\ f = [es EXCEPT ![q] = Retained("pending")]
                       /\ fs \in Prune(f) /\ fs = entries'
      BY <1>1, <1>6
    <2>2. /\ f \in [Queries -> Entry] /\ f[q] = Retained("pending")
          /\ \A p \in Queries \ {q} : f[p] = es[p]
      BY <1>2, <2>1, RetainedEntry
    <2>3. \A p \in Queries : IsRetained(es[p]) => IsRetained(entries[p])
      BY <1>2 DEF Aged, IsRetained, NoEntry
    <2>4. \A p \in Queries : Aged(f[p], fs[p])
      BY <1>2, <2>1, <2>2, <2>3, RoomAges
    <2>5. fs[q] = Retained("pending") /\ Retained("pending").kind = "pending"
          /\ Retained("pending").at = now
      <3>1. Retained("pending").at = now /\ Retained("pending").kind = "pending"
        BY DEF Retained
      <3> QED
        BY <1>4, <2>2, <2>4, <3>1 DEF Aged
    <2>6. ASSUME NEW a \in Attempts, task[a].query = q
          PROVE  now >= task[a].born + RetainFor
      <3>1. Guarded(q, task[a].born) /\ task[a].born \in Nat
        BY <1>4, <1>5, <2>6 DEF Tombs, BornOK
      <3>2. now < task[a].born + RetainFor => es[q] = entries[q]
        BY <1>2, <3>1, AgedGuards
      <3> QED
        BY <1>4, <1>6, <3>1, <3>2 DEF Guarded
    <2>7. \A p \in Queries \ {q} : Aged(entries[p], fs[p])
      BY <1>2, <2>2, <2>4 DEF Aged, IsRetained, NoEntry
    <2>8. \A p \in Queries : Rewritten(p)
      BY <2>1, <2>5, <2>6, <2>7 DEF Rewritten
    <2>9. /\ \A a \in Attempts : BornOK(a)'
          /\ \A p \in Queries : TombOK(p)'
          /\ \A d \in Callers : caller'[d] = caller[d] => PromiseOK(d)'
      BY <1>0, <2>8, RewriteKeeps
    <2>10. /\ caller'[c].query = q /\ caller'[c].since = now
           /\ \A d \in Callers \ {c} : caller'[d] = caller[d]
      <3>1. caller' = [Answer(c, q, "true") EXCEPT ![c].since = now]
        BY <1>1, <1>6
      <3>2. /\ caller'[c] = [caller[c] EXCEPT !.at = "done", !.query = q, !.answer = "true",
                                              !.since = now]
            /\ \A d \in Callers \ {c} : caller'[d] = caller[d]
        BY <1>5, <3>1 DEF Answer
      <3> QED
        BY <1>5, <3>2 DEF CallerState
    <2>11. PromiseOK(c)'
      <3>1. \A a \in Attempts : task[a].query = q => task[a].born < now
        BY <1>4, <2>6
      <3> QED
        BY <1>0, <1>4, <2>1, <2>5, <2>10, <3>1 DEF PromiseOK, Remembered, IsRetained
    <2> QED
      BY <2>9, <2>10, <2>11 DEF Tombs
  <1>7. CASE es[q].kind # "none"
    <2>1. entries' = es
      BY <1>1, <1>3, <1>7
    <2>2. \A p \in Queries : Rewritten(p)
      BY <1>2, <2>1 DEF Rewritten
    <2>3. /\ \A a \in Attempts : BornOK(a)'
          /\ \A p \in Queries : TombOK(p)'
          /\ \A d \in Callers : caller'[d] = caller[d] => PromiseOK(d)'
      BY <1>0, <2>2, RewriteKeeps
    <2>4. CASE es[q].kind = "pending"
      <3>1. es[q] = entries[q]
        BY <1>2, <2>4 DEF Aged, NoEntry
      <3>2. caller' = [Answer(c, q, "true") EXCEPT ![c].since = es[q].at]
        BY <1>1, <2>4
      <3>3. /\ caller'[c] = [caller[c] EXCEPT !.at = "done", !.query = q, !.answer = "true",
                                              !.since = es[q].at]
            /\ \A d \in Callers \ {c} : caller'[d] = caller[d]
        BY <1>5, <3>2 DEF Answer
      <3>4. caller'[c].query = q /\ caller'[c].since = entries[q].at
        BY <1>5, <3>1, <3>3 DEF CallerState
      <3>5. /\ entries[q].at <= now /\ entries[q].at \in Nat
            /\ \A a \in Attempts : task[a].query = q => task[a].born < entries[q].at
        BY <2>4, <3>1, Clocks DEF Tombs, TombOK, IsRetained
      <3>6. PromiseOK(c)'
        BY <1>0, <1>4, <2>1, <2>4, <3>1, <3>4, <3>5 DEF PromiseOK, Remembered, IsRetained
      <3> QED
        BY <2>3, <3>3, <3>6 DEF Tombs
    <2>5. CASE es[q].kind = "finished"
      <3>1. caller' = Answer(c, q, "false")
        BY <1>1, <2>5
      <3>2. /\ caller'[c] = [caller[c] EXCEPT !.at = "done", !.query = q, !.answer = "false"]
            /\ \A d \in Callers \ {c} : caller'[d] = caller[d]
        BY <1>5, <3>1 DEF Answer
      <3>3. caller'[c].answer = "false"
        BY <1>5, <3>2 DEF CallerState
      <3> QED
        BY <2>3, <3>2, <3>3 DEF Tombs, PromiseOK, Promised
    <2>6. CASE es[q].kind = "active"
      <3>1. caller' = [caller EXCEPT ![c].at = "found", ![c].query = q,
                                     ![c].attempt = es[q].attempt]
        BY <1>1, <2>6
      <3>2. /\ caller'[c] = [caller[c] EXCEPT !.at = "found", !.query = q,
                                              !.attempt = es[q].attempt]
            /\ \A d \in Callers \ {c} : caller'[d] = caller[d]
        BY <1>5, <3>1
      <3>3. caller'[c].answer = Nil
        BY <1>5, <3>2 DEF CallerState
      <3> QED
        BY <1>5, <2>3, <3>2, <3>3 DEF Tombs, PromiseOK, Promised
    <2> QED
      BY <1>3, <1>7, <2>4, <2>5, <2>6
  <1> QED
    BY <1>6, <1>7

\* The other steps are steady.
LEMMA OthersSteady ==
    ASSUME MysqlInv,
           \/ \E a \in Attempts : /\ Connect(a) \/ TaskStep(a)
                                  /\ ~DropGuard(a)
           \/ \E c \in Callers : CancelFound(c) \/ CancelReturns(c)
           \/ \E a \in Attempts : SendKill(a) \/ KillArrives(a) \/ KillFails(a)
           \/ \E s \in Sessions : StatementEnds(s)
           \/ Tick
    PROVE  Steady
  <1>1. TypeOK /\ now \in Nat
    BY DEF MysqlInv, TypeOK, MysqlQueryConstantsOK
  <1>2. ASSUME NEW a \in Attempts, Connect(a) \/ TaskStep(a), ~DropGuard(a)
        PROVE  Steady
    <2>1. entries' = entries /\ caller' = caller /\ now' = now
      BY <1>2 DEF Connect, TaskStep, ConnectFails, Attach, SendSql, UseFails, RunReturns,
         RunCancelled, Settle, AwaitOutcome, Finish
    <2>2. \A b \in Attempts : task'[b].query = task[b].query /\ task'[b].born = task[b].born
      <3>1. CASE Connect(a)
        BY <1>1, <3>1 DEF Connect, TypeOK, TaskState
      <3>2. CASE ConnectFails(a) \/ UseFails(a) \/ RunCancelled(a) \/ AwaitOutcome(a)
        BY <1>1, <3>2 DEF ConnectFails, UseFails, RunCancelled, AwaitOutcome, TypeOK, TaskState
      <3>3. CASE Attach(a)
        BY <1>1, <3>3 DEF Attach, TypeOK, TaskState
      <3>4. CASE SendSql(a) \/ Finish(a)
        BY <1>1, <3>4 DEF SendSql, Finish, TypeOK, TaskState
      <3>5. CASE RunReturns(a)
        BY <1>1, <3>5 DEF RunReturns, TypeOK, TaskState
      <3>6. CASE Settle(a)
        BY <1>1, <3>6 DEF Settle, TypeOK, TaskState
      <3> QED
        BY <1>2, <3>1, <3>2, <3>3, <3>4, <3>5, <3>6 DEF TaskStep
    <2>3. \A b \in Attempts : ctl[b].requested => ctl'[b].requested
      <3>1. ctl' = ctl \/ \E p \in {"running", "finished"} : ctl' = [ctl EXCEPT ![a].phase = p]
        BY <1>2 DEF Connect, TaskStep, ConnectFails, Attach, SendSql, UseFails, RunReturns,
           RunCancelled, Settle, AwaitOutcome, Finish
      <3> QED
        BY <1>1, <3>1, PhaseMoves
    <2> QED
      BY <1>1, <2>1, <2>2, <2>3 DEF Steady
  <1>3. ASSUME NEW c \in Callers, CancelFound(c) \/ CancelReturns(c)
        PROVE  Steady
    <2>1. UNCHANGED <<entries, task, now>>
      BY <1>3 DEF CancelFound, CancelReturns
    <2>2. PICK a \in Attempts : a = caller[c].attempt
      BY <1>3 DEF CancelFound, CancelReturns, MysqlInv, CallerOK
    <2>3. \A d \in Callers : caller'[d] = caller[d] \/ caller'[d].attempt # Nil
      <3>1. \/ caller' = [caller EXCEPT ![c].at = "await"]
            \/ \E r : caller' = Answer(c, caller[c].query, r)
        <4>1. ctl[a].phase \in {"waiting", "running", "cancelling", "finished"}
          BY <1>1 DEF TypeOK, ControlState
        <4> QED
          BY <1>3, <2>2, <4>1 DEF CancelFound, CancelReturns
      <3>2. caller'[c].attempt = a /\ \A d \in Callers \ {c} : caller'[d] = caller[d]
        BY <1>1, <2>2, <3>1 DEF Answer, TypeOK, CallerState
      <3> QED
        BY <2>2, <3>2 DEF MysqlInv, MysqlQueryConstantsOK
    <2>4. \A b \in Attempts : ctl[b].requested => ctl'[b].requested
      <3>1. CASE ctl' = ctl
        BY <3>1
      <3>2. CASE ctl' = [ctl EXCEPT ![a] = Control(TRUE)]
        BY <1>1, <3>2 DEF TypeOK, Control
      <3>3. CASE ctl' = [ctl EXCEPT ![a].phase = "cancelling", ![a].requested = TRUE]
        BY <1>1, <3>3 DEF TypeOK, ControlState
      <3>4. ctl[a].phase \in {"waiting", "running", "cancelling", "finished"}
        BY <1>1 DEF TypeOK, ControlState
      <3> QED
        BY <1>3, <2>2, <3>1, <3>2, <3>3, <3>4 DEF CancelFound, CancelReturns
    <2> QED
      BY <1>1, <2>1, <2>3, <2>4 DEF Steady
  <1>4. ASSUME NEW a \in Attempts, SendKill(a) \/ KillArrives(a) \/ KillFails(a)
        PROVE  Steady
    <2>1. UNCHANGED <<entries, task, caller, now>>
      BY <1>4 DEF SendKill, KillArrives, KillFails
    <2>2. ctl' = ctl \/ \E o : ctl' = [ctl EXCEPT ![a].outcome = o]
      BY <1>4 DEF SendKill, KillArrives, KillFails
    <2>3. \A b \in Attempts : ctl'[b].requested = ctl[b].requested
      BY <1>1, <2>2 DEF TypeOK, ControlState
    <2> QED
      BY <1>1, <2>1, <2>3 DEF Steady
  <1>5. CASE Tick \/ \E s \in Sessions : StatementEnds(s)
    BY <1>1, <1>5 DEF Tick, StatementEnds, Steady
  <1> QED
    BY <1>2, <1>3, <1>4, <1>5

\* Every step made while there is room keeps the promises.
LEMMA NextPromises ==
    ASSUME MysqlInv, MysqlInv', Room, Tombs, [Next]_vars
    PROVE  Tombs'
  <1>1. CASE UNCHANGED vars
    <2>1. Steady
      BY <1>1 DEF vars, Steady, MysqlInv, TypeOK, MysqlQueryConstantsOK
    <2> QED
      BY <2>1, SteadyKeeps
  <1>2. ASSUME NEW a \in Attempts, NEW q \in Queries, Register(a, q) \/ RegisterRefused(a, q)
        PROVE  Tombs'
    BY <1>2, RegisterPromises, RefusalPromises
  <1>3. ASSUME NEW c \in Callers, NEW q \in Queries, Cancel(c, q)
        PROVE  Tombs'
    BY <1>3, CancelPromises
  <1>4. ASSUME NEW a \in Attempts, DropGuard(a)
        PROVE  Tombs'
    BY <1>4, DropPromises
  <1> QED
    BY <1>1, <1>2, <1>3, <1>4, OthersSteady, SteadyKeeps DEF Next

\* A cancel that was answered with true is effective, one that overtook its
\* execution included: no execution of its id that was registered before the
\* tombstone expired reports success.  The registry must have room: when more than
\* MAX_RETAINED ended ids are remembered, the oldest tombstone is evicted and its
\* execution runs (cancel, register, settle and prune of mysql_query.rs).
THEOREM AcceptedCancelsWork ==
    ASSUME MysqlQueryConstantsOK
    PROVE  Spec /\ []Room => []CancelTrue
  <1>1. Init => Tombs
    <2> SUFFICES ASSUME Init
                 PROVE  Tombs
      OBVIOUS
    <2>1. NoEntry.kind = "none" /\ Nil # "true"
      BY DEF NoEntry, MysqlQueryConstantsOK
    <2> QED
      BY <2>1 DEF Init, Tombs, BornOK, TombOK, PromiseOK, Promised, IsRetained
  <1>2. MysqlInv /\ MysqlInv' /\ Room /\ Tombs /\ [Next]_vars => Tombs'
    BY NextPromises
  <1>3. MysqlInv /\ Tombs => CancelTrue
    <2> SUFFICES ASSUME MysqlInv, Tombs, NEW c \in Callers, NEW a \in Attempts,
                        caller[c].answer = "true",
                        \/ caller[c].attempt = a
                        \/ /\ caller[c].attempt = Nil
                           /\ task[a].query = caller[c].query
                           /\ task[a].born >= caller[c].since
                           /\ task[a].born < caller[c].since + RetainFor,
                        task[a].at = "done", task[a].result = "ok"
                 PROVE  FALSE
      BY DEF CancelTrue
    <2>1. ctl[a].requested
      <3>1. CASE caller[c].attempt = a
        BY <3>1 DEF MysqlInv, CallerOK, MysqlQueryConstantsOK
      <3>2. CASE caller[c].attempt = Nil
        BY <3>2 DEF Tombs, PromiseOK, Promised, MysqlInv, MysqlQueryConstantsOK
      <3> QED
        BY <3>1, <3>2
    <2> QED
      BY <2>1 DEF MysqlInv, AttemptOK, ResultOK
  <1> QED
    BY <1>1, <1>2, <1>3, MysqlInvariance, PTL DEF Spec


-----------------------------------------------------------------------------
(* The inductive invariant of the page loads *)

LoadLive(a) == task[a].at \notin {"idle", "done"}
LoadHolds(a) == task[a].at \in {"count", "data", "finish", "stop"}
LoadOnItsWay(a) == stop[a] \in {"sent", "late"}

LoadOwnsId(a) ==
    /\ task[a].at = "idle" => task[a].query = Nil
    /\ LoadLive(a) => task[a].query \in Queries /\ entries[task[a].query].kind = "running"

LoadOwnsSession(a) ==
    /\ task[a].at \in {"idle", "connect"} => task[a].session = Nil
    /\ LoadHolds(a) => /\ task[a].session \in Sessions
                       /\ session[task[a].session].state = "leased"
                       /\ session[task[a].session].runs \in {a, Nil}

\* A success was read from the session; an engine with server-side sessions stops
\* only a load that failed.
LoadResultOK(a) ==
    /\ task[a].at \in {"idle", "connect"} => task[a].result # "ok"
    /\ LoadHolds(a) /\ task[a].result = "ok" =>
          task[a].at \in {"finish", "stop"} /\ session[task[a].session].runs = Nil
    /\ task[a].at = "stop" /\ engine \notin {"sqlite", "clickhouse"} => task[a].result = "err"

\* A stop request aims at a session that is held or closed; SQLite's interrupt is
\* spent with its statement.
StopAimed(a) ==
    /\ LoadOnItsWay(a) =>
          /\ task[a].session \in Sessions
          /\ \/ engine = "clickhouse"
             \/ task[a].at = "stop"
             \/ session[task[a].session].state = "closed"
    /\ engine = "sqlite" /\ LoadOnItsWay(a) =>
          /\ stop[a] = "sent"
          /\ task[a].at = "stop" => session[task[a].session].runs = a

\* A load that was cancelled before it began stays cancelled.
DoomOK(a) ==
    task[a].doomed => /\ requested[a] /\ task[a].session = Nil /\ task[a].result # "ok"
                      /\ task[a].at \in {"connect", "drop", "done"}

LoadOK(a) == LoadOwnsId(a) /\ LoadOwnsSession(a) /\ LoadResultOK(a) /\ StopAimed(a) /\ DoomOK(a)

Apart ==
    \A a, b \in Attempts :
        /\ LoadLive(a) /\ LoadLive(b) /\ task[a].query = task[b].query => a = b
        /\ LoadHolds(a) /\ LoadHolds(b) /\ task[a].session = task[b].session => a = b

TableInv ==
    /\ Pages!TableQueryConstantsOK
    /\ Pages!TypeOK
    /\ \A a \in Attempts : LoadOK(a)
    /\ Apart
    /\ Pages!PooledSessionQuiet

-----------------------------------------------------------------------------
(* What prune does *)

\* A pruned entry is the old one, or gone; what runs is never pruned.
LEMMA LoadPruneFacts ==
    ASSUME Pages!TableQueryConstantsOK, NEW e \in [Queries -> Pages!Entry],
    NEW es \in Pages!Prune(e)
    PROVE  /\ es \in [Queries -> Pages!Entry]
           /\ \A q \in Queries : e[q].kind = "running" => es[q] = e[q]
           /\ \A q \in Queries : es[q].kind = "running" => es[q] = e[q]
  <1> DEFINE fresh == [q \in Queries |->
                          IF Pages!IsRetained(e[q]) /\ now - e[q].at >= RetainFor
                          THEN Pages!NoEntry ELSE e[q]]
             kept == {q \in Queries : Pages!IsRetained(fresh[q])}
  <1>1. PICK out \in SUBSET kept :
              es = [q \in Queries |-> IF q \in out THEN Pages!NoEntry ELSE fresh[q]]
    BY DEF Pages!Prune
  <1>2. Pages!NoEntry \in Pages!Entry /\ Pages!NoEntry.kind = "none" /\ ~Pages!IsRetained(Pages!NoEntry)
    BY DEF Pages!TableQueryConstantsOK, Pages!NoEntry, Pages!Entry, Pages!IsRetained
  <1>3. /\ fresh \in [Queries -> Pages!Entry]
        /\ \A q \in Queries : \/ fresh[q] = e[q]
                              \/ fresh[q] = Pages!NoEntry /\ Pages!IsRetained(e[q])
    BY <1>2
  <1> HIDE DEF fresh
  <1>4. es \in [Queries -> Pages!Entry]
    BY <1>1, <1>2, <1>3
  <1>5. ASSUME NEW q \in Queries
        PROVE  \/ es[q] = e[q]
               \/ es[q] = Pages!NoEntry /\ Pages!IsRetained(e[q])
    <2>1. CASE q \in out
      <3>1. es[q] = Pages!NoEntry /\ Pages!IsRetained(fresh[q])
        BY <1>1, <2>1
      <3> QED
        BY <1>2, <1>3, <3>1
    <2>2. CASE q \notin out
      BY <1>1, <1>3, <2>2
    <2> QED
      BY <2>1, <2>2
  <1> QED
    BY <1>2, <1>4, <1>5 DEF Pages!IsRetained

-----------------------------------------------------------------------------
(* A step for one load leaves the others alone *)

LoadLocal(a) ==
    /\ engine' = engine
    /\ \A b \in Attempts \ {a} :
          /\ task'[b] = task[b] /\ stop'[b] = stop[b]
          /\ requested[b] => requested'[b]
          /\ LoadLive(b) => entries'[task[b].query].kind = "running"
    /\ \A s \in Sessions :
          \/ session'[s] = session[s]
          \/ /\ session[s].state = "closed" => session'[s].state = "closed"
             /\ \A b \in Attempts \ {a} : LoadHolds(b) => task[b].session # s

\* The load itself: its invariant, and what it shares with no other.
LoadProper(a) ==
    /\ LoadOK(a)'
    /\ LoadLive(a)' => \/ LoadLive(a) /\ task'[a].query = task[a].query
                       \/ \A b \in Attempts \ {a} : LoadLive(b) => task[b].query # task'[a].query
    /\ LoadHolds(a)' => \/ LoadHolds(a) /\ task'[a].session = task[a].session
                        \/ \A b \in Attempts \ {a} : LoadHolds(b) => task[b].session # task'[a].session

\* A load that a step does not touch keeps its invariant.
LEMMA LoadOthersKept ==
    ASSUME TableInv, Pages!TypeOK', NEW a, LoadLocal(a), NEW b \in Attempts, b # a
    PROVE  LoadOK(b)'
  <1> DEFINE s == task[b].session
  <1>1. /\ task'[b] = task[b] /\ stop'[b] = stop[b] /\ engine' = engine
        /\ requested[b] => requested'[b]
    BY DEF LoadLocal
  <1>2. LoadOK(b)
    BY DEF TableInv
  <1>3. LoadOwnsId(b)' /\ DoomOK(b)'
    BY <1>1, <1>2 DEF LoadOK, LoadOwnsId, DoomOK, LoadLive, LoadLocal
  <1>4. LoadHolds(b) => s \in Sessions /\ session'[s] = session[s]
    BY <1>2 DEF LoadOK, LoadOwnsSession, LoadLocal
  <1>5. LoadOnItsWay(b) /\ session[s].state = "closed" => session'[s].state = "closed"
    BY <1>2 DEF LoadOK, StopAimed, LoadLocal
  <1>6. LoadOwnsSession(b)' /\ LoadResultOK(b)'
    BY <1>1, <1>2, <1>4 DEF LoadOK, LoadOwnsSession, LoadResultOK, LoadHolds
  <1>7. StopAimed(b)'
    BY <1>1, <1>2, <1>4, <1>5 DEF LoadOK, StopAimed, LoadHolds, LoadOnItsWay
  <1> QED
    BY <1>3, <1>6, <1>7 DEF LoadOK

\* So a local, proper step keeps the invariants of all loads.
LEMMA LoadLocalStep ==
    ASSUME TableInv, Pages!TypeOK', NEW a, LoadLocal(a), a \in Attempts => LoadProper(a)
    PROVE  (\A b \in Attempts : LoadOK(b)') /\ Apart'
  <1>1. \A b \in Attempts : LoadOK(b)'
    BY LoadOthersKept DEF LoadProper
  <1>2. ASSUME NEW b \in Attempts, b # a, a \in Attempts
        PROVE  /\ ~(LoadLive(b)' /\ LoadLive(a)' /\ task'[b].query = task'[a].query)
               /\ ~(LoadHolds(b)' /\ LoadHolds(a)' /\ task'[b].session = task'[a].session)
    <2>1. task'[b] = task[b]
      BY <1>2 DEF LoadLocal
    <2>2. ~(LoadLive(b)' /\ LoadLive(a)' /\ task'[b].query = task'[a].query)
      BY <1>2, <2>1 DEF LoadProper, LoadLive, TableInv, Apart
    <2>3. ~(LoadHolds(b)' /\ LoadHolds(a)' /\ task'[b].session = task'[a].session)
      BY <1>2, <2>1 DEF LoadProper, LoadHolds, TableInv, Apart
    <2> QED
      BY <2>2, <2>3
  <1>3. ASSUME NEW b \in Attempts, NEW c \in Attempts
        PROVE  /\ LoadLive(b)' /\ LoadLive(c)' /\ task'[b].query = task'[c].query => b = c
               /\ LoadHolds(b)' /\ LoadHolds(c)' /\ task'[b].session = task'[c].session => b = c
    <2>1. CASE b # a /\ c # a
      <3>1. task'[b] = task[b] /\ task'[c] = task[c]
        BY <2>1 DEF LoadLocal
      <3> QED
        BY <3>1 DEF TableInv, Apart, LoadLive, LoadHolds
    <2>2. CASE b = a \/ c = a
      BY <1>2, <2>2
    <2> QED
      BY <2>1, <2>2
  <1> QED
    BY <1>1, <1>3 DEF Apart

\* Most steps of a load leave the registry alone.
LEMMA LoadQuietStep ==
    ASSUME TableInv, Pages!TypeOK', UNCHANGED <<engine, entries>>, NEW a \in Attempts,
           \A b \in Attempts \ {a} : /\ task'[b] = task[b] /\ stop'[b] = stop[b]
                                     /\ requested'[b] = requested[b],
           \A s \in Sessions :
              \/ session'[s] = session[s]
              \/ /\ session[s].state = "closed" => session'[s].state = "closed"
                 /\ \A b \in Attempts \ {a} : LoadHolds(b) => task[b].session # s,
           LoadOK(a)', task'[a].query = task[a].query, LoadLive(a)' => LoadLive(a),
           LoadHolds(a)' => \/ LoadHolds(a) /\ task'[a].session = task[a].session
                            \/ session[task'[a].session].state # "leased",
           \A s \in Sessions : \/ session'[s] = session[s]
                               \/ session'[s].state = "pooled" /\ engine # "clickhouse"
                                     => session'[s].runs = Nil
    PROVE  TableInv'
  <1>1. LoadLocal(a)
    BY DEF LoadLocal, TableInv, LoadOK, LoadOwnsId
  <1>2. \A b \in Attempts : LoadHolds(b) => session[task[b].session].state = "leased"
    BY DEF TableInv, LoadOK, LoadOwnsSession
  <1>3. LoadProper(a)
    BY <1>2 DEF LoadProper
  <1>4. (\A b \in Attempts : LoadOK(b)') /\ Apart'
    BY <1>1, <1>3, LoadLocalStep
  <1>5. Pages!PooledSessionQuiet'
    BY DEF TableInv, Pages!PooledSessionQuiet
  <1> QED
    BY <1>4, <1>5 DEF TableInv, Pages!TableQueryConstantsOK

\* What a load's record keeps when its place and result change.
LEMMA LoadTaskMoves ==
    ASSUME Pages!TypeOK, NEW a \in Attempts,
           NEW w \in {"data", "finish", "stop", "drop", "done"}, NEW r \in {Nil, "ok", "err"},
           task' = [task EXCEPT ![a] = [task[a] EXCEPT !.at = w, !.result = r]]
    PROVE  /\ task' \in [Attempts -> Pages!TaskState]
           /\ task'[a].at = w /\ task'[a].result = r /\ task'[a].doomed = task[a].doomed
           /\ task'[a].query = task[a].query /\ task'[a].session = task[a].session
           /\ \A b \in Attempts \ {a} : task'[b] = task[b]
  <1>1. task[a] \in Pages!TaskState
    BY DEF Pages!TypeOK
  <1>2. PICK y : y = [task[a] EXCEPT !.at = w, !.result = r]
    OBVIOUS
  <1>3. /\ y \in Pages!TaskState /\ y.at = w /\ y.result = r /\ y.doomed = task[a].doomed
        /\ y.query = task[a].query /\ y.session = task[a].session
    BY <1>1, <1>2 DEF Pages!TaskState
  <1>4. /\ task' \in [Attempts -> Pages!TaskState] /\ task'[a] = y
        /\ \A b \in Attempts \ {a} : task'[b] = task[b]
    BY <1>2, <1>3 DEF Pages!TypeOK
  <1> QED
    BY <1>3, <1>4

\* What changes when a session's statement changes.
LEMMA LoadRunsMoves ==
    ASSUME Pages!TypeOK, NEW s \in Sessions, NEW x \in Attempts \cup {Nil},
           session' = [session EXCEPT ![s].runs = x]
    PROVE  /\ session' \in [Sessions -> Pages!SessionState]
           /\ session'[s].state = session[s].state /\ session'[s].runs = x
           /\ \A o \in Sessions \ {s} : session'[o] = session[o]
  <1>1. PICK y : y = [session[s] EXCEPT !.runs = x]
    OBVIOUS
  <1>2. y \in Pages!SessionState /\ y.state = session[s].state /\ y.runs = x
    BY <1>1 DEF Pages!TypeOK, Pages!SessionState
  <1>3. session' = [session EXCEPT ![s] = y]
    BY <1>1 DEF Pages!TypeOK
  <1> QED
    BY <1>2, <1>3 DEF Pages!TypeOK

-----------------------------------------------------------------------------
(* The steps of a load *)

\* Connect takes a session that nobody holds, and only if nothing was cancelled.
LEMMA LoadConnectKeeps ==
    ASSUME TableInv, NEW a \in Attempts, Pages!Connect(a)
    PROVE  TableInv'
  <1>0. /\ UNCHANGED <<engine, entries, requested, stop, answered, now>>
        /\ task[a].at = "connect" /\ ~requested[a]
    BY DEF Pages!Connect
  <1>1. Pages!TypeOK /\ LoadOK(a) /\ task[a] \in Pages!TaskState /\ Nil \notin Sessions
    BY DEF TableInv, Pages!TypeOK, Pages!TableQueryConstantsOK
  <1>2. PICK s \in Sessions :
              /\ session[s].state \in {"unused", "pooled"}
              /\ session' = [session EXCEPT ![s] = [state |-> "leased", runs |-> a]]
              /\ task' = [task EXCEPT ![a].at = "count", ![a].session = s]
    BY DEF Pages!Connect
  <1>3. PICK y : y = [task[a] EXCEPT !.at = "count", !.session = s]
    OBVIOUS
  <1>4. /\ y \in Pages!TaskState /\ y.at = "count" /\ y.session = s /\ y.query = task[a].query
        /\ y.result = task[a].result /\ y.doomed = task[a].doomed
    BY <1>1, <1>3 DEF Pages!TaskState
  <1>5. task' = [task EXCEPT ![a] = y]
    BY <1>1, <1>2, <1>3 DEF Pages!TypeOK
  <1>6. /\ task' \in [Attempts -> Pages!TaskState] /\ task'[a] = y
        /\ \A b \in Attempts \ {a} : task'[b] = task[b]
    BY <1>1, <1>4, <1>5 DEF Pages!TypeOK
  <1>7. /\ session' \in [Sessions -> Pages!SessionState]
        /\ session'[s].state = "leased" /\ session'[s].runs = a
        /\ \A o \in Sessions \ {s} : session'[o] = session[o]
    BY <1>1, <1>2 DEF Pages!TypeOK, Pages!SessionState
  <1>8. Pages!TypeOK'
    BY <1>0, <1>1, <1>6, <1>7 DEF Pages!TypeOK
  <1>9. ~LoadOnItsWay(a)
    BY <1>0, <1>1 DEF LoadOK, LoadOwnsSession, StopAimed
  <1>10. LoadOK(a)'
    BY <1>0, <1>1, <1>4, <1>6, <1>7, <1>9 DEF LoadOK, LoadOwnsId, LoadOwnsSession, LoadResultOK,
          StopAimed, DoomOK, LoadLive, LoadHolds, LoadOnItsWay
  <1>11. \A b \in Attempts : LoadHolds(b) => task[b].session # s
    BY <1>2 DEF TableInv, LoadOK, LoadOwnsSession
  <1> QED
    BY <1>0, <1>2, <1>4, <1>6, <1>7, <1>8, <1>10, <1>11, LoadQuietStep DEF LoadLive, LoadHolds

\* The steps that move only the load: it fails to connect, returns or is abandoned.
LEMMA LoadMoveKeeps ==
    ASSUME TableInv, NEW a \in Attempts,
    Pages!ConnectFails(a) \/ Pages!RunReturns(a) \/ Pages!RunAbandoned(a)
    PROVE  TableInv'
  <1>0. UNCHANGED <<engine, entries, requested, stop, session, answered, now>>
    BY DEF Pages!ConnectFails, Pages!RunReturns, Pages!RunAbandoned
  <1>1. Pages!TypeOK /\ LoadOK(a) /\ task[a] \in Pages!TaskState /\ Nil \notin Attempts
    BY DEF TableInv, Pages!TypeOK, Pages!TableQueryConstantsOK
  <1>2. PICK w \in {"drop", "finish"}, r \in {"ok", "err"} :
              /\ task' = [task EXCEPT ![a] = [task[a] EXCEPT !.at = w, !.result = r]]
              /\ w = "drop" => task[a].at = "connect" /\ r = "err"
              /\ w = "finish" => task[a].at \in {"count", "data"}
              /\ r = "ok" => session[task[a].session].runs # a
    <2>1. CASE Pages!ConnectFails(a)
      <3>1. task' = [task EXCEPT ![a] = [task[a] EXCEPT !.at = "drop", !.result = "err"]]
        BY <1>1, <2>1 DEF Pages!ConnectFails, Pages!Ends, Pages!TypeOK
      <3> QED
        BY <2>1, <3>1 DEF Pages!ConnectFails
    <2>2. CASE Pages!RunAbandoned(a)
      <3>1. task' = [task EXCEPT ![a] = [task[a] EXCEPT !.at = "finish", !.result = "err"]]
        BY <1>1, <2>2 DEF Pages!RunAbandoned, Pages!Ends, Pages!TypeOK
      <3> QED
        BY <2>2, <3>1 DEF Pages!RunAbandoned
    <2>3. CASE Pages!RunReturns(a)
      <3>1. PICK r \in {"ok", "err"} : task' = [task EXCEPT ![a].at = "finish", ![a].result = r]
        BY <2>3 DEF Pages!RunReturns
      <3>2. task' = [task EXCEPT ![a] = [task[a] EXCEPT !.at = "finish", !.result = r]]
        BY <1>1, <3>1 DEF Pages!TypeOK
      <3> QED
        BY <2>3, <3>2 DEF Pages!RunReturns, Pages!Answered
    <2> QED
      BY <2>1, <2>2, <2>3
  <1>3. /\ task' \in [Attempts -> Pages!TaskState]
        /\ task'[a].at = w /\ task'[a].result = r /\ task'[a].doomed = task[a].doomed
        /\ task'[a].query = task[a].query /\ task'[a].session = task[a].session
        /\ \A b \in Attempts \ {a} : task'[b] = task[b]
    BY <1>1, <1>2, LoadTaskMoves
  <1>4. Pages!TypeOK'
    BY <1>0, <1>1, <1>3 DEF Pages!TypeOK
  <1>5. LoadOK(a)'
    BY <1>0, <1>1, <1>2, <1>3 DEF LoadOK, LoadOwnsId, LoadOwnsSession, LoadResultOK, StopAimed,
                                  DoomOK,
          LoadLive, LoadHolds, LoadOnItsWay
  <1> QED
    BY <1>0, <1>2, <1>3, <1>4, <1>5, LoadQuietStep DEF LoadLive, LoadHolds

\* The page is requested on the session of the count.
LEMMA CountThenDataKeeps ==
    ASSUME TableInv, NEW a \in Attempts, Pages!CountThenData(a)
    PROVE  TableInv'
  <1>0. UNCHANGED <<engine, entries, requested, stop, answered, now>> /\ task[a].at = "count"
    BY DEF Pages!CountThenData
  <1>1. Pages!TypeOK /\ LoadOK(a) /\ task[a] \in Pages!TaskState
    BY DEF TableInv, Pages!TypeOK
  <1>2. PICK s \in Sessions : s = task[a].session
    BY <1>0, <1>1 DEF LoadOK, LoadOwnsSession, LoadHolds
  <1>3. /\ session' \in [Sessions -> Pages!SessionState]
        /\ session'[s].state = session[s].state /\ session'[s].runs = a
        /\ \A o \in Sessions \ {s} : session'[o] = session[o]
    BY <1>1, <1>2, LoadRunsMoves DEF Pages!CountThenData
  <1>4. task' = [task EXCEPT ![a] = [task[a] EXCEPT !.at = "data", !.result = task[a].result]]
    BY <1>1 DEF Pages!CountThenData, Pages!Goto, Pages!TypeOK, Pages!TaskState
  <1>5. /\ task' \in [Attempts -> Pages!TaskState]
        /\ task'[a].at = "data" /\ task'[a].result = task[a].result
        /\ task'[a].doomed = task[a].doomed
        /\ task'[a].query = task[a].query /\ task'[a].session = task[a].session
        /\ \A b \in Attempts \ {a} : task'[b] = task[b]
    BY <1>1, <1>4, LoadTaskMoves DEF Pages!TaskState
  <1>6. Pages!TypeOK'
    BY <1>0, <1>1, <1>3, <1>5 DEF Pages!TypeOK
  <1>7. session[s].state = "leased"
    BY <1>0, <1>1, <1>2 DEF LoadOK, LoadOwnsSession, LoadHolds
  <1>8. LoadOK(a)'
    BY <1>0, <1>1, <1>2, <1>3, <1>5, <1>7 DEF LoadOK, LoadOwnsId, LoadOwnsSession, LoadResultOK,
          StopAimed, DoomOK, LoadLive, LoadHolds, LoadOnItsWay
  <1>9. \A b \in Attempts \ {a} : LoadHolds(b) => task[b].session # s
    BY <1>0, <1>2 DEF TableInv, Apart, LoadHolds
  <1> QED
    BY <1>0, <1>2, <1>3, <1>5, <1>6, <1>7, <1>8, <1>9, LoadQuietStep DEF LoadLive, LoadHolds

\* The stop request is sent, or its time is over.
LEMMA StoppingKeeps ==
    ASSUME TableInv, NEW a \in Attempts, Pages!BeginStop(a) \/ Pages!StopTimesOut(a)
    PROVE  TableInv'
  <1>0. UNCHANGED <<engine, entries, requested, session, answered, now>>
    BY DEF Pages!BeginStop, Pages!StopTimesOut
  <1>1. Pages!TypeOK /\ LoadOK(a) /\ task[a] \in Pages!TaskState
    BY DEF TableInv, Pages!TypeOK
  <1>2. PICK k \in {"sent", "late"} :
              /\ stop' = [stop EXCEPT ![a] = k]
              /\ engine = "sqlite" => k = "sent"
    BY DEF Pages!BeginStop, Pages!StopTimesOut
  <1>3. task' = [task EXCEPT ![a] = [task[a] EXCEPT !.at = "stop", !.result = task[a].result]]
    <2>1. CASE Pages!BeginStop(a)
      BY <1>1, <2>1 DEF Pages!BeginStop, Pages!Goto, Pages!TypeOK, Pages!TaskState
    <2>2. CASE Pages!StopTimesOut(a)
      BY <1>1, <2>2 DEF Pages!StopTimesOut, Pages!TypeOK, Pages!TaskState
    <2> QED
      BY <2>1, <2>2
  <1>4. /\ task' \in [Attempts -> Pages!TaskState]
        /\ task'[a].at = "stop" /\ task'[a].result = task[a].result
        /\ task'[a].doomed = task[a].doomed
        /\ task'[a].query = task[a].query /\ task'[a].session = task[a].session
        /\ \A b \in Attempts \ {a} : task'[b] = task[b]
    BY <1>1, <1>3, LoadTaskMoves DEF Pages!TaskState
  <1>5. /\ stop' \in [Attempts -> {"none", "sent", "late", "over"}] /\ stop'[a] = k
        /\ \A b \in Attempts \ {a} : stop'[b] = stop[b]
    BY <1>1, <1>2 DEF Pages!TypeOK
  <1>6. Pages!TypeOK'
    BY <1>0, <1>1, <1>4, <1>5 DEF Pages!TypeOK
  <1>7. /\ task[a].at \in {"finish", "stop"}
        /\ engine \notin {"sqlite", "clickhouse"} => task[a].result = "err"
        /\ engine = "sqlite" => session[task[a].session].runs = a
    <2>1. engine \in Pages!Engines
      BY <1>1 DEF Pages!TypeOK
    <2>2. CASE Pages!BeginStop(a)
      BY <2>1, <2>2 DEF Pages!BeginStop, Pages!SendsStop, Pages!Interrupts, Pages!Answered,
                        Pages!Engines
    <2>3. CASE Pages!StopTimesOut(a)
      BY <1>1, <2>3 DEF Pages!StopTimesOut, LoadOK, LoadResultOK
    <2> QED
      BY <2>2, <2>3
  <1>8. LoadOK(a)'
    BY <1>0, <1>1, <1>2, <1>4, <1>5, <1>7 DEF LoadOK, LoadOwnsId, LoadOwnsSession, LoadResultOK,
          StopAimed, DoomOK, LoadLive, LoadHolds, LoadOnItsWay
  <1> QED
    BY <1>0, <1>4, <1>5, <1>6, <1>7, <1>8, LoadQuietStep DEF LoadLive, LoadHolds

\* The session is pooled only if nothing executes on it, and closed if a stop
\* request is still on its way.
LEMMA LoadFinishKeeps ==
    ASSUME TableInv, NEW a \in Attempts, Pages!Finish(a)
    PROVE  TableInv'
  <1>0. /\ UNCHANGED <<engine, entries, requested, stop, answered, now>>
        /\ task[a].at \in {"finish", "stop"}
    BY DEF Pages!Finish
  <1>1. Pages!TypeOK /\ LoadOK(a) /\ task[a] \in Pages!TaskState /\ engine \in Pages!Engines
    BY DEF TableInv, Pages!TypeOK
  <1>2. PICK s \in Sessions : s = task[a].session
    BY <1>0, <1>1 DEF LoadOK, LoadOwnsSession, LoadHolds
  <1>3. session[s].state = "leased" /\ session[s].runs \in {a, Nil}
    BY <1>0, <1>1, <1>2 DEF LoadOK, LoadOwnsSession, LoadHolds
  <1>4. PICK p \in {"pooled", "closed"} :
              /\ p = IF Pages!KeepsSession(a) THEN "pooled" ELSE "closed"
              /\ session' = [session EXCEPT ![s].state = p]
    BY <1>2 DEF Pages!Finish
  <1>5. PICK z : z = [session[s] EXCEPT !.state = p]
    OBVIOUS
  <1>6. z \in Pages!SessionState /\ z.state = p /\ z.runs = session[s].runs
    BY <1>1, <1>5 DEF Pages!TypeOK, Pages!SessionState
  <1>7. /\ session' \in [Sessions -> Pages!SessionState] /\ session'[s] = z
        /\ \A o \in Sessions \ {s} : session'[o] = session[o]
    BY <1>1, <1>4, <1>5, <1>6 DEF Pages!TypeOK
  <1>8. PICK r \in {Nil, "ok", "err"} :
              task' = [task EXCEPT ![a] = [task[a] EXCEPT !.at = "drop", !.result = r]]
    <2>1. PICK r \in {Nil, "ok", "err"} :
                r = IF requested[a] /\ engine = "sqlite" THEN "err" ELSE task[a].result
      BY <1>1 DEF Pages!TaskState
    <2>2. task' = [task EXCEPT ![a] = [task[a] EXCEPT !.at = "drop", !.result = r]]
      BY <1>1, <2>1 DEF Pages!Finish, Pages!TypeOK, Pages!TaskState
    <2> QED
      BY <2>2
  <1>9. /\ task' \in [Attempts -> Pages!TaskState]
        /\ task'[a].at = "drop" /\ task'[a].doomed = task[a].doomed
        /\ task'[a].query = task[a].query /\ task'[a].session = task[a].session
        /\ \A b \in Attempts \ {a} : task'[b] = task[b]
    BY <1>1, <1>8, LoadTaskMoves
  <1>10. Pages!TypeOK'
    BY <1>0, <1>1, <1>7, <1>9 DEF Pages!TypeOK
  <1>11. p = "pooled" /\ engine # "clickhouse" => session[s].runs = Nil
    <2>1. task[a].result = "ok" => session[s].runs = Nil
      BY <1>0, <1>1, <1>2 DEF LoadOK, LoadResultOK, LoadHolds
    <2>2. engine = "sqlite" => session[s].runs = Nil
      BY <1>2, <1>3 DEF Pages!Finish, Pages!SendsStop, Pages!MayLeave, Pages!Interrupts,
                        Pages!Answered
    <2> QED
      BY <1>4, <2>1, <2>2 DEF Pages!KeepsSession
  <1>12. LoadOnItsWay(a) => engine = "clickhouse" \/ p = "closed"
    <2>1. LoadOnItsWay(a) /\ engine # "clickhouse" => task[a].at = "stop"
      BY <1>1, <1>2, <1>3 DEF LoadOK, StopAimed
    <2>2. task[a].at = "stop" /\ engine \notin {"sqlite", "clickhouse"} => p = "closed"
      BY <1>1, <1>4 DEF LoadOK, LoadResultOK, Pages!KeepsSession
    <2>3. engine = "sqlite" => ~LoadOnItsWay(a)
      BY <1>1, <1>2, <2>1 DEF LoadOK, StopAimed, Pages!Finish, Pages!MayLeave, Pages!Answered
    <2> QED
      BY <2>1, <2>2, <2>3
  <1>13. engine = "sqlite" => ~LoadOnItsWay(a)
    BY <1>1, <1>2, <1>3 DEF LoadOK, StopAimed, Pages!Finish, Pages!MayLeave, Pages!Answered
  <1>14. ~task[a].doomed /\ LoadLive(a)
    BY <1>0, <1>1 DEF LoadOK, DoomOK, LoadLive
  <1>15. LoadOK(a)'
    BY <1>0, <1>1, <1>2, <1>6, <1>7, <1>9, <1>12, <1>13, <1>14 DEF LoadOK, LoadOwnsId,
          LoadOwnsSession, LoadResultOK, StopAimed, DoomOK, LoadLive, LoadHolds, LoadOnItsWay
  <1>16. \A b \in Attempts \ {a} : LoadHolds(b) => task[b].session # s
    BY <1>0, <1>2 DEF TableInv, Apart, LoadHolds
  <1>17. ~LoadHolds(a)'
    BY <1>9 DEF LoadHolds
  <1>18. \A o \in Sessions : \/ session'[o] = session[o]
                             \/ /\ session[o].state # "closed"
                                /\ \A b \in Attempts \ {a} : LoadHolds(b) => task[b].session # o
                                /\ session'[o].state = "pooled" /\ engine # "clickhouse"
                                      => session'[o].runs = Nil
    BY <1>3, <1>6, <1>7, <1>11, <1>16
  <1> QED
    BY <1>0, <1>9, <1>10, <1>14, <1>15, <1>17, <1>18, LoadQuietStep

-----------------------------------------------------------------------------
(* The servers and the clock *)

\* A stop request ends the statement it was sent for, or finds a closed session.
LEMMA StopArrivesKeeps ==
    ASSUME TableInv, NEW a \in Attempts, Pages!StopArrives(a)
    PROVE  TableInv'
  <1>0. UNCHANGED <<engine, entries, requested, task, answered, now>> /\ LoadOnItsWay(a)
    BY DEF Pages!StopArrives, LoadOnItsWay
  <1>1. Pages!TypeOK /\ LoadOK(a)
    BY DEF TableInv
  <1>2. PICK s \in Sessions : s = task[a].session
    BY <1>0, <1>1 DEF LoadOK, StopAimed
  <1>3. PICK x \in Attempts \cup {Nil} :
              /\ x = IF engine = "clickhouse" /\ session[s].runs # a THEN session[s].runs ELSE Nil
              /\ session' = [session EXCEPT ![s].runs = x]
    BY <1>1, <1>2 DEF Pages!StopArrives, Pages!TypeOK, Pages!SessionState
  <1>4. /\ session' \in [Sessions -> Pages!SessionState]
        /\ session'[s].state = session[s].state /\ session'[s].runs = x
        /\ \A o \in Sessions \ {s} : session'[o] = session[o]
    BY <1>1, <1>3, LoadRunsMoves
  <1>5. /\ stop' \in [Attempts -> {"none", "sent", "late", "over"}] /\ stop'[a] = "over"
        /\ \A b \in Attempts \ {a} : stop'[b] = stop[b]
    BY <1>1 DEF Pages!StopArrives, Pages!TypeOK
  <1>6. Pages!TypeOK'
    BY <1>0, <1>1, <1>4, <1>5 DEF Pages!TypeOK
  <1>7. x = Nil \/ x = session[s].runs
    BY <1>3
  <1>8. LoadOK(a)'
    BY <1>0, <1>1, <1>2, <1>4, <1>5, <1>7 DEF LoadOK, LoadOwnsId, LoadOwnsSession, LoadResultOK,
          StopAimed, DoomOK, LoadLive, LoadHolds, LoadOnItsWay
  <1>9. ASSUME NEW b \in Attempts \ {a}, LoadHolds(b), task[b].session = s
        PROVE  session'[s] = session[s]
    <2>1. session[s].state = "leased" /\ session[s].runs # a
      BY <1>9 DEF TableInv, Pages!TableQueryConstantsOK, LoadOK, LoadOwnsSession
    <2>2. task[a].at # "stop"
      BY <1>2, <1>9 DEF TableInv, Apart, LoadHolds
    <2>3. engine = "clickhouse"
      BY <1>0, <1>1, <1>2, <2>1, <2>2 DEF LoadOK, StopAimed
    <2>4. x = session[s].runs
      BY <1>3, <2>1, <2>3
    <2>5. session[s] \in Pages!SessionState
      BY <1>1 DEF Pages!TypeOK
    <2> QED
      BY <1>3, <2>4, <2>5, <1>1 DEF Pages!SessionState, Pages!TypeOK
  <1>10. \A o \in Sessions :
            \/ session'[o] = session[o]
            \/ /\ session[o].state = "closed" => session'[o].state = "closed"
               /\ \A b \in Attempts \ {a} : LoadHolds(b) => task[b].session # o
    BY <1>4, <1>9
  <1>11. \A o \in Sessions : \/ session'[o] = session[o]
                             \/ session'[o].state = "pooled" /\ engine # "clickhouse"
                                   => session'[o].runs = Nil
    BY <1>4, <1>7 DEF TableInv, Pages!PooledSessionQuiet
  <1>12. (LoadLive(a)' => LoadLive(a)) /\ (LoadHolds(a)' => LoadHolds(a))
    BY <1>0 DEF LoadLive, LoadHolds
  <1> QED
    BY <1>0, <1>5, <1>6, <1>8, <1>10, <1>11, <1>12, LoadQuietStep

\* A statement ends; the interrupt of SQLite ends with it.
LEMMA StatementEndsKeeps ==
    ASSUME TableInv, NEW s \in Sessions, Pages!StatementEnds(s)
    PROVE  TableInv'
  <1>0. UNCHANGED <<engine, entries, requested, task, answered, now>>
    BY DEF Pages!StatementEnds
  <1>1. Pages!TypeOK
    BY DEF TableInv
  <1>2. PICK a \in Attempts : a = session[s].runs
    BY <1>1 DEF Pages!StatementEnds, Pages!TypeOK, Pages!SessionState
  <1>3. LoadOK(a)
    BY DEF TableInv
  <1>4. /\ session' \in [Sessions -> Pages!SessionState]
        /\ session'[s].state = session[s].state /\ session'[s].runs = Nil
        /\ \A o \in Sessions \ {s} : session'[o] = session[o]
    BY <1>1, LoadRunsMoves DEF Pages!StatementEnds
  <1>5. /\ stop' \in [Attempts -> {"none", "sent", "late", "over"}]
        /\ stop'[a] = IF engine = "sqlite" /\ stop[a] = "sent" THEN "over" ELSE stop[a]
        /\ \A b \in Attempts \ {a} : stop'[b] = stop[b]
    BY <1>1, <1>2 DEF Pages!StatementEnds, Pages!TypeOK
  <1>6. Pages!TypeOK'
    BY <1>0, <1>1, <1>4, <1>5 DEF Pages!TypeOK
  <1>7. LoadOwnsId(a)' /\ LoadOwnsSession(a)' /\ LoadResultOK(a)' /\ DoomOK(a)'
    BY <1>0, <1>3, <1>4 DEF LoadOK, LoadOwnsId, LoadOwnsSession, LoadResultOK, DoomOK,
                            LoadLive, LoadHolds
  <1>8. StopAimed(a)'
    BY <1>0, <1>3, <1>4, <1>5 DEF LoadOK, StopAimed, LoadOnItsWay
  <1>9. \A b \in Attempts \ {a} : LoadHolds(b) => task[b].session # s
    BY <1>2 DEF TableInv, Pages!TableQueryConstantsOK, LoadOK, LoadOwnsSession
  <1>10. \A o \in Sessions :
            \/ session'[o] = session[o]
            \/ /\ session[o].state = "closed" => session'[o].state = "closed"
               /\ \A b \in Attempts \ {a} : LoadHolds(b) => task[b].session # o
               /\ session'[o].runs = Nil
    BY <1>4, <1>9
  <1>11. LoadOK(a)' /\ (LoadLive(a)' => LoadLive(a)) /\ (LoadHolds(a)' => LoadHolds(a))
    BY <1>0, <1>7, <1>8 DEF LoadOK, LoadLive, LoadHolds
  <1> QED
    BY <1>0, <1>5, <1>6, <1>10, <1>11, LoadQuietStep

\* The clock only makes entries older.
LEMMA TickKeeps ==
    ASSUME TableInv, Pages!Tick
    PROVE  TableInv'
  <1>1. UNCHANGED <<engine, entries, requested, task, stop, session, answered>>
    BY DEF Pages!Tick
  <1>2. Pages!TypeOK'
    BY <1>1 DEF Pages!Tick, TableInv, Pages!TypeOK, Pages!TableQueryConstantsOK
  <1>3. (\A a \in Attempts : LoadOK(a)') /\ Apart' /\ Pages!PooledSessionQuiet'
    BY <1>1 DEF TableInv, LoadOK, LoadOwnsId, LoadOwnsSession, LoadResultOK, StopAimed, DoomOK,
                LoadLive,
          LoadHolds, LoadOnItsWay, Apart, Pages!PooledSessionQuiet
  <1> QED
    BY <1>2, <1>3 DEF TableInv, Pages!TableQueryConstantsOK

-----------------------------------------------------------------------------
(* The registry *)

\* An id is taken only when no live load has it.
LEMMA LoadRegisterKeeps ==
    ASSUME TableInv, NEW a \in Attempts, NEW q \in Queries, Pages!Register(a, q)
    PROVE  TableInv'
  <1>0. UNCHANGED <<engine, stop, session, answered, now>> /\ task[a].at = "idle"
    BY DEF Pages!Register
  <1>1. /\ Pages!TypeOK /\ LoadOK(a) /\ task[a] \in Pages!TaskState /\ Pages!TableQueryConstantsOK
        /\ Pages!PooledSessionQuiet'
    BY <1>0 DEF TableInv, Pages!TypeOK, Pages!PooledSessionQuiet
  <1>2. PICK es \in Pages!Prune(entries) :
          IF es[q].kind \in {"running", "finished"}
          THEN /\ Pages!Ends(a, "done")
               /\ entries' = es
               /\ UNCHANGED requested
          ELSE /\ task' = [task EXCEPT ![a].at = "connect", ![a].query = q,
                                       ![a].doomed = es[q].kind = "pending"]
               /\ requested' = [requested EXCEPT ![a] = Pages!Cancelled(es[q])]
               /\ entries' = [es EXCEPT ![q] = Pages!Running]
    BY DEF Pages!Register
  <1>3. /\ es \in [Queries -> Pages!Entry]
        /\ \A r \in Queries : entries[r].kind = "running" => es[r] = entries[r]
        /\ \A r \in Queries : es[r].kind = "running" => es[r] = entries[r]
    BY <1>1, <1>2, LoadPruneFacts DEF Pages!TypeOK
  <1>4. \A b \in Attempts : LoadLive(b) => task[b].query \in Queries
                                       /\ es[task[b].query].kind = "running"
    BY <1>3 DEF TableInv, LoadOK, LoadOwnsId
  <1>5. task[a].session = Nil /\ ~LoadOnItsWay(a) /\ ~task[a].doomed /\ task[a].result # "ok"
        /\ task[a].query = Nil
    BY <1>0, <1>1 DEF LoadOK, LoadOwnsId, LoadOwnsSession, LoadResultOK, StopAimed, DoomOK,
          Pages!TableQueryConstantsOK
  <1>6. CASE es[q].kind \in {"running", "finished"}
    <2>0. task' = [task EXCEPT ![a] = [task[a] EXCEPT !.at = "done", !.result = "err"]]
          /\ entries' = es /\ requested' = requested
      BY <1>1, <1>2, <1>6 DEF Pages!Ends, Pages!TypeOK
    <2>1. /\ task' \in [Attempts -> Pages!TaskState]
          /\ task'[a].at = "done" /\ task'[a].result = "err" /\ task'[a].doomed = task[a].doomed
          /\ task'[a].query = task[a].query /\ task'[a].session = task[a].session
          /\ \A b \in Attempts \ {a} : task'[b] = task[b]
      BY <1>1, <2>0, LoadTaskMoves
    <2>2. Pages!TypeOK'
      BY <1>0, <1>1, <1>3, <2>0, <2>1 DEF Pages!TypeOK
    <2>3. LoadLocal(a)
      BY <1>0, <1>4, <2>0, <2>1 DEF LoadLocal
    <2>4. LoadOK(a)'
      BY <1>0, <1>5, <2>1 DEF LoadOK, LoadOwnsId, LoadOwnsSession, LoadResultOK, StopAimed,
                              DoomOK, LoadLive,
            LoadHolds, LoadOnItsWay
    <2>5. LoadProper(a)
      BY <2>1, <2>4 DEF LoadProper, LoadLive, LoadHolds
    <2>6. (\A b \in Attempts : LoadOK(b)') /\ Apart'
      BY <2>2, <2>3, <2>5, LoadLocalStep
    <2> QED
      BY <1>1, <2>2, <2>6 DEF TableInv, Pages!TableQueryConstantsOK
  <1>7. CASE es[q].kind \notin {"running", "finished"}
    <2>0. PICK d \in BOOLEAN : d = (es[q].kind = "pending")
      OBVIOUS
    <2>1. /\ task' = [task EXCEPT ![a].at = "connect", ![a].query = q, ![a].doomed = d]
          /\ requested' = [requested EXCEPT ![a] = d]
          /\ entries' = [es EXCEPT ![q] = Pages!Running]
      BY <1>2, <1>7, <2>0 DEF Pages!Cancelled
    <2>2. PICK y : y = [task[a] EXCEPT !.at = "connect", !.query = q, !.doomed = d]
      OBVIOUS
    <2>3. /\ y \in Pages!TaskState /\ y.at = "connect" /\ y.query = q /\ y.doomed = d
          /\ y.session = task[a].session /\ y.result = task[a].result
      BY <1>1, <2>2 DEF Pages!TaskState
    <2>4. task' = [task EXCEPT ![a] = y]
      BY <1>1, <2>1, <2>2 DEF Pages!TypeOK
    <2>5. /\ task' \in [Attempts -> Pages!TaskState] /\ task'[a] = y
          /\ \A b \in Attempts \ {a} : task'[b] = task[b]
      BY <1>1, <2>3, <2>4 DEF Pages!TypeOK
    <2>6. /\ requested' \in [Attempts -> BOOLEAN] /\ requested'[a] = d
          /\ \A b \in Attempts \ {a} : requested'[b] = requested[b]
      BY <1>1, <2>1 DEF Pages!TypeOK
    <2>7. Pages!Running \in Pages!Entry /\ Pages!Running.kind = "running"
      BY <1>1 DEF Pages!Running, Pages!Entry, Pages!TableQueryConstantsOK
    <2>8. /\ entries' \in [Queries -> Pages!Entry] /\ entries'[q].kind = "running"
          /\ \A r \in Queries \ {q} : entries'[r] = es[r]
      BY <1>3, <2>1, <2>7
    <2>9. Pages!TypeOK'
      BY <1>0, <1>1, <2>5, <2>6, <2>8 DEF Pages!TypeOK
    <2>10. \A b \in Attempts : LoadLive(b) => task[b].query # q
      BY <1>4, <1>7
    <2>11. LoadLocal(a)
      BY <1>0, <1>4, <2>5, <2>6, <2>8, <2>10 DEF LoadLocal
    <2>12. LoadOK(a)'
      BY <1>0, <1>5, <2>3, <2>5, <2>6, <2>8 DEF LoadOK, LoadOwnsId, LoadOwnsSession,
                                                LoadResultOK,
            StopAimed, DoomOK, LoadLive, LoadHolds, LoadOnItsWay
    <2>13. LoadProper(a)
      BY <2>3, <2>5, <2>10, <2>12 DEF LoadProper, LoadHolds
    <2>14. (\A b \in Attempts : LoadOK(b)') /\ Apart'
      BY <2>9, <2>11, <2>13, LoadLocalStep
    <2> QED
      BY <1>1, <2>9, <2>14 DEF TableInv, Pages!TableQueryConstantsOK
  <1> QED
    BY <1>6, <1>7

\* A cancellation raises flags and leaves what runs in the registry.
LEMMA LoadCancelKeeps ==
    ASSUME TableInv, NEW c \in Callers, NEW q \in Queries, Pages!Cancel(c, q)
    PROVE  TableInv'
  <1>0. UNCHANGED <<engine, task, stop, session, now>> /\ answered' = answered \cup {c}
    BY DEF Pages!Cancel
  <1>1. Pages!TypeOK /\ Pages!TableQueryConstantsOK /\ Pages!PooledSessionQuiet' /\ Nil \notin Attempts
    BY <1>0 DEF TableInv, Pages!PooledSessionQuiet, Pages!TableQueryConstantsOK
  <1>2. PICK es \in Pages!Prune(entries) :
          /\ requested' = [a \in Attempts |->
                \/ requested[a]
                \/ /\ es[q].kind = "running"
                   /\ task[a].query = q
                   /\ task[a].at \notin {"idle", "done"}]
          /\ entries' \in IF es[q].kind = "none"
                          THEN Pages!Prune([es EXCEPT ![q] = Pages!Retained("pending")]) ELSE {es}
    BY DEF Pages!Cancel
  <1>3. /\ es \in [Queries -> Pages!Entry]
        /\ \A r \in Queries : entries[r].kind = "running" => es[r] = entries[r]
    BY <1>1, <1>2, LoadPruneFacts DEF Pages!TypeOK
  <1>4. /\ entries' \in [Queries -> Pages!Entry]
        /\ \A r \in Queries : entries[r].kind = "running" => entries'[r] = entries[r]
    <2>1. CASE es[q].kind = "none"
      <3>1. Pages!Retained("pending") \in Pages!Entry
        BY <1>1 DEF Pages!Retained, Pages!Entry, Pages!TypeOK
      <3>2. PICK f : f = [es EXCEPT ![q] = Pages!Retained("pending")]
        OBVIOUS
      <3>3. f \in [Queries -> Pages!Entry] /\ \A r \in Queries \ {q} : f[r] = es[r]
        BY <1>3, <3>1, <3>2
      <3>4. entries' \in Pages!Prune(f)
        BY <1>2, <2>1, <3>2
      <3>5. PICK g : g = entries'
        OBVIOUS
      <3>6. /\ g \in [Queries -> Pages!Entry]
            /\ \A r \in Queries : f[r].kind = "running" => g[r] = f[r]
        BY <1>1, <3>3, <3>4, <3>5, LoadPruneFacts
      <3> QED
        BY <1>3, <2>1, <3>3, <3>5, <3>6
    <2>2. CASE es[q].kind # "none"
      BY <1>2, <1>3, <2>2
    <2> QED
      BY <2>1, <2>2
  <1>5. requested' \in [Attempts -> BOOLEAN]
    BY <1>2, Zenon
  <1>6. \A a \in Attempts : requested[a] => requested'[a]
    BY <1>2
  <1>7. Pages!TypeOK'
    BY <1>0, <1>1, <1>4, <1>5 DEF Pages!TypeOK
  <1>8. LoadLocal(Nil)
    BY <1>0, <1>4, <1>6 DEF LoadLocal, TableInv, LoadOK, LoadOwnsId
  <1>9. (\A b \in Attempts : LoadOK(b)') /\ Apart'
    BY <1>1, <1>7, <1>8, LoadLocalStep
  <1> QED
    BY <1>1, <1>7, <1>9 DEF TableInv, Pages!TableQueryConstantsOK

\* The guard writes the entry of its own id: no other live load has that id.
LEMMA LoadDropGuardKeeps ==
    ASSUME TableInv, NEW a \in Attempts, Pages!DropGuard(a)
    PROVE  TableInv'
  <1>0. UNCHANGED <<engine, requested, stop, session, answered, now>> /\ task[a].at = "drop"
    BY DEF Pages!DropGuard
  <1>1. /\ Pages!TypeOK /\ LoadOK(a) /\ task[a] \in Pages!TaskState /\ Pages!TableQueryConstantsOK
        /\ Pages!PooledSessionQuiet'
    BY <1>0 DEF TableInv, Pages!TypeOK, Pages!PooledSessionQuiet
  <1>2. PICK q \in Queries : q = task[a].query
    BY <1>0, <1>1 DEF LoadOK, LoadOwnsId, LoadLive
  <1>3. task' = [task EXCEPT ![a] = [task[a] EXCEPT !.at = "done", !.result = task[a].result]]
    BY <1>1 DEF Pages!DropGuard, Pages!Goto, Pages!TypeOK, Pages!TaskState
  <1>4. /\ task' \in [Attempts -> Pages!TaskState]
        /\ task'[a].at = "done" /\ task'[a].result = task[a].result
        /\ task'[a].doomed = task[a].doomed
        /\ task'[a].query = task[a].query /\ task'[a].session = task[a].session
        /\ \A b \in Attempts \ {a} : task'[b] = task[b]
    BY <1>1, <1>3, LoadTaskMoves DEF Pages!TaskState
  <1>5. Pages!Retained("finished") \in Pages!Entry
    BY <1>1 DEF Pages!Retained, Pages!Entry, Pages!TypeOK
  <1>6. PICK f : f = [entries EXCEPT ![q] = Pages!Retained("finished")]
    OBVIOUS
  <1>7. f \in [Queries -> Pages!Entry] /\ \A r \in Queries \ {q} : f[r] = entries[r]
    BY <1>1, <1>5, <1>6 DEF Pages!TypeOK
  <1>8. PICK g : g = entries'
    OBVIOUS
  <1>9. g \in Pages!Prune(f)
    BY <1>2, <1>6, <1>8 DEF Pages!DropGuard
  <1>10. /\ g \in [Queries -> Pages!Entry]
         /\ \A r \in Queries : f[r].kind = "running" => g[r] = f[r]
    BY <1>1, <1>7, <1>9, LoadPruneFacts
  <1>11. Pages!TypeOK'
    BY <1>0, <1>1, <1>4, <1>8, <1>10 DEF Pages!TypeOK
  <1>12. \A b \in Attempts \ {a} : LoadLive(b) => /\ task[b].query \in Queries \ {q}
                                                  /\ entries[task[b].query].kind = "running"
    BY <1>0, <1>2 DEF TableInv, Apart, LoadLive, LoadOK, LoadOwnsId
  <1>13. LoadLocal(a)
    BY <1>0, <1>4, <1>7, <1>8, <1>10, <1>12 DEF LoadLocal
  <1>14. LoadOK(a)'
    BY <1>0, <1>1, <1>4 DEF LoadOK, LoadOwnsId, LoadOwnsSession, LoadResultOK, StopAimed,
                            DoomOK, LoadLive,
          LoadHolds, LoadOnItsWay
  <1>15. LoadProper(a)
    BY <1>4, <1>14 DEF LoadProper, LoadLive, LoadHolds
  <1>16. (\A b \in Attempts : LoadOK(b)') /\ Apart'
    BY <1>11, <1>13, <1>15, LoadLocalStep
  <1> QED
    BY <1>1, <1>11, <1>16 DEF TableInv, Pages!TableQueryConstantsOK

-----------------------------------------------------------------------------
(* The theorems *)

\* The invariant holds before the first page is loaded.
LEMMA LoadInitOK ==
    ASSUME Pages!TableQueryConstantsOK, Pages!Init
    PROVE  TableInv
  <1>1. Pages!NoEntry \in Pages!Entry
    BY DEF Pages!TableQueryConstantsOK, Pages!NoEntry, Pages!Entry
  <1>2. Pages!TypeOK
    BY <1>1 DEF Pages!Init, Pages!TypeOK, Pages!TableQueryConstantsOK, Pages!TaskState,
                Pages!SessionState
  <1>3. \A a \in Attempts :
           /\ task[a].at = "idle" /\ task[a].query = Nil /\ task[a].session = Nil
           /\ task[a].result = Nil /\ task[a].doomed = FALSE /\ stop[a] = "none"
    BY DEF Pages!Init
  <1>4. \A a \in Attempts : LoadOK(a)
    BY <1>3 DEF LoadOK, LoadOwnsId, LoadOwnsSession, LoadResultOK, StopAimed, DoomOK, LoadLive,
                LoadHolds, LoadOnItsWay,
          Pages!TableQueryConstantsOK
  <1>5. Apart
    BY <1>3 DEF Apart, LoadLive, LoadHolds
  <1>6. Pages!PooledSessionQuiet
    BY DEF Pages!Init, Pages!PooledSessionQuiet
  <1> QED
    BY <1>2, <1>4, <1>5, <1>6 DEF TableInv

\* Every step of loads, cancels and servers keeps the invariant.
LEMMA LoadNextOK ==
    ASSUME TableInv, [Pages!Next]_Pages!vars
    PROVE  TableInv'
  <1>1. ASSUME NEW a \in Attempts, Pages!TaskStep(a)
        PROVE  TableInv'
    BY <1>1, LoadMoveKeeps, CountThenDataKeeps, StoppingKeeps, LoadFinishKeeps,
    LoadDropGuardKeeps
       DEF Pages!TaskStep
  <1>2. CASE UNCHANGED Pages!vars
    <2>1. Pages!TypeOK'
      BY <1>2 DEF Pages!vars, TableInv, Pages!TypeOK
    <2>2. (\A a \in Attempts : LoadOK(a)') /\ Apart' /\ Pages!PooledSessionQuiet'
      BY <1>2 DEF Pages!vars, TableInv, LoadOK, LoadOwnsId, LoadOwnsSession, LoadResultOK,
                  StopAimed, DoomOK,
            LoadLive, LoadHolds, LoadOnItsWay, Apart, Pages!PooledSessionQuiet
    <2> QED
      BY <2>1, <2>2 DEF TableInv, Pages!TableQueryConstantsOK
  <1> QED
    BY <1>1, <1>2, LoadRegisterKeeps, LoadCancelKeeps, LoadConnectKeeps, StopArrivesKeeps,
       StatementEndsKeeps, TickKeeps DEF Pages!Next

\* The registry, the loads, their sessions and their stop requests stay in step
\* (table_query.rs:67-150, data.rs:560-600).
THEOREM TableInvariance ==
    ASSUME Pages!TableQueryConstantsOK
    PROVE  Pages!Spec => []TableInv
  <1>1. Pages!Init => TableInv
    BY LoadInitOK
  <1>2. TableInv /\ [Pages!Next]_Pages!vars => TableInv'
    BY LoadNextOK
  <1> QED
    BY <1>1, <1>2, PTL DEF Pages!Spec

\* No engine's stop request reaches a statement it was not sent for, whenever it
\* arrives, and no engine pools a session on which something still executes
\* (data.rs:572-594, postgres.rs:419, sqlserver.rs:614, sqlite.rs:1420).
THEOREM StopsStayHome ==
    ASSUME Pages!TableQueryConstantsOK
    PROVE  Pages!Spec => [](Pages!StopStaysWithQuery /\ Pages!PooledSessionQuiet)
  <1>1. TableInv => Pages!StopStaysWithQuery /\ Pages!PooledSessionQuiet
    <2>1. TableInv => Pages!StopStaysWithQuery
      BY DEF TableInv, LoadOK, StopAimed, LoadOwnsSession, LoadHolds, LoadOnItsWay,
             Pages!StopStaysWithQuery
    <2> QED
      BY <2>1 DEF TableInv
  <1> QED
    BY <1>1, TableInvariance, PTL

\* Two live loads never share an id, although Drop overwrites the entry of its key
\* without looking at it (table_query.rs:77, 144).
THEOREM LoadsRunOnce ==
    ASSUME Pages!TableQueryConstantsOK
    PROVE  Pages!Spec => [](Pages!TypeOK /\ Pages!OneRunPerId)
  <1>1. TableInv => Pages!TypeOK /\ Pages!OneRunPerId
    <2>1. TableInv => Pages!OneRunPerId
      BY DEF TableInv, Apart, LoadLive, Pages!OneRunPerId
    <2> QED
      BY <2>1 DEF TableInv
  <1> QED
    BY <1>1, TableInvariance, PTL

\* A load whose cancellation came first never gets a session and never succeeds
\* (table_query.rs:81, 96).
THEOREM CancelledBeforeBegin ==
    ASSUME Pages!TableQueryConstantsOK
    PROVE  Pages!Spec => []Pages!CancelTrue
  <1>1. TableInv => Pages!CancelTrue
    BY DEF TableInv, LoadOK, DoomOK, Pages!CancelTrue
  <1> QED
    BY <1>1, TableInvariance, PTL
=============================================================================
