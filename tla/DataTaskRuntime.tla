-------------------------- MODULE DataTaskRuntime ---------------------------
(***************************************************************************)
(* The data-task runtime: the Tauri commands and the workers they spawn    *)
(* (commands/data_tasks.rs), the executor that owns the target transaction *)
(* (db/data_tasks/executor.rs) and the task history on disk                *)
(* (db/data_tasks/history.rs), composed with DataTaskRegistry.             *)
(*                                                                         *)
(* A thread is a command in flight, a preview worker, an execution worker  *)
(* or the maintenance timer.  Each lock section of the code is one action: *)
(* between two of them every other thread may run.  persist() is one       *)
(* action: history_lock is held from the listing to the rename, and no     *)
(* other thread reads the file.                                            *)
(*                                                                         *)
(* target[t] is what the target database knows of t's transaction:         *)
(* "clean" (nothing written), "open", "lost" (its session is gone before a *)
(* COMMIT was sent, so the database discards it), "inflight" (COMMIT sent, *)
(* the database has not decided) and "committed".                          *)
(***************************************************************************)
EXTENDS DataTaskRegistry, Sequences

CONSTANTS
    Callers,       \* Tauri commands that may be in flight at once
    Timers,        \* maintenance loops               (one in the application)
    NetworkTasks,  \* tasks with a network endpoint; the others are SQLite only
    HistoryLimit,  \* records kept in the history file     (100 in the code)
    MaxCrashes     \* bound on process crashes (model checking only)

ASSUME RuntimeAssumption ==
    /\ NetworkTasks \subseteq Tasks
    /\ HistoryLimit \in Nat
    /\ MaxCrashes \in Nat
    /\ Executions = Tasks

VARIABLES
    plans,    \* keys of DataTaskRuntime.plans
    spools,   \* plans whose spool files exist
    thread,   \* local state of every thread
    history,  \* the history file: a summary for every recorded task
    target,   \* the target database's view of every task's transaction
    crashes   \* number of crashes so far

runtimeVars == <<plans, spools, thread, history, target, crashes>>
vars == <<registryVars, runtimeVars>>

Timer(m) == <<"timer", m>>
Caller(c) == <<"caller", c>>
Previewer(t) == <<"preview", t>>
Executor(t) == <<"execute", t>>

Commands == {Caller(c) : c \in Callers}
Threads == Commands \cup {Previewer(t) : t \in Tasks}
                    \cup {Executor(t) : t \in Tasks}
                    \cup {Timer(m) : m \in Timers}

\* "todo" lists the clean-up calls a thread still has to make, "found" the plans
\* a prune in progress decided to keep and then the ones it removed, "stage" the
\* status a worker reports.
Idle == [at |-> "idle", task |-> Nil, plan |-> Nil, deadline |-> 0,
         stage |-> Nil, result |-> Nil, found |-> {}, todo |-> <<>>]

NoTask == [status |-> "Absent", execution_id |-> Nil, commit |-> Nil,
           updated_at |-> 0]

\* Where a thread is in its code.
Places == {"idle", "tail", "record", "spawn", "abandon", "lookup", "begin",
           "recordExecution", "spawnExecution", "discard", "emit", "journal",
           "work", "publish", "withdraw", "preflight", "open", "check",
           "rollback", "commit", "finish"}

\* A clean-up call and the task it is made for.
CleanupCalls == ({"publish", "report"} \X Tasks)
                   \cup ({"persist", "prune", "remove", "delete"} \X {Nil})

ThreadState == [at       : Places,
                task     : Tasks \cup {Nil},
                plan     : Plans \cup {Nil},
                deadline : Nat,
                stage    : Reported \cup {Nil},
                result   : Results \cup {Nil},
                found    : SUBSET Plans,
                todo     : Seq(CleanupCalls)]

HistoryEntry == [status       : Terminal \cup {"Open", "Absent"},
                 execution_id : Executions \cup {Nil},
                 commit       : CommitState \cup {Nil},
                 updated_at   : Nat]

\* The states of the runtime's variables: a thread that has clean-up calls left
\* knows which, and a worker's result is one that finish() takes.
RuntimeTypeOK ==
    /\ RegistryTypeOK
    /\ plans \subseteq Plans
    /\ spools \subseteq Plans
    /\ history \in [Tasks -> HistoryEntry]
    /\ target \in [Tasks -> {"clean", "open", "lost", "inflight", "committed"}]
    /\ crashes \in 0 .. MaxCrashes
    /\ thread \in [Threads -> ThreadState]
    /\ \A th \in Threads : thread[th].at = "tail" => thread[th].todo # <<>>

-----------------------------------------------------------------------------
(* Threads *)

Goto(th, place) == thread' = [thread EXCEPT ![th].at = place]
Become(th, state) == thread' = [thread EXCEPT ![th] = state]

\* The calls a thread may have left: a call and the task it is made for.
PublishCall(t) == <<"publish", t>>
ReportCall(t) == <<"report", t>>
PruneCall == <<"prune", Nil>>
PersistCall == <<"persist", Nil>>

\* prune takes three steps: list, remove, delete.
RemoveCall == <<"remove", Nil>>
DeleteCall == <<"delete", Nil>>

\* The thread has only the listed calls left.
Wind(th, todo) == Become(th, [Idle EXCEPT !.at = "tail", !.todo = todo])

\* The first of these calls has returned.  After its prune execute_data_task goes
\* on; every other thread with nothing left to do is done.
Unwind(th) ==
    LET rest == Tail(thread[th].todo) IN
    IF rest # <<>> THEN Wind(th, rest)
    ELSE IF thread[th].plan # Nil
         THEN thread' = [thread EXCEPT ![th].at = "lookup", ![th].found = {},
                                       ![th].todo = <<>>]
         ELSE Become(th, Idle)

\* Faulty: status and commit state swapped.
ConcludeSwapped(th, status, commit) ==
    thread' = [thread EXCEPT ![th].at = "finish",
                             ![th].result = <<commit, status>>]

\* A worker stops with a result that it has yet to register.
Conclude(th, status, commit) ==
    thread' = [thread EXCEPT ![th].at = "finish",
                             ![th].result = <<status, commit>>]

\* The flag a worker shares with its record.  A record is trimmed under its
\* worker only after a cancel made it terminal, and the flag outlives it.
CancelSeen(t) == ~Known(rec[t]) \/ rec[t].cancel

\* The status of a failure: the cancellation flag decides.
FailureStatus(t) == IF CancelSeen(t) THEN "Cancelled" ELSE "Failed"

-----------------------------------------------------------------------------
(* History: save_history, load_history *)

\* What the file says of a record.  load_history tells terminal statuses from
\* all the others only, so the others are one value here.
Summary(r) == [status |-> IF IsTerminal(r) THEN r.status ELSE "Open",
               execution_id |-> r.execution_id,
               commit |-> r.commit, updated_at |-> r.updated_at]

\* The files save_history may write for the records R: the HistoryLimit most
\* recently updated ones.
Saved(R) ==
    LET ids == {t \in Tasks : Known(R[t])}
        kept == {K \in SUBSET ids :
                   /\ Cardinality(K) = IF Cardinality(ids) > HistoryLimit
                                       THEN HistoryLimit ELSE Cardinality(ids)
                   /\ \A k \in K, d \in ids \ K :
                         R[k].updated_at >= R[d].updated_at}
    IN {[t \in Tasks |-> IF t \in K THEN Summary(R[t]) ELSE NoTask] : K \in kept}

PersistOk == Observe /\ history' \in Saved(Expired)
PersistFails == Observe /\ UNCHANGED history
Persist == PersistOk \/ PersistFails

\* publish: a persist whose failure is noted on the task.
Publish(t) ==
    \/ PersistOk
    \/ AppendCleanupError(Expired, {t}) /\ UNCHANGED history

\* The execution worker publishes the snapshot of a task that is still listed.
Report(t) ==
    IF Known(rec[t]) THEN Publish(t) ELSE Observe /\ UNCHANGED history

\* Faulty: every unfinished task is restored as interrupted.
RestoredInterrupted(h) ==
    IF h.status = "Absent" THEN NoRecord
    ELSE [NoRecord EXCEPT
            !.status = IF h.status = "Open" THEN "Interrupted" ELSE h.status,
            !.commit = IF h.status = "Open" THEN "None" ELSE h.commit,
            !.cancel = TRUE,
            !.execution_id = h.execution_id,
            !.updated_at = h.updated_at]

\* The record load_history and restore make of a history entry h.
Restored(h) ==
    IF h.status = "Absent" THEN NoRecord
    ELSE LET open == h.status = "Open"
             unknown == h.execution_id # Nil
         IN [NoRecord EXCEPT
               !.status = IF ~open THEN h.status
                          ELSE IF unknown THEN "OutcomeUnknown" ELSE "Interrupted",
               !.commit = IF ~open THEN h.commit
                          ELSE IF unknown THEN "Unknown" ELSE "None",
               !.cancel = TRUE,
               !.execution_id = h.execution_id,
               !.updated_at = h.updated_at]

\* The process dies and is started again: initialize() loads the history and
\* wipes the snapshot directory.  The database discards an open transaction,
\* a COMMIT that was sent may still be applied.
Restart ==
    /\ crashes < MaxCrashes
    /\ crashes' = crashes + 1
    /\ rec' = [t \in Tasks |-> Restored(history[t])]
    /\ cancelledBefore' = {}
    /\ writer' = Nil
    /\ plans' = {}
    /\ spools' = {}
    /\ thread' = [th \in Threads |-> Idle]
    /\ target' = [t \in Tasks |-> IF target[t] = "open" THEN "lost" ELSE target[t]]
    /\ UNCHANGED <<history, now>>

-----------------------------------------------------------------------------
(* Clean-up calls every thread makes: publish/persist and prune *)

Calls(th, call) == thread[th].at = "tail" /\ thread[th].todo[1][1] = call

TailPersist(th) ==
    /\ \/ Calls(th, "persist") /\ Persist
       \/ Calls(th, "publish") /\ Publish(thread[th].todo[1][2])
       \/ Calls(th, "report") /\ Report(thread[th].todo[1][2])
    /\ Unwind(th)
    /\ UNCHANGED <<plans, spools, target, crashes>>

\* Faulty: keeps the plan of every record, not only the shown previews.
PruneKeepsAll(th) ==
    /\ Calls(th, "prune")
    /\ Observe
    /\ thread' = [thread EXCEPT
                    ![th].todo = <<RemoveCall>> \o Tail(@),
                    ![th].found = {Expired[t].plan_id : t \in Tasks} \ {Nil}]
    /\ UNCHANGED <<plans, spools, history, target, crashes>>

\* prune, first lock: which plans does a snapshot still show?
PruneList(th) ==
    /\ Calls(th, "prune")
    /\ Observe
    /\ thread' = [thread EXCEPT
                    ![th].todo = <<RemoveCall>> \o Tail(@),
                    ![th].found = {Expired[t].preview : t \in Tasks} \ {Nil}]
    /\ UNCHANGED <<plans, spools, history, target, crashes>>

\* prune, second lock: the others leave the plan map.
PruneRemove(th) ==
    /\ Calls(th, "remove")
    /\ plans' = plans \cap thread[th].found
    /\ IF plans' = plans
       THEN Unwind(th)
       ELSE thread' = [thread EXCEPT ![th].todo = <<DeleteCall>> \o Tail(@),
                                     ![th].found = plans \ plans']
    /\ UNCHANGED <<registryVars, spools, history, target, crashes>>

\* prune, without a lock: the spool files of the removed plans are dropped and
\* their directories deleted; a directory that stays is noted on its task.
PruneDelete(th) ==
    /\ Calls(th, "delete")
    /\ spools' = spools \ thread[th].found
    /\ \E stuck \in SUBSET thread[th].found :
          AppendCleanupError(rec, {t \in Tasks : rec[t].plan_id \in stuck})
    /\ Unwind(th)
    /\ UNCHANGED <<plans, history, target, crashes>>

TailStep(th) ==
    TailPersist(th) \/ PruneList(th) \/ PruneRemove(th) \/ PruneDelete(th)

-----------------------------------------------------------------------------
(* Commands *)

\* get_data_task, list_data_tasks, get_data_task_diff: a look and a prune.
Poll(c) ==
    /\ thread[Caller(c)] = Idle
    /\ Observe
    /\ Wind(Caller(c), <<PruneCall>>)
    /\ UNCHANGED <<plans, spools, history, target, crashes>>

\* The 30 second maintenance() loop.
Maintenance(m) ==
    /\ thread[Timer(m)] = Idle
    /\ Wind(Timer(m), <<PruneCall, PersistCall>>)
    /\ UNCHANGED <<registryVars, plans, spools, history, target, crashes>>

\* start_data_task_preview up to register_preview.  The front end makes a new
\* UUID for every task, so an id some thread still works for is not reused.
StartPreview(c, t) ==
    /\ thread[Caller(c)] = Idle
    /\ thread[Previewer(t)] = Idle
    /\ thread[Executor(t)] = Idle
    /\ target[t] = "clean"
    /\ \/ /\ \A th \in Threads : thread[th].task # t
          /\ RegisterPreview(t)
          /\ IF t \in cancelledBefore
             THEN UNCHANGED thread
             ELSE Become(Caller(c), [Idle EXCEPT !.at = "record", !.task = t])
       \/ /\ \/ Known(Expired[t])
             \/ Cardinality(OpenPreviews(Expired)) >= PreviewLimit
          /\ Observe
          /\ UNCHANGED thread
    /\ UNCHANGED <<plans, spools, history, target, crashes>>

\* The first persist must succeed, or the task is given up.
RecordPreview(c) ==
    /\ thread[Caller(c)].at = "record"
    /\ \/ PersistOk /\ Goto(Caller(c), "spawn")
       \/ PersistFails /\ Goto(Caller(c), "abandon")
    /\ UNCHANGED <<plans, spools, target, crashes>>

\* finish() leaves a record alone that is terminal already.
FinishTask(t, status, commit) ==
    IF Live(rec[t]) THEN Finish(t, status, commit) ELSE UNCHANGED registryVars

\* Faulty: returns the error without registering a result.
AbandonSilently(c) ==
    /\ thread[Caller(c)].at = "abandon"
    /\ Become(Caller(c), Idle)
    /\ UNCHANGED <<registryVars, plans, spools, history, target, crashes>>

\* The given-up task of a failed first persist.
Abandon(c) ==
    LET t == thread[Caller(c)].task IN
    /\ thread[Caller(c)].at = "abandon"
    /\ FinishTask(t, "Failed", "None")
    /\ Become(Caller(c), Idle)
    /\ UNCHANGED <<plans, spools, history, target, crashes>>

\* publish, then the preview worker is spawned and the command returns.
SpawnPreview(c) ==
    LET t == thread[Caller(c)].task IN
    /\ thread[Caller(c)].at = "spawn"
    /\ Publish(t)
    /\ thread' = [thread EXCEPT
                    ![Caller(c)] = Idle,
                    ![Previewer(t)] = [Idle EXCEPT !.at = "emit", !.task = t,
                                                   !.stage = "Validating"]]
    /\ UNCHANGED <<plans, spools, target, crashes>>

\* execute_data_task up to its prune.  The front end sends the plan it has seen
\* and one execution id per task, the same on every attempt.
Execute(c, t) ==
    /\ thread[Caller(c)] = Idle
    /\ rec[t].plan_id # Nil
    /\ Observe
    /\ IF \E u \in Tasks : rec[u].execution_id = t
       THEN UNCHANGED thread
       ELSE Become(Caller(c), [Idle EXCEPT !.at = "tail", !.todo = <<PruneCall>>,
                                           !.task = t, !.plan = rec[t].plan_id])
    /\ UNCHANGED <<plans, spools, history, target, crashes>>

\* The envelope is taken from the plan map or the plan is stale.
LookupPlan(c) ==
    /\ thread[Caller(c)].at = "lookup"
    /\ IF thread[Caller(c)].plan \in plans
       THEN Goto(Caller(c), "begin")
       ELSE Become(Caller(c), Idle)
    /\ UNCHANGED <<registryVars, plans, spools, history, target, crashes>>

InputOf(t, p) == [execution_id |-> t, plan_id |-> p,
                  matches |-> TRUE, accepted |-> TRUE]

\* Faulty: ignores the start flag, so a repeated id starts a second worker.
BeginTaskAgain(c) ==
    LET me == thread[Caller(c)] IN
    /\ me.at = "begin"
    /\ \/ /\ BeginExecution(me.task, InputOf(me.task, me.plan))
          /\ Goto(Caller(c), "recordExecution")
       \/ /\ Observe
          /\ Started(Expired, me.task) # {}
          /\ Goto(Caller(c), "recordExecution")
       \/ /\ UNCHANGED registryVars
          /\ Become(Caller(c), Idle)
    /\ UNCHANGED <<plans, spools, history, target, crashes>>

\* begin_execution: started, refused, or not reached because the saved
\* connections were removed, made read-only or edited since the preview.
BeginTask(c) ==
    LET me == thread[Caller(c)] IN
    /\ me.at = "begin"
    /\ \/ /\ BeginExecution(me.task, InputOf(me.task, me.plan))
          /\ Goto(Caller(c), "recordExecution")
       \/ /\ Observe
          /\ ~MayBegin(Expired, me.task, InputOf(me.task, me.plan))
          /\ Become(Caller(c), Idle)
       \/ /\ UNCHANGED registryVars
          /\ Become(Caller(c), Idle)
    /\ UNCHANGED <<plans, spools, history, target, crashes>>

\* Faulty: a failed persist returns without finishing the task.
RecordExecutionLeaks(c) ==
    /\ thread[Caller(c)].at = "recordExecution"
    /\ \/ PersistOk /\ Goto(Caller(c), "spawnExecution")
       \/ PersistFails /\ Become(Caller(c), Idle)
    /\ UNCHANGED <<plans, spools, target, crashes>>

\* The execution must be on disk before its worker starts.
RecordExecution(c) ==
    /\ thread[Caller(c)].at = "recordExecution"
    /\ \/ PersistOk /\ Goto(Caller(c), "spawnExecution")
       \/ PersistFails /\ Goto(Caller(c), "abandon")
    /\ UNCHANGED <<plans, spools, target, crashes>>

SpawnExecution(c) ==
    LET me == thread[Caller(c)] IN
    /\ me.at = "spawnExecution"
    /\ Publish(me.task)
    /\ thread' = [thread EXCEPT
                    ![Caller(c)] = Idle,
                    ![Executor(me.task)] =
                        [Idle EXCEPT !.at = "preflight", !.task = me.task,
                                     !.plan = me.plan,
                                     !.deadline = rec[me.task].expires_at]]
    /\ UNCHANGED <<plans, spools, target, crashes>>

\* cancel_data_task.  An unknown id is remembered and answered with an error.
CancelTask(c, t) ==
    /\ thread[Caller(c)] = Idle
    /\ \/ /\ CancelUnknown(t)
          /\ UNCHANGED thread
       \/ /\ Cancel(t)
          /\ Wind(Caller(c), <<PublishCall(t), PruneCall>>)
       \/ /\ Known(rec[t]) /\ ~CancelAccepted(rec[t])
          /\ UNCHANGED registryVars
          /\ Wind(Caller(c), <<PublishCall(t), PruneCall>>)
    /\ UNCHANGED <<plans, spools, history, target, crashes>>

\* discard_data_task_preview, first lock: which task shows this plan?
Discard(c, p) ==
    /\ thread[Caller(c)] = Idle
    /\ Observe
    /\ \/ /\ \A t \in Tasks : Expired[t].preview # p
          /\ Wind(Caller(c), <<PruneCall>>)
       \/ \E t \in Tasks :
             /\ Expired[t].preview = p
             /\ IF Expired[t].execution_id # Nil
                THEN UNCHANGED thread
                ELSE Become(Caller(c), [Idle EXCEPT !.at = "discard", !.task = t])
    /\ UNCHANGED <<plans, spools, history, target, crashes>>

\* discard, second lock: that task is cancelled.
DiscardCancels(c) ==
    LET t == thread[Caller(c)].task IN
    /\ thread[Caller(c)].at = "discard"
    /\ \/ /\ Cancel(t)
          /\ Wind(Caller(c), <<PublishCall(t), PruneCall>>)
       \/ /\ Known(rec[t]) /\ ~CancelAccepted(rec[t])
          /\ UNCHANGED registryVars
          /\ Wind(Caller(c), <<PublishCall(t), PruneCall>>)
       \/ /\ ~Known(rec[t])
          /\ \/ CancelUnknown(t)
             \/ Cardinality(cancelledBefore) >= CancelLimit /\ UNCHANGED registryVars
          /\ Become(Caller(c), Idle)
    /\ UNCHANGED <<plans, spools, history, target, crashes>>

-----------------------------------------------------------------------------
(* Workers: reporting progress *)

\* The progress callback: the registry first ...
Emit(th) ==
    /\ thread[th].at = "emit"
    /\ Progress(thread[th].task, thread[th].stage)
    /\ Goto(th, "journal")
    /\ UNCHANGED <<plans, spools, history, target, crashes>>

\* ... then the history; when that fails the task is asked to stop.
Journal(th) ==
    /\ thread[th].at = "journal"
    /\ \/ PersistOk
       \/ RaiseCancelFlag(thread[th].task) /\ UNCHANGED history
       \/ ~Known(rec[thread[th].task]) /\ PersistFails
    /\ Goto(th, "work")
    /\ UNCHANGED <<plans, spools, target, crashes>>

-----------------------------------------------------------------------------
(* The preview worker: prepare_task, then the plan is published *)

NextPreviewStage(s) ==
    CASE s = "Validating" -> "Reading" [] s = "Reading" -> "Comparing"
      [] s = "Comparing" -> "Ready"

\* Both endpoints are opened, read and compared; every stage sees the flag.
PreviewWork(t) ==
    LET th == Previewer(t) IN
    /\ thread[th].at = "work"
    /\ thread[th].stage \in {"Validating", "Reading"}
    /\ ~CancelSeen(t)
    /\ thread' = [thread EXCEPT ![th].at = "emit",
                                ![th].stage = NextPreviewStage(@)]
    /\ UNCHANGED <<registryVars, plans, spools, history, target, crashes>>

\* build_plan: a fresh plan id, and the deadline counts from here.
BuildPlan(t) ==
    LET th == Previewer(t) IN
    /\ thread[th].at = "work"
    /\ thread[th].stage = "Comparing"
    /\ ~CancelSeen(t)
    /\ \E p \in Plans :
          /\ \A u \in Tasks : rec[u].plan_id # p
          /\ \A other \in Threads : thread[other].plan # p
          /\ p \notin plans \cup spools
          /\ thread' = [thread EXCEPT ![th].at = "emit", ![th].stage = "Ready",
                                      ![th].plan = p,
                                      ![th].deadline = now + PreviewLife]
    /\ UNCHANGED <<registryVars, plans, spools, history, target, crashes>>

\* The envelope goes into the plan map before the registry knows the plan.
InsertPlan(t) ==
    LET th == Previewer(t) IN
    /\ thread[th].at = "work"
    /\ thread[th].stage = "Ready"
    /\ plans' = plans \cup {thread[th].plan}
    /\ spools' = spools \cup {thread[th].plan}
    /\ Goto(th, "publish")
    /\ UNCHANGED <<registryVars, history, target, crashes>>

\* set_ready.
PublishPlan(t) ==
    LET th == Previewer(t) IN
    /\ thread[th].at = "publish"
    /\ \/ /\ SetReady(t, thread[th].plan, thread[th].deadline)
          /\ Wind(th, <<PublishCall(t), PruneCall>>)
       \/ /\ ~CanSetReady(t)
          /\ UNCHANGED registryVars
          /\ Goto(th, "withdraw")
    /\ UNCHANGED <<plans, spools, history, target, crashes>>

\* set_ready refused: the plan and its files go.
WithdrawPlan(t) ==
    LET th == Previewer(t) IN
    /\ thread[th].at = "withdraw"
    /\ plans' = plans \ {thread[th].plan}
    /\ spools' = spools \ {thread[th].plan}
    /\ Conclude(th, "Cancelled", "None")
    /\ UNCHANGED <<registryVars, history, target, crashes>>

\* Any error before the plan is complete; only a seen flag reads as cancelled.
PreviewFails(t) ==
    LET th == Previewer(t) IN
    /\ thread[th].at = "work"
    /\ thread[th].stage # "Ready"
    /\ \/ Conclude(th, "Failed", "None")
       \/ CancelSeen(t) /\ Conclude(th, "Cancelled", "None")
    /\ UNCHANGED <<registryVars, plans, spools, history, target, crashes>>

\* A task that was trimmed meanwhile has no snapshot to publish.
FinishPreview(t) ==
    LET th == Previewer(t) IN
    /\ thread[th].at = "finish"
    /\ FinishTask(t, thread[th].result[1], thread[th].result[2])
    /\ Wind(th, IF Known(rec[t]) THEN <<PublishCall(t), PruneCall>> ELSE <<PruneCall>>)
    /\ UNCHANGED <<plans, spools, history, target, crashes>>

PreviewerStep(t) ==
    \/ Emit(Previewer(t)) \/ Journal(Previewer(t))
    \/ PreviewWork(t) \/ BuildPlan(t) \/ InsertPlan(t) \/ PublishPlan(t)
    \/ WithdrawPlan(t) \/ PreviewFails(t) \/ FinishPreview(t)
    \/ TailStep(Previewer(t))

-----------------------------------------------------------------------------
(* The execution worker: execute_sqlite and execute_network *)

ExecutorAt(t, place) == thread[Executor(t)].at = place

\* Deadline, configuration and source structure are checked once more.  SQLite
\* calls a failure cancelled only if the failing call saw the flag.
Preflight(t) ==
    /\ ExecutorAt(t, "preflight")
    /\ \/ /\ ~CancelSeen(t)
          /\ thread[Executor(t)].deadline > now
          /\ Goto(Executor(t), "open")
       \/ Conclude(Executor(t), FailureStatus(t), "None")
       \/ t \notin NetworkTasks /\ Conclude(Executor(t), "Failed", "None")
    /\ UNCHANGED <<registryVars, plans, spools, history, target, crashes>>

\* BEGIN IMMEDIATE or begin_protected_write.  A network session that failed to
\* begin is rolled back; one whose source has no identity is rolled back
\* without looking at the answer.
OpenTransaction(t) ==
    /\ ExecutorAt(t, "open")
    /\ \/ /\ target' = [target EXCEPT ![t] = "open"]
          /\ Goto(Executor(t), "check")
       \/ /\ t \notin NetworkTasks
          /\ Conclude(Executor(t), FailureStatus(t), "None")
          /\ UNCHANGED target
       \/ /\ t \in NetworkTasks
          /\ target' = [target EXCEPT ![t] = "open"]
          /\ Goto(Executor(t), "rollback")
       \/ /\ t \in NetworkTasks
          /\ target' = [target EXCEPT ![t] = "lost"]
          /\ Conclude(Executor(t), "Failed", "None")
    /\ UNCHANGED <<registryVars, plans, spools, history, crashes>>

\* The target is read again and compared with the preview (SQLite reports
\* Reading while it does), then written, read back and compared once more.
\* Every part reads the spool files and looks at the flag.
ExecutionStage(t) ==
    CASE ExecutorAt(t, "check") ->
            IF t \in NetworkTasks THEN "Executing" ELSE "Reading"
      [] thread[Executor(t)].stage = "Reading" -> "Executing"
      [] thread[Executor(t)].stage = "Executing" -> "Verifying"
      [] thread[Executor(t)].stage = "Verifying" -> "Committing"

InTransaction(t) ==
    \/ ExecutorAt(t, "check")
    \/ /\ ExecutorAt(t, "work")
       /\ thread[Executor(t)].stage \in {"Reading", "Executing", "Verifying"}

TransactionWork(t) ==
    /\ InTransaction(t)
    /\ ~CancelSeen(t)
    /\ thread[Executor(t)].plan \in spools
    /\ thread' = [thread EXCEPT ![Executor(t)].at = "emit",
                                ![Executor(t)].stage = ExecutionStage(t)]
    /\ UNCHANGED <<registryVars, plans, spools, history, target, crashes>>

\* Drift, a constraint, a wrong row count, a cancellation or a read error.
TransactionFails(t) ==
    /\ InTransaction(t)
    /\ Goto(Executor(t), "rollback")
    /\ UNCHANGED <<registryVars, plans, spools, history, target, crashes>>

\* Faulty: does not read the flag again.
SendCommitBlindly(t) ==
    /\ ExecutorAt(t, "work")
    /\ thread[Executor(t)].stage = "Committing"
    /\ Goto(Executor(t), "commit")
    /\ target' = [target EXCEPT ![t] = "inflight"]
    /\ UNCHANGED <<registryVars, plans, spools, history, crashes>>

\* After Committing is registered the flag is read one last time.
SendCommit(t) ==
    /\ ExecutorAt(t, "work")
    /\ thread[Executor(t)].stage = "Committing"
    /\ IF CancelSeen(t)
       THEN Goto(Executor(t), "rollback") /\ UNCHANGED target
       ELSE /\ Goto(Executor(t), "commit")
            /\ target' = [target EXCEPT ![t] = "inflight"]
    /\ UNCHANGED <<registryVars, plans, spools, history, crashes>>

\* The database applies or rejects a COMMIT, perhaps after the client gave up.
DatabaseDecides(t) ==
    /\ target[t] = "inflight"
    /\ \E outcome \in {"committed", "lost"} :
          target' = [target EXCEPT ![t] = outcome]
    /\ UNCHANGED <<registryVars, plans, spools, thread, history, crashes>>

CommitConfirmed(t) ==
    /\ ExecutorAt(t, "commit")
    /\ target[t] = "committed"
    /\ thread' = [thread EXCEPT ![Executor(t)].at = "emit",
                                ![Executor(t)].stage = "Succeeded",
                                ![Executor(t)].result = <<"Succeeded", "Committed">>]
    /\ UNCHANGED <<registryVars, plans, spools, history, target, crashes>>

\* Faulty: takes a missing answer for a rollback on the network too.
CommitAssumedLost(t) ==
    /\ ExecutorAt(t, "commit")
    /\ Conclude(Executor(t), "Failed", "RolledBack")
    /\ UNCHANGED <<registryVars, plans, spools, history, target, crashes>>

\* COMMIT failed or got no answer.  Only SQLite can tell that the transaction
\* is still open and roll it back; anything else is an unknown outcome.
CommitUnconfirmed(t) ==
    /\ ExecutorAt(t, "commit")
    /\ \/ /\ t \notin NetworkTasks
          /\ target[t] = "inflight"
          /\ target' = [target EXCEPT ![t] = "clean"]
          /\ Conclude(Executor(t), "Failed", "RolledBack")
       \/ /\ Conclude(Executor(t), "OutcomeUnknown", "Unknown")
          /\ UNCHANGED target
    /\ UNCHANGED <<registryVars, plans, spools, history, crashes>>

CommitReported(t) ==
    /\ ExecutorAt(t, "work")
    /\ thread[Executor(t)].stage = "Succeeded"
    /\ Goto(Executor(t), "finish")
    /\ UNCHANGED <<registryVars, plans, spools, history, target, crashes>>

\* ROLLBACK: confirmed, or refused, or not answered within ten seconds.
Rollback(t) ==
    /\ ExecutorAt(t, "rollback")
    /\ \/ /\ target' = [target EXCEPT ![t] = "clean"]
          /\ Conclude(Executor(t), FailureStatus(t), "RolledBack")
       \/ /\ target' = [target EXCEPT ![t] = "lost"]
          /\ Conclude(Executor(t), "OutcomeUnknown", "Unknown")
    /\ UNCHANGED <<registryVars, plans, spools, history, crashes>>

\* A panic in the worker is caught by the task that awaits it.
ExecutorPanics(t) ==
    /\ thread[Executor(t)].at \notin {"idle", "finish", "tail"}
    /\ target' = [target EXCEPT ![t] = IF @ = "open" THEN "lost" ELSE @]
    /\ Conclude(Executor(t), "OutcomeUnknown", "Unknown")
    /\ UNCHANGED <<registryVars, plans, spools, history, crashes>>

FinishExecution(t) ==
    LET th == Executor(t) IN
    /\ thread[th].at = "finish"
    /\ FinishTask(t, thread[th].result[1], thread[th].result[2])
    /\ Wind(th, <<PruneCall, ReportCall(t)>>)
    /\ UNCHANGED <<plans, spools, history, target, crashes>>

ExecutorStep(t) ==
    \/ Preflight(t) \/ OpenTransaction(t) \/ TransactionWork(t)
    \/ TransactionFails(t) \/ SendCommit(t) \/ CommitConfirmed(t)
    \/ CommitUnconfirmed(t) \/ CommitReported(t) \/ Rollback(t)
    \/ ExecutorPanics(t) \/ FinishExecution(t)
    \/ Emit(Executor(t)) \/ Journal(Executor(t)) \/ TailStep(Executor(t))

-----------------------------------------------------------------------------

\* A command that is under way.
CallerStep(c) ==
    \/ RecordPreview(c) \/ Abandon(c) \/ SpawnPreview(c)
    \/ LookupPlan(c) \/ BeginTask(c) \/ RecordExecution(c) \/ SpawnExecution(c)
    \/ DiscardCancels(c) \/ TailStep(Caller(c))

\* A command the front end sends.
CallerCommand(c) ==
    \/ Poll(c)
    \/ \E t \in Tasks : StartPreview(c, t) \/ Execute(c, t) \/ CancelTask(c, t)
    \/ \E p \in Plans : Discard(c, p)

Init ==
    /\ RegistryInit
    /\ plans = {}
    /\ spools = {}
    /\ thread = [th \in Threads |-> Idle]
    /\ history = [t \in Tasks |-> NoTask]
    /\ target = [t \in Tasks |-> "clean"]
    /\ crashes = 0

\* A step of the running process, its database or its clock.
RunningStep ==
    \/ \E c \in Callers : CallerCommand(c) \/ CallerStep(c)
    \/ \E t \in Tasks : PreviewerStep(t) \/ ExecutorStep(t) \/ DatabaseDecides(t)
    \/ \E m \in Timers : Maintenance(m) \/ TailStep(Timer(m))
    \/ Tick /\ UNCHANGED runtimeVars

Next == RunningStep \/ Restart

Spec == Init /\ [][Next]_vars

\* Tokio runs a spawned task and an awaited command to its end, the timer loop
\* never stops, every database call is bounded by a timeout, and time passes.
\* Nothing forces the user to send a command.
Fairness ==
    /\ \A c \in Callers : WF_vars(CallerStep(c))
    /\ \A t \in Tasks : WF_vars(PreviewerStep(t)) /\ WF_vars(ExecutorStep(t))
    /\ \A m \in Timers : WF_vars(Maintenance(m)) /\ WF_vars(TailStep(Timer(m)))
    /\ WF_vars(Tick /\ UNCHANGED runtimeVars)

\* What must eventually happen is promised by a process that keeps running.
FairSpec == Init /\ [][RunningStep]_vars /\ Fairness

-----------------------------------------------------------------------------
(* Properties *)

\* A COMMIT the database has applied or may still apply.
MayBeCommitted(t) == target[t] \in {"inflight", "committed"}

\* What a finished task reports about its target is true, also when the answer
\* to COMMIT is lost, the worker panics, a persist fails or the process is
\* restarted: "None" and "RolledBack" mean that nothing was or will be
\* committed, "Committed" that it was.  Only "Unknown" leaves it open.
HonestResult ==
    \A t \in Tasks :
        /\ rec[t].commit \in {"None", "RolledBack"} => ~MayBeCommitted(t)
        /\ rec[t].commit = "Committed" => target[t] = "committed"

\* A cancel that was accepted is honoured: a task that shows Cancelling or
\* Cancelled never has a COMMIT sent, although the flag is set by one thread
\* and read by another while the worker moves towards its commit.
CancelHonoured ==
    \A t \in Tasks :
        rec[t].status \in {"Cancelling", "Cancelled"} => ~MayBeCommitted(t)

\* No two data tasks have a target transaction open at the same time.
OneTransaction ==
    \A t, u \in Tasks :
        target[t] = "open" /\ target[u] = "open" => t = u

\* A plan is executed by one worker however often the user clicks: of several
\* execute_data_task calls in flight for a task at most one gets past
\* begin_execution to spawn a worker, and none does while the worker runs.
ExecutionStartedOnce ==
    \A t \in Tasks :
        LET starting == {th \in Commands :
                           /\ thread[th].task = t
                           /\ thread[th].at \in {"recordExecution", "spawnExecution"}}
            running == {th \in {Executor(t)} : thread[th].at \notin {"idle", "tail"}}
        IN Cardinality(starting \cup running) <= 1

\* The intent is durable before the effect: whenever a COMMIT was sent for a
\* task the registry lists, a crash at this instant leaves a history that
\* restores the task as Succeeded or as an unknown outcome, never as
\* interrupted, failed or unheard of.  (A finished task that was trimmed from
\* the registry leaves the file too.)
DurableIntent ==
    \A t \in Tasks :
        MayBeCommitted(t) /\ Known(rec[t])
            => Restored(history[t]).status \in {"Succeeded", "OutcomeUnknown"}

\* A taken writer slot always has a thread that will give it back: the command
\* between begin_execution and spawn, or the execution worker before finish.
\* Otherwise no data task could run again until the application restarts.
WriterHasThread ==
    \A t \in Tasks :
        writer = t =>
            \/ thread[Executor(t)].at \notin {"idle", "tail"}
            \/ \E th \in Commands :
                  /\ thread[th].task = t
                  /\ thread[th].at \in {"recordExecution", "spawnExecution", "abandon"}

\* A started task ends: it gets a terminal status or, across a restart, the one
\* its history entry restores.  This includes a task whose cancellation is
\* pending and one whose COMMIT is never answered.
TaskEnds ==
    \A t \in Tasks :
        Live(rec[t]) /\ rec[t].status # "Ready"
            ~> ~Live(rec[t]) \/ rec[t].status = "Ready"

\* A plan that no snapshot shows any longer (finished, cancelled, discarded or
\* expired) leaves the plan map and with it its encrypted spool files.
OrphanPlansRemoved ==
    \A p \in Plans :
        p \in plans /\ (\A t \in Tasks : Expired[t].preview # p)
            ~> p \notin plans \/ \E t \in Tasks : rec[t].preview = p

\* README.md: a preview is valid for 15 minutes.  A Ready task whose preview has
\* not expired can be executed: its plan is still in the plan map.
ReadyHasPlan ==
    \A t \in Tasks :
        rec[t].status = "Ready" /\ rec[t].preview # Nil => rec[t].preview \in plans

\* registry.rs answers task_busy to a discard of a running plan: no discard
\* touches a task whose execution has begun.
DiscardSparesExecution ==
    [][\A c \in Callers, t \in Tasks :
         rec[t].execution_id # Nil /\ thread[Caller(c)].task = t /\ DiscardCancels(c)
            => rec'[t] = rec[t]]_vars

=============================================================================
