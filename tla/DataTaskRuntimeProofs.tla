------------------------ MODULE DataTaskRuntimeProofs -------------------------
(***************************************************************************)
(* The records first: the theorems about the DataTaskRegistry that the     *)
(* threads share, for any sets of ids and any limits.  WriterOwns is not   *)
(* inductive alone: cancel and expire end a Ready record without touching  *)
(* the writer slot, which is right only because a record whose execution   *)
(* has begun is never Ready or Created again (RunningPhase), and that      *)
(* rests on progress never lowering the phase.  set_ready looks at the     *)
(* execution id of the snapshot, begin_execution at the execution of the   *)
(* record: ExecutionIdShown ties the two.                                  *)
(*                                                                         *)
(* Then the threads of DataTaskRuntime for any number of tasks, plans,     *)
(* commands and timers and any limits: every reachable state is well       *)
(* typed, every thread's local state has the shape its code gives it, and  *)
(* between two crashes the runtime calls the registry only the way         *)
(* DataTaskRegistry allows, so it implements RegistrySpec.                 *)
(*                                                                         *)
(* The type invariant is not inductive alone: a worker's progress report   *)
(* is a step of the registry only if the worker knows its task and reports *)
(* a status, set_ready only if its plan's deadline counts from the past.   *)
(*                                                                         *)
(* Last what the runtime promises about the target database, for any       *)
(* number of tasks, commands and crashes.  It follows the ownership of a   *)
(* task: from its registration to the end of a worker at most one thread   *)
(* works for a task (Owns): the command that registers it, its preview     *)
(* worker, the command that begins its execution, its execution worker.    *)
(* Only the owner touches the target or registers a result, so what the    *)
(* owner knows of the target (Holds) stays true while every other thread   *)
(* cancels, expires, trims, lists and saves (Quiet).  A result is honest   *)
(* because the owner knows the target when it registers it; a restart is   *)
(* honest because the history never calls a task finished, or not          *)
(* executed, while its execution worker is at work.                        *)
(***************************************************************************)
EXTENDS DataTaskRuntime, FiniteSetTheorems, TLAPS

-------------------------------------------------------------------------------
(* The registry. *)

\* The inductive invariant.
RegistryInv ==
    /\ RegistryTypeOK
    /\ WriterOwns
    /\ RunningPhase
    /\ ExecutionIdShown
    /\ ExecutedOnce

\* Two records with the same execution, execution id and plan.
SameIds(r, q) ==
    /\ r.execution = q.execution
    /\ r.execution_id = q.execution_id
    /\ r.plan_id = q.plan_id

\* A record whose execution has begun and has no result.
Running(r) == r.execution # Nil /\ Live(r)

-----------------------------------------------------------------------------
(* Facts about the helpers *)

\* The phase numbers separate the preview phases from the execution phases.
LEMMA PhaseOrder ==
    /\ \A s \in PreviewPhases : Phase(s) \in 0 .. 4
    /\ \A s \in ExecutionPhases : Phase(s) \in 5 .. 7
  BY DEF PreviewPhases, ExecutionPhases, Phase

\* No commit state is Nil.
LEMMA CommitNotNil == \A c \in CommitState : c # Nil
  BY NilAssumption

\* The empty record is a record.
LEMMA NoRecordType == NoRecord \in Record
  BY DEF NoRecord, Record

\* A new record is a record without execution.
LEMMA NewRecordFacts ==
    ASSUME NEW t \in Tasks, now \in Nat
    PROVE  /\ NewRecord(t) \in Record
           /\ NewRecord(t).execution = Nil
           /\ NewRecord(t).plan_id = Nil
  <1>1. NoRecord \in Record /\ NoRecord.execution = Nil /\ NoRecord.plan_id = Nil
    BY NoRecordType DEF NoRecord
  <1>2. CASE t \in cancelledBefore
    <2>1. NewRecord(t) = [NoRecord EXCEPT !.status = "Cancelled", !.cancel = TRUE,
                                          !.commit = "None", !.updated_at = now]
      BY <1>2 DEF NewRecord
    <2> QED
      BY <1>1, <2>1 DEF Record, Status, Terminal, CommitState
  <1>3. CASE t \notin cancelledBefore
    <2>1. NewRecord(t) = [NoRecord EXCEPT !.status = "Created", !.updated_at = now]
      BY <1>3 DEF NewRecord
    <2> QED
      BY <1>1, <2>1 DEF Record, Status, PreviewPhases
  <1> QED
    BY <1>2, <1>3

\* expire() yields records, leaves execution, execution id and plan alone, and
\* changes the status of Ready records only.
LEMMA ExpireFacts ==
    ASSUME RegistryTypeOK
    PROVE  /\ Expired \in [Tasks -> Record]
           /\ \A t \in Tasks :
                 /\ SameIds(Expired[t], rec[t])
                 /\ \/ Expired[t] = rec[t]
                    \/ /\ rec[t].status = "Ready" /\ Expired[t].status = "Expired"
                       /\ Expired[t].commit = "None"
  <1> SUFFICES ASSUME NEW t \in Tasks
               PROVE  /\ Expired[t] \in Record
                      /\ SameIds(Expired[t], rec[t])
                      /\ \/ Expired[t] = rec[t]
                         \/ /\ rec[t].status = "Ready" /\ Expired[t].status = "Expired"
                            /\ Expired[t].commit = "None"
    BY DEF Expired
  <1>1. rec[t] \in Record /\ now \in Nat
    BY DEF RegistryTypeOK
  <1>2. Expired[t] = ExpireRecord(rec[t])
    BY DEF Expired
  <1>3. CASE ~Lapsed(rec[t])
    BY <1>1, <1>2, <1>3 DEF ExpireRecord, SameIds
  <1>4. CASE Lapsed(rec[t])
    <2>1. Expired[t] = [rec[t] EXCEPT !.status = "Expired", !.preview = Nil,
                          !.commit = "None", !.cancel = TRUE, !.updated_at = now]
      BY <1>2, <1>4 DEF ExpireRecord
    <2>2. Expired[t] \in Record
      BY <1>1, <2>1 DEF Record, Status, Terminal, CommitState
    <2>3. /\ Expired[t].execution = rec[t].execution
          /\ Expired[t].execution_id = rec[t].execution_id
          /\ Expired[t].plan_id = rec[t].plan_id
          /\ Expired[t].status = "Expired"
          /\ Expired[t].commit = "None"
      BY <1>1, <2>1 DEF Record
    <2> QED
      BY <1>4, <2>2, <2>3 DEF Lapsed, SameIds
  <1> QED
    BY <1>3, <1>4

\* trim() yields records and only removes terminal ones.
LEMMA DropFacts ==
    ASSUME NEW R \in [Tasks -> Record], NEW G \in TrimChoices(R)
    PROVE  /\ Drop(R, G) \in [Tasks -> Record]
           /\ \A t \in Tasks :
                 \/ Drop(R, G)[t] = R[t]
                 \/ IsTerminal(R[t]) /\ Drop(R, G)[t] = NoRecord
  BY NoRecordType DEF Drop, TrimChoices, TerminalIds

\* The records that cancel, progress and finish write.
LEMMA CancelRecordFacts ==
    ASSUME NEW r \in Record, now \in Nat
    PROVE  /\ CancelRecord(r) \in Record
           /\ SameIds(CancelRecord(r), r)
           /\ IF r.status \in {"Ready", "Created"}
              THEN CancelRecord(r).status = "Cancelled" /\ CancelRecord(r).commit = "None"
              ELSE CancelRecord(r).status = "Cancelling"
  <1>1. CASE r.status \in {"Ready", "Created"}
    <2>1. CancelRecord(r) = [r EXCEPT !.cancel = TRUE, !.status = "Cancelled",
                               !.preview = Nil, !.commit = "None", !.updated_at = now]
      BY <1>1 DEF CancelRecord
    <2> QED
      BY <1>1, <2>1 DEF Record, Status, Terminal, CommitState, SameIds
  <1>2. CASE r.status \notin {"Ready", "Created"}
    <2>1. CancelRecord(r) = [r EXCEPT !.cancel = TRUE, !.status = "Cancelling",
                                      !.updated_at = now]
      BY <1>2 DEF CancelRecord
    <2> QED
      BY <1>2, <2>1 DEF Record, Status, SameIds
  <1> QED
    BY <1>1, <1>2

\* A progress report keeps the ids of a record and changes its status only when
\* progress does not ignore it.
LEMMA ProgressRecordFacts ==
    ASSUME NEW r \in Record, NEW s \in Reported, now \in Nat
    PROVE  /\ ProgressRecord(r, s) \in Record
           /\ SameIds(ProgressRecord(r, s), r)
           /\ ProgressRecord(r, s).status =
                 IF ProgressApplies(r, s) THEN s ELSE r.status
  <1>1. s \in Status
    BY DEF Reported, Status, Terminal
  <1>2. CASE ProgressApplies(r, s)
    BY <1>1, <1>2 DEF ProgressRecord, Record, SameIds
  <1>3. CASE ~ProgressApplies(r, s)
    BY <1>3 DEF ProgressRecord, SameIds
  <1> QED
    BY <1>2, <1>3

\* finish makes a record terminal, with the given commit state, and keeps its ids.
LEMMA FinishRecordFacts ==
    ASSUME NEW r \in Record, NEW status \in Terminal, NEW commit \in CommitState,
           now \in Nat
    PROVE  /\ FinishRecord(r, status, commit) \in Record
           /\ SameIds(FinishRecord(r, status, commit), r)
           /\ FinishRecord(r, status, commit).status = status
           /\ FinishRecord(r, status, commit).commit = commit
  BY DEF FinishRecord, Record, Status, SameIds

\* append_cleanup_error leaves the status and the ids of a record alone.
LEMMA CleanupNotedFacts ==
    ASSUME NEW r \in Record, now \in Nat
    PROVE  /\ CleanupNoted(r) \in Record
           /\ SameIds(CleanupNoted(r), r)
           /\ CleanupNoted(r).status = r.status
           /\ CleanupNoted(r).cancel = r.cancel
           /\ r.commit # Nil => CleanupNoted(r).commit = r.commit
           /\ ~IsTerminal(r) => CleanupNoted(r) = r
  <1>1. CASE IsTerminal(r)
    <2> DEFINE c == IF r.commit = Nil THEN "None" ELSE r.commit
    <2>1. c \in CommitState \cup {Nil} /\ (r.commit # Nil => c = r.commit)
      BY DEF Record, CommitState
    <2>2. CleanupNoted(r) = [r EXCEPT !.commit = c, !.updated_at = now]
      BY <1>1 DEF CleanupNoted
    <2> HIDE DEF c
    <2> QED
      BY <1>1, <2>1, <2>2 DEF Record, SameIds
  <1>2. CASE ~IsTerminal(r)
    BY <1>2 DEF CleanupNoted, SameIds
  <1> QED
    BY <1>1, <1>2

\* Every reported result is a terminal status with a commit state.
LEMMA ResultTypes == \A r \in Results : r[1] \in Terminal /\ r[2] \in CommitState
  BY DEF Results, Terminal, CommitState

-----------------------------------------------------------------------------
(* Every method preserves the invariant *)

\* What the methods that leave the writer slot alone have in common: a record
\* keeps its ids, and if its execution has begun it keeps its status or moves
\* within the execution phases; or it is new or gone, and was not running.
Untouched(t) ==
    /\ SameIds(rec'[t], rec[t])
    /\ rec[t].execution # Nil =>
          \/ rec'[t].status = rec[t].status
          \/ /\ Live(rec[t])
             /\ rec'[t].status \in ExecutionPhases \cup {"Cancelling"}

Replaced(t) ==
    /\ ~Running(rec[t])
    /\ rec'[t].execution = Nil
    /\ rec'[t].plan_id = Nil

\* A step that keeps the writer slot, keeps the ids of every record that stays and
\* lets no execution begin or end preserves the invariant.
LEMMA QuietStep ==
    ASSUME RegistryInv, RegistryTypeOK', writer' = writer,
           \A t \in Tasks : Untouched(t) \/ Replaced(t)
    PROVE  RegistryInv'
  <1>1. \A s \in ExecutionPhases \cup {"Cancelling"} : s \notin Terminal /\ s # "Absent"
    BY DEF ExecutionPhases, Terminal
  <1>2. ASSUME NEW t \in Tasks
        PROVE  /\ writer' = t <=> rec'[t].execution # Nil /\ Live(rec'[t])
               /\ rec'[t].execution # Nil /\ Live(rec'[t])
                     => rec'[t].status \in ExecutionPhases \cup {"Cancelling"}
    <2>1. CASE Untouched(t)
      BY <1>1, <2>1 DEF RegistryInv, WriterOwns, RunningPhase, Untouched, SameIds,
                        Live, Known, IsTerminal
    <2>2. CASE Replaced(t)
      BY <2>2 DEF RegistryInv, WriterOwns, Replaced, Running
    <2> QED
      BY <2>1, <2>2
  <1>3. ExecutionIdShown'
    BY DEF RegistryInv, ExecutionIdShown, Untouched, Replaced, SameIds
  <1>4. ExecutedOnce'
    BY DEF RegistryInv, ExecutedOnce, Untouched, Replaced, SameIds
  <1> QED
    BY <1>2, <1>3, <1>4 DEF RegistryInv, WriterOwns, RunningPhase

\* register_preview preserves the invariant: the new record has no execution, and
\* what trim removes is terminal.
LEMMA RegisterPreviewInv ==
    ASSUME RegistryInv, NEW t \in Tasks, RegisterPreview(t)
    PROVE  RegistryInv'
  <1> DEFINE new == NewRecord(t)
             R == [Expired EXCEPT ![t] = new]
  <1>1. PICK G \in TrimChoices(R) : rec' = Drop(R, G)
    BY DEF RegisterPreview
  <1>2. RegistryTypeOK /\ RunningPhase
    BY DEF RegistryInv
  <1>3. new \in Record /\ new.execution = Nil /\ new.plan_id = Nil
    BY <1>2, NewRecordFacts DEF RegistryTypeOK
  <1> HIDE DEF new
  <1>4. R \in [Tasks -> Record] /\ R[t] = new /\ \A u \in Tasks : u # t => R[u] = Expired[u]
    BY <1>2, <1>3, ExpireFacts
  <1>5. G \in TrimChoices(R)
    BY <1>1
  <1> HIDE DEF R
  <1>6. /\ rec' \in [Tasks -> Record]
        /\ \A u \in Tasks :
              \/ rec'[u] = R[u]
              \/ IsTerminal(R[u]) /\ rec'[u] = NoRecord
    BY <1>1, <1>4, <1>5, DropFacts
  <1>7. RegistryTypeOK'
    BY <1>2, <1>6 DEF RegisterPreview, RegistryTypeOK
  <1>8. \A u \in Tasks : rec[u].execution # Nil => Expired[u] = rec[u]
    BY <1>2, ExpireFacts
       DEF RunningPhase, Live, Known, IsTerminal, ExecutionPhases, Terminal
  <1>9. ASSUME NEW u \in Tasks
        PROVE  Untouched(u) \/ Replaced(u)
    <2>1. CASE u = t
      <3>1. ~Running(rec[t])
        BY <1>8 DEF RegisterPreview, Running, Live
      <3> QED
        BY <1>3, <1>4, <1>6, <2>1, <3>1 DEF Replaced, NoRecord
    <2>2. CASE u # t /\ rec'[u] = R[u]
      <3>1. rec'[u] = Expired[u]
        BY <1>4, <2>2
      <3> QED
        BY <1>2, <1>8, <3>1, ExpireFacts DEF Untouched
    <2>3. CASE u # t /\ IsTerminal(R[u]) /\ rec'[u] = NoRecord
      <3>1. IsTerminal(Expired[u])
        BY <1>4, <2>3
      <3> QED
        BY <1>8, <2>3, <3>1 DEF Replaced, Running, Live, NoRecord
    <2> QED
      BY <1>6, <2>1, <2>2, <2>3
  <1> QED
    BY <1>7, <1>9, QuietStep DEF RegisterPreview

\* Expiry preserves the invariant: it only ends Ready records, which do not run.
LEMMA ObserveInv ==
    ASSUME RegistryInv, Observe
    PROVE  RegistryInv'
  <1>1. RegistryTypeOK /\ RunningPhase
    BY DEF RegistryInv
  <1>2. \A t \in Tasks : rec[t].execution # Nil => rec[t].status # "Ready"
    BY <1>1 DEF RunningPhase, Live, Known, IsTerminal, ExecutionPhases, Terminal
  <1>3. \A t \in Tasks : Untouched(t)
    BY <1>1, <1>2, ExpireFacts DEF Observe, Untouched
  <1>4. RegistryTypeOK'
    BY <1>1, ExpireFacts DEF Observe, RegistryTypeOK
  <1> QED
    BY <1>3, <1>4, QuietStep DEF Observe

\* A step that changes one record and leaves the writer slot alone.
LEMMA OneRecordInv ==
    ASSUME RegistryInv, NEW t \in Tasks, NEW r \in Record,
           SameIds(r, rec[t]),
           rec[t].execution # Nil =>
              \/ r.status = rec[t].status
              \/ /\ Live(rec[t])
                 /\ r.status \in ExecutionPhases \cup {"Cancelling"},
           rec' = [rec EXCEPT ![t] = r],
           UNCHANGED <<cancelledBefore, writer, now>>
    PROVE  RegistryInv'
  <1>1. rec \in [Tasks -> Record] /\ RegistryTypeOK
    BY DEF RegistryInv, RegistryTypeOK
  <1>2. RegistryTypeOK'
    BY <1>1 DEF RegistryTypeOK
  <1>3. \A u \in Tasks : Untouched(u)
    BY <1>1 DEF Untouched, SameIds
  <1> QED
    BY <1>2, <1>3, QuietStep

\* cancel preserves the invariant: it ends only Created and Ready records and leaves
\* a running one Cancelling.
LEMMA CancelInv ==
    ASSUME RegistryInv, NEW t \in Tasks, Cancel(t)
    PROVE  RegistryInv'
  <1>1. rec[t] \in Record /\ now \in Nat /\ RunningPhase
    BY DEF RegistryInv, RegistryTypeOK
  <1>2. Live(rec[t])
    BY DEF Cancel, CancelAccepted
  <1>3. rec[t].execution # Nil => rec[t].status \notin {"Ready", "Created"}
    BY <1>1, <1>2 DEF RunningPhase, ExecutionPhases
  <1> QED
    BY <1>1, <1>2, <1>3, CancelRecordFacts, OneRecordInv DEF Cancel

\* progress preserves the invariant: no report moves an execution backwards.
LEMMA ProgressInv ==
    ASSUME RegistryInv, NEW t \in Tasks, NEW s \in Reported, Progress(t, s)
    PROVE  RegistryInv'
  <1>1. rec[t] \in Record /\ now \in Nat /\ RunningPhase
    BY DEF RegistryInv, RegistryTypeOK
  <1>2. ASSUME rec[t].execution # Nil, ProgressApplies(rec[t], s)
        PROVE  Live(rec[t]) /\ s \in ExecutionPhases
    <2>1. Live(rec[t]) /\ rec[t].status \in ExecutionPhases
      BY <1>1, <1>2 DEF ProgressApplies, RunningPhase
    <2>2. Phase(rec[t].status) \in 5 .. 7 /\ Phase(s) >= Phase(rec[t].status)
      BY <1>2, <2>1, PhaseOrder DEF ProgressApplies
    <2>3. s \in PreviewPhases \cup ExecutionPhases
      BY <1>2 DEF Reported, ProgressApplies, Terminal
    <2>4. s \notin PreviewPhases
      BY <2>2, PhaseOrder
    <2> QED
      BY <2>1, <2>3, <2>4
  <1> QED
    BY <1>1, <1>2, ProgressRecordFacts, OneRecordInv DEF Progress

\* The flag a failed persist raises is not part of the invariant.
LEMMA RaiseCancelFlagInv ==
    ASSUME RegistryInv, NEW t \in Tasks, RaiseCancelFlag(t)
    PROVE  RegistryInv'
  <1>1. RegistryTypeOK /\ RunningPhase
    BY DEF RegistryInv
  <1>2. \A u \in Tasks : rec[u].execution # Nil => rec[u].status # "Ready"
    BY <1>1 DEF RunningPhase, Live, Known, IsTerminal, ExecutionPhases, Terminal
  <1> DEFINE r == [Expired[t] EXCEPT !.cancel = TRUE]
  <1>3. r \in Record /\ SameIds(r, Expired[t]) /\ r.status = Expired[t].status
    BY <1>1, ExpireFacts DEF Record, SameIds
  <1>4. rec' = [Expired EXCEPT ![t] = r]
    BY <1>1, ExpireFacts DEF RaiseCancelFlag
  <1> HIDE DEF r
  <1>5. RegistryTypeOK'
    BY <1>1, <1>3, <1>4, ExpireFacts DEF RaiseCancelFlag, RegistryTypeOK
  <1>6. \A u \in Tasks : SameIds(rec'[u], rec[u]) /\ rec'[u].status = Expired[u].status
    BY <1>1, <1>3, <1>4, ExpireFacts DEF SameIds
  <1>7. \A u \in Tasks : Untouched(u)
    BY <1>1, <1>2, <1>6, ExpireFacts DEF Untouched
  <1> QED
    BY <1>5, <1>7, QuietStep DEF RaiseCancelFlag

\* append_cleanup_error preserves the invariant.
LEMMA AppendCleanupErrorInv ==
    ASSUME RegistryInv, NEW S, NEW R \in {rec, Expired}, AppendCleanupError(R, S)
    PROVE  RegistryInv'
  <1>1. RegistryTypeOK /\ RunningPhase /\ rec \in [Tasks -> Record] /\ now \in Nat
    BY DEF RegistryInv, RegistryTypeOK
  <1>2. \A t \in Tasks : rec[t].execution # Nil => rec[t].status # "Ready"
    BY <1>1 DEF RunningPhase, Live, Known, IsTerminal, ExecutionPhases, Terminal
  <1>3. /\ R \in [Tasks -> Record]
        /\ \A t \in Tasks : /\ SameIds(R[t], rec[t])
                            /\ rec[t].execution # Nil => R[t].status = rec[t].status
    <2>1. CASE R = rec
      BY <1>1, <2>1 DEF SameIds
    <2>2. CASE R = Expired
      BY <1>1, <1>2, <2>2, ExpireFacts
    <2> QED
      BY <2>1, <2>2
  <1>4. rec' = [t \in Tasks |-> IF t \in S THEN CleanupNoted(R[t]) ELSE R[t]]
    BY DEF AppendCleanupError
  <1>5. \A t \in Tasks : /\ rec'[t] \in Record
                         /\ SameIds(rec'[t], R[t])
                         /\ rec'[t].status = R[t].status
    BY <1>1, <1>3, <1>4, CleanupNotedFacts DEF SameIds
  <1>6. ASSUME NEW t \in Tasks
        PROVE  Untouched(t)
    <2>1. SameIds(R[t], rec[t]) /\ (rec[t].execution # Nil => R[t].status = rec[t].status)
      BY <1>3
    <2>2. SameIds(rec'[t], R[t]) /\ rec'[t].status = R[t].status
      BY <1>5
    <2> QED
      BY <2>1, <2>2 DEF Untouched, SameIds
  <1>7. rec' \in [Tasks -> Record]
    BY <1>4, <1>5
  <1>8. RegistryTypeOK'
    BY <1>1, <1>7 DEF AppendCleanupError, RegistryTypeOK
  <1> QED
    BY <1>6, <1>8, QuietStep DEF AppendCleanupError

\* set_ready preserves the invariant: it refuses a task with an execution id, and
\* its plan id is fresh.
LEMMA SetReadyInv ==
    ASSUME RegistryInv, NEW t \in Tasks, NEW p \in Plans, NEW d \in Nat,
           SetReady(t, p, d)
    PROVE  RegistryInv'
  <1>1. RegistryTypeOK /\ ExecutionIdShown /\ ExecutedOnce
    BY DEF RegistryInv
  <1>2. rec[t] \in Record /\ now \in Nat
    BY <1>1 DEF RegistryTypeOK
  <1>3. rec[t].execution = Nil
    <2>1. SUFFICES ASSUME rec[t].execution # Nil
                   PROVE  FALSE
      OBVIOUS
    <2>2. rec[t].execution \in Input
      BY <1>2, <2>1 DEF Record
    <2>3. rec[t].execution.execution_id \in Executions
      BY <2>2 DEF Input
    <2>4. rec[t].execution_id = Nil /\ rec[t].execution_id = rec[t].execution.execution_id
      BY <1>1, <2>1 DEF SetReady, CanSetReady, ExecutionIdShown
    <2> QED
      BY <2>3, <2>4, NilAssumption
  <1> DEFINE r == [rec[t] EXCEPT !.status = "Ready", !.plan_id = p, !.preview = p,
                                 !.expires_at = d, !.updated_at = now]
  <1>4. /\ r \in Record
        /\ r.execution = Nil
        /\ r.plan_id = p
    <2>1. "Ready" \in Status \cup {"Absent"}
      BY DEF Status, PreviewPhases
    <2> QED
      BY <1>2, <1>3, <2>1 DEF Record
  <1>5. rec' = [rec EXCEPT ![t] = r]
    BY <1>1 DEF SetReady, RegistryTypeOK
  <1>0. /\ \A u \in Tasks : rec[u].plan_id # p
        /\ UNCHANGED <<cancelledBefore, writer, now>>
    BY DEF SetReady
  <1> HIDE DEF r
  <1>6. /\ rec'[t] = r
        /\ \A u \in Tasks : u # t => rec'[u] = rec[u]
    BY <1>1, <1>5 DEF RegistryTypeOK
  <1>7. RegistryTypeOK'
    BY <1>0, <1>1, <1>4, <1>5 DEF RegistryTypeOK
  <1>8. WriterOwns' /\ RunningPhase'
    BY <1>0, <1>3, <1>4, <1>6 DEF RegistryInv, WriterOwns, RunningPhase
  <1>9. ExecutionIdShown'
    BY <1>1, <1>4, <1>6 DEF ExecutionIdShown
  <1>10. ExecutedOnce'
    BY <1>0, <1>1, <1>4, <1>6 DEF ExecutedOnce
  <1> QED
    BY <1>7, <1>8, <1>9, <1>10 DEF RegistryInv

\* begin_execution preserves the invariant: the slot was free, the execution id new
\* and the task Ready.
LEMMA BeginExecutionInv ==
    ASSUME RegistryInv, NEW t \in Tasks, NEW input \in Input,
           BeginExecution(t, input)
    PROVE  RegistryInv'
  <1>1. RegistryTypeOK /\ WriterOwns /\ RunningPhase /\ ExecutionIdShown /\ ExecutedOnce
    BY DEF RegistryInv
  <1>2. /\ Expired \in [Tasks -> Record]
        /\ \A u \in Tasks : SameIds(Expired[u], rec[u])
        /\ \A u \in Tasks : rec[u].execution # Nil => Expired[u] = rec[u]
    BY <1>1, ExpireFacts
       DEF RunningPhase, Live, Known, IsTerminal, ExecutionPhases, Terminal
  <1>3. now \in Nat /\ writer = Nil
    BY <1>1 DEF RegistryTypeOK, BeginExecution, MayBegin
  <1> DEFINE r == [Expired[t] EXCEPT !.execution = input,
                                     !.execution_id = input.execution_id,
                                     !.status = "Executing", !.updated_at = now]
  <1>4. /\ r \in Record
        /\ r.execution = input
        /\ r.execution_id = input.execution_id
        /\ r.plan_id = rec[t].plan_id
        /\ r.status = "Executing"
    <2>1. Expired[t] \in Record /\ input.execution_id \in Executions
      BY <1>2 DEF Input
    <2> QED
      BY <1>2, <1>3, <2>1 DEF Record, Status, ExecutionPhases, SameIds
  <1>5. rec' = [Expired EXCEPT ![t] = r]
    BY <1>2 DEF BeginExecution
  <1> HIDE DEF r
  <1>6. /\ rec'[t] = r
        /\ \A u \in Tasks : u # t => rec'[u] = Expired[u]
    <2>1. Expired \in [Tasks -> Record]
      BY <1>2
    <2> HIDE DEF Expired
    <2> QED
      BY <1>5, <2>1
  <1>7. RegistryTypeOK'
    <2>1. rec' \in [Tasks -> Record]
      BY <1>2, <1>4, <1>5
    <2> QED
      BY <1>1, <2>1 DEF BeginExecution, RegistryTypeOK
  <1>8. input # Nil /\ t # Nil
    BY NilAssumption
  <1>9. \A u \in Tasks : ~Running(rec[u])
    BY <1>1, <1>3, NilAssumption DEF WriterOwns, Running
  <1>10. \A u \in Tasks : u # t => ~Running(rec'[u])
    <2> SUFFICES ASSUME NEW u \in Tasks, u # t, rec'[u].execution # Nil
                 PROVE  ~Live(rec'[u])
      BY DEF Running
    <2>1. rec'[u] = Expired[u] /\ rec[u].execution # Nil
      BY <1>2, <1>6 DEF SameIds
    <2> QED
      BY <1>2, <1>9, <2>1 DEF Running
  <1>11. Live(rec'[t]) /\ rec'[t].execution # Nil /\ writer' = t
    BY <1>4, <1>6, <1>8
       DEF Live, Known, IsTerminal, Terminal, BeginExecution
  <1>12. WriterOwns'
    BY <1>10, <1>11 DEF WriterOwns, Running
  <1>13. RunningPhase'
    BY <1>4, <1>6, <1>10 DEF RunningPhase, Running, ExecutionPhases
  <1>14. ExecutionIdShown'
    BY <1>1, <1>2, <1>4, <1>6 DEF ExecutionIdShown, SameIds
  <1>15. \A u \in Tasks :
            rec[u].execution # Nil => rec[u].execution.execution_id # input.execution_id
    BY <1>2 DEF BeginExecution, MayBegin, Started, SameIds
  <1>16. ExecutedOnce'
    BY <1>1, <1>2, <1>4, <1>6, <1>15 DEF ExecutedOnce, SameIds
  <1> QED
    BY <1>7, <1>12, <1>13, <1>14, <1>16 DEF RegistryInv

\* finish preserves the invariant: it releases the slot exactly when the record it
\* ends held it, and what trim removes is terminal.
LEMMA FinishInv ==
    ASSUME RegistryInv, NEW t \in Tasks, NEW s \in Terminal, NEW c \in CommitState,
           Finish(t, s, c)
    PROVE  RegistryInv'
  <1>1. RegistryTypeOK /\ WriterOwns /\ RunningPhase /\ ExecutionIdShown /\ ExecutedOnce
    BY DEF RegistryInv
  <1>2. rec \in [Tasks -> Record] /\ now \in Nat
    BY <1>1 DEF RegistryTypeOK
  <1> DEFINE r == FinishRecord(rec[t], s, c)
             R == [rec EXCEPT ![t] = r]
  <1>3. PICK G \in TrimChoices(R) : rec' = Drop(R, G)
    BY DEF Finish
  <1>4. r \in Record /\ SameIds(r, rec[t]) /\ r.status = s
    BY <1>2, FinishRecordFacts
  <1> HIDE DEF r
  <1>5. R \in [Tasks -> Record] /\ R[t] = r /\ \A u \in Tasks : u # t => R[u] = rec[u]
    BY <1>2, <1>4
  <1>6. G \in TrimChoices(R)
    BY <1>3
  <1> HIDE DEF R
  <1>7. /\ rec' \in [Tasks -> Record]
        /\ \A u \in Tasks :
              \/ rec'[u] = R[u]
              \/ IsTerminal(R[u]) /\ rec'[u] = NoRecord
    BY <1>3, <1>5, <1>6, DropFacts
  <1>8. NoRecord.execution = Nil /\ NoRecord.plan_id = Nil
    BY DEF NoRecord
  <1>9. \A u \in Tasks :
           \/ rec'[u].execution = Nil /\ rec'[u].plan_id = Nil
           \/ SameIds(rec'[u], rec[u])
    BY <1>4, <1>5, <1>7, <1>8 DEF SameIds
  <1>10. ~Running(rec'[t])
    <2>1. IsTerminal(R[t])
      BY <1>4, <1>5 DEF IsTerminal
    <2> QED
      BY <1>7, <1>8, <2>1 DEF Running, Live
  <1>11. \A u \in Tasks :
            u # t => \/ rec'[u] = rec[u]
                     \/ ~Running(rec[u]) /\ ~Running(rec'[u])
    BY <1>5, <1>7, <1>8 DEF Running, Live
  <1>12. RegistryTypeOK'
    BY <1>1, <1>7 DEF Finish, RegistryTypeOK
  <1>13. WriterOwns'
    <2> SUFFICES ASSUME NEW u \in Tasks
                 PROVE  writer' = u <=> Running(rec'[u])
      BY DEF WriterOwns, Running
    <2>1. writer = u <=> Running(rec[u])
      BY <1>1 DEF WriterOwns, Running
    <2>2. writer' = IF writer = t THEN Nil ELSE writer
      BY DEF Finish
    <2>3. CASE u = t
      BY <1>10, <2>2, <2>3, NilAssumption
    <2>4. CASE u # t
      <3>1. Running(rec'[u]) <=> Running(rec[u])
        BY <1>11, <2>4
      <3>2. writer' = u <=> writer = u
        BY <2>2, <2>4, NilAssumption
      <3> QED
        BY <2>1, <3>1, <3>2
    <2> QED
      BY <2>3, <2>4
  <1>14. RunningPhase'
    BY <1>1, <1>10, <1>11 DEF RunningPhase, Running
  <1>15. ExecutionIdShown'
    BY <1>1, <1>9 DEF ExecutionIdShown, SameIds
  <1>16. ExecutedOnce'
    BY <1>1, <1>9 DEF ExecutedOnce, SameIds
  <1> QED
    BY <1>12, <1>13, <1>14, <1>15, <1>16 DEF RegistryInv

\* A step that changes no record and not the writer slot.
LEMMA SameRecordsInv ==
    ASSUME RegistryInv, RegistryTypeOK', UNCHANGED <<rec, writer>>
    PROVE  RegistryInv'
  BY DEF RegistryInv, WriterOwns, RunningPhase, ExecutionIdShown, ExecutedOnce

\* Remembering a cancellation ahead of its task preserves the invariant.
LEMMA CancelUnknownInv ==
    ASSUME RegistryInv, NEW t \in Tasks, CancelUnknown(t)
    PROVE  RegistryInv'
  <1>1. RegistryTypeOK'
    BY DEF RegistryInv, RegistryTypeOK, CancelUnknown
  <1> QED
    BY <1>1, SameRecordsInv DEF CancelUnknown

\* The clock preserves the invariant.
LEMMA TickInv ==
    ASSUME RegistryInv, Tick
    PROVE  RegistryInv'
  <1>1. RegistryTypeOK'
    BY DEF RegistryInv, RegistryTypeOK, Tick
  <1> QED
    BY <1>1, SameRecordsInv DEF Tick

\* The empty registry satisfies the invariant.
LEMMA InitInv ==
    ASSUME RegistryInit
    PROVE  RegistryInv
  <1>1. rec = [t \in Tasks |-> NoRecord] /\ NoRecord \in Record
    BY NoRecordType DEF RegistryInit
  <1>2. \A t \in Tasks : rec[t].execution = Nil /\ rec[t].plan_id = Nil
    BY <1>1 DEF NoRecord
  <1>3. RegistryTypeOK
    BY <1>1 DEF RegistryInit, RegistryTypeOK
  <1> QED
    BY <1>2, <1>3, NilAssumption
       DEF RegistryInit, RegistryInv, WriterOwns, RunningPhase, ExecutionIdShown,
           ExecutedOnce

\* Every step of the registry preserves the invariant.
LEMMA NextInv ==
    ASSUME RegistryInv, [RegistryNext]_registryVars
    PROVE  RegistryInv'
  <1>1. ASSUME NEW t \in Tasks, NEW p \in Plans, NEW d \in 0 .. now + PreviewLife,
               SetReady(t, p, d)
        PROVE  RegistryInv'
    <2>1. d \in Nat
      BY LimitsAssumption DEF RegistryInv, RegistryTypeOK
    <2> QED
      BY <1>1, <2>1, SetReadyInv
  <1>2. ASSUME NEW t \in Tasks, NEW r \in Results, Finish(t, r[1], r[2])
        PROVE  RegistryInv'
    BY <1>2, ResultTypes, FinishInv
  <1>3. CASE UNCHANGED registryVars
    <2>1. RegistryTypeOK'
      BY <1>3 DEF registryVars, RegistryInv, RegistryTypeOK
    <2> QED
      BY <1>3, <2>1, SameRecordsInv DEF registryVars
  <1> QED
    BY <1>1, <1>2, <1>3, RegisterPreviewInv, ObserveInv, BeginExecutionInv,
       CancelUnknownInv, CancelInv, ProgressInv, RaiseCancelFlagInv,
       AppendCleanupErrorInv, TickInv
       DEF RegistryNext

-----------------------------------------------------------------------------
(* The theorems *)

\* RegistryInv holds in every reachable state of the registry.
THEOREM RegistryInvariance == RegistrySpec => []RegistryInv
  <1>1. RegistryInit => RegistryInv
    BY InitInv
  <1>2. RegistryInv /\ [RegistryNext]_registryVars => RegistryInv'
    BY NextInv
  <1> QED
    BY <1>1, <1>2, PTL DEF RegistrySpec

\* Every reachable registry is well typed, whatever the limits are.
THEOREM RegistryTypeCorrect == RegistrySpec => []RegistryTypeOK
  BY RegistryInvariance, PTL DEF RegistryInv

\* The writer slot and the records agree in every reachable registry: at most
\* one execution runs and the slot is never leaked.
THEOREM WriterExclusive == RegistrySpec => []WriterOwns
  BY RegistryInvariance, PTL DEF RegistryInv

\* A running execution never shows a preview phase.
THEOREM ExecutionNeverRegresses == RegistrySpec => []RunningPhase
  BY RegistryInvariance, PTL DEF RegistryInv

\* An execution id never starts two tasks and no two records share a plan.
THEOREM ExecutionsUnique == RegistrySpec => []ExecutedOnce
  BY RegistryInvariance, PTL DEF RegistryInv

-----------------------------------------------------------------------------
(* What a method may do to one record *)

\* A pending cancellation has its flag raised (set_ready looks at the flag only)
\* and an ended task has a result (append_cleanup_error never has to make one up).
Sound(r) ==
    /\ r.status = "Cancelling" => r.cancel
    /\ IsTerminal(r) => r.commit # Nil

RecordsSound == \A t \in Tasks : Sound(rec[t])

\* A record that counts against PreviewLimit.
IsOpen(r) == Live(r) /\ r.execution_id = Nil

\* r may become q.
Lawful(r, q) ==
    /\ r.status = "Cancelling" => q.status \in Terminal \cup {"Cancelling", "Absent"}
    /\ IsTerminal(r) => \/ q = NoRecord
                        \/ q.status = r.status /\ q.commit = r.commit
    /\ Sound(q)
    /\ IsOpen(q) => IsOpen(r)

\* Leaving a record alone is lawful.
LEMMA LawfulSame ==
    ASSUME NEW r, Sound(r)
    PROVE  Lawful(r, r)
  BY DEF Lawful, Terminal

\* trim() after a lawful change is lawful.
LEMMA LawfulDrop ==
    ASSUME NEW r, NEW q, Lawful(r, q), IsTerminal(q)
    PROVE  Lawful(r, NoRecord)
  <1>1. NoRecord.status = "Absent"
    BY DEF NoRecord
  <1> QED
    BY <1>1 DEF Lawful, Sound, IsOpen, Live, Known, IsTerminal, Terminal

\* expire() is lawful.
LEMMA LawfulExpire ==
    ASSUME RegistryTypeOK, RecordsSound, NEW t \in Tasks
    PROVE  Lawful(rec[t], Expired[t])
  <1>1. CASE Expired[t] = rec[t]
    BY <1>1, LawfulSame DEF RecordsSound
  <1>2. CASE /\ rec[t].status = "Ready" /\ Expired[t].status = "Expired"
             /\ Expired[t].commit = "None"
    BY <1>2, CommitNotNil DEF Lawful, Sound, IsOpen, Live, IsTerminal, Terminal, CommitState
  <1> QED
    BY <1>1, <1>2, ExpireFacts

\* Every method but register_preview is lawful for every record.
LEMMA MethodsLawful ==
    ASSUME RegistryInv, RecordsSound, [RegistryNext]_registryVars, NEW u \in Tasks,
           ~RegisterPreview(u)
    PROVE  Lawful(rec[u], rec'[u])
  <1>1. RegistryTypeOK /\ rec[u] \in Record /\ rec \in [Tasks -> Record] /\ now \in Nat
    BY DEF RegistryInv, RegistryTypeOK
  <1>2. Lawful(rec[u], rec[u])
    BY LawfulSame DEF RecordsSound
  <1>3. Lawful(rec[u], Expired[u])
    BY <1>1, LawfulExpire
  <1>4. Expired \in [Tasks -> Record]
    BY <1>1, ExpireFacts
  <1>5. ASSUME NEW t \in Tasks, t # u, RegisterPreview(t)
        PROVE  Lawful(rec[u], rec'[u])
    <2> DEFINE R == [Expired EXCEPT ![t] = NewRecord(t)]
    <2>1. PICK G \in TrimChoices(R) : rec' = Drop(R, G)
      BY <1>5 DEF RegisterPreview
    <2>2. R \in [Tasks -> Record] /\ R[u] = Expired[u]
      BY <1>1, <1>4, <1>5, NewRecordFacts
    <2>3. G \in TrimChoices(R)
      BY <2>1
    <2> HIDE DEF R
    <2>4. \A v \in Tasks : rec'[v] = R[v] \/ (IsTerminal(R[v]) /\ rec'[v] = NoRecord)
      BY <2>1, <2>2, <2>3, DropFacts
    <2> QED
      BY <1>3, <2>2, <2>4, LawfulDrop
  <1>6. CASE Observe
    BY <1>3, <1>6 DEF Observe
  <1>7. ASSUME NEW t \in Tasks, NEW p \in Plans, NEW d, SetReady(t, p, d)
        PROVE  Lawful(rec[u], rec'[u])
    <2>1. CanSetReady(t)
      BY <1>7 DEF SetReady
    <2> DEFINE r == [rec[t] EXCEPT !.status = "Ready", !.plan_id = p, !.preview = p,
                                   !.expires_at = d, !.updated_at = now]
    <2>a. rec' = [rec EXCEPT ![t] = r]
      BY <1>1, <1>7 DEF SetReady
    <2>b. r.status = "Ready"
      BY <1>1 DEF Record
    <2> HIDE DEF r
    <2>2. /\ u # t => rec'[u] = rec[u]
          /\ u = t => rec'[u].status = "Ready" /\ IsOpen(rec[u])
      BY <1>1, <2>1, <2>a, <2>b DEF CanSetReady, IsOpen
    <2>3. u = t => Live(rec[u]) /\ rec[u].status # "Cancelling"
      BY <2>1 DEF CanSetReady, RecordsSound, Sound
    <2>4. CASE u = t
      BY <2>2, <2>3, <2>4 DEF Lawful, Sound, Live, IsTerminal, Terminal
    <2> QED
      BY <1>2, <2>2, <2>4
  <1>8. ASSUME NEW t \in Tasks, NEW input \in Input, BeginExecution(t, input)
        PROVE  Lawful(rec[u], rec'[u])
    <2>1. Expired[t].status = "Ready"
      BY <1>8 DEF BeginExecution, MayBegin
    <2>2. rec[t].status = "Ready"
      BY <1>1, <2>1, ExpireFacts
    <2>3. input.execution_id \in Executions
      BY DEF Input
    <2>4. /\ u # t => rec'[u] = Expired[u]
          /\ u = t => /\ rec'[u].status = "Executing"
                      /\ rec'[u].execution_id = input.execution_id
      <3> HIDE DEF Expired
      <3> QED
        BY <1>4, <1>8 DEF BeginExecution, Record
    <2> QED
      BY <1>3, <2>2, <2>3, <2>4, NilAssumption
         DEF Lawful, Sound, IsOpen, IsTerminal, Terminal
  <1>9. ASSUME NEW t \in Tasks, Cancel(t)
        PROVE  Lawful(rec[u], rec'[u])
    <2>1. Live(rec[t])
      BY <1>9 DEF Cancel, CancelAccepted
    <2>2. CancelRecord(rec[t]).cancel = TRUE
      BY <1>1 DEF CancelRecord, Record, RegistryTypeOK
    <2>3. /\ u # t => rec'[u] = rec[u]
          /\ u = t => rec'[u] = CancelRecord(rec[t])
      BY <1>1, <1>9 DEF Cancel
    <2>4. CASE u = t
      <3>1. rec'[u].cancel /\ SameIds(rec'[u], rec[u]) /\ Live(rec[u])
        BY <1>1, <2>1, <2>2, <2>3, <2>4, CancelRecordFacts
      <3>2. \/ rec'[u].status = "Cancelled" /\ rec'[u].commit = "None"
            \/ rec'[u].status = "Cancelling"
        BY <1>1, <2>3, <2>4, CancelRecordFacts
      <3>3. Sound(rec'[u])
        BY <3>1, <3>2, CommitNotNil DEF Sound, IsTerminal, Terminal, CommitState
      <3> QED
        BY <3>1, <3>2, <3>3 DEF Lawful, IsOpen, Live, SameIds, Terminal
    <2> QED
      BY <1>2, <2>3, <2>4
  <1>10. ASSUME NEW t \in Tasks, NEW s \in Reported, Progress(t, s)
         PROVE  Lawful(rec[u], rec'[u])
    <2>1. /\ u # t => rec'[u] = rec[u]
          /\ u = t => rec'[u] = ProgressRecord(rec[u], s)
      BY <1>1, <1>10 DEF Progress
    <2>2. CASE u = t /\ ProgressApplies(rec[u], s)
      <3>1. rec'[u].status = s /\ SameIds(rec'[u], rec[u])
        BY <1>1, <2>1, <2>2, ProgressRecordFacts
      <3>2. Live(rec[u]) /\ rec[u].status # "Cancelling" /\ s # "Cancelling"
        BY <2>2 DEF ProgressApplies, Reported, PreviewPhases, ExecutionPhases
      <3>3. s \notin Terminal
        BY <2>2 DEF ProgressApplies
      <3> QED
        BY <3>1, <3>2, <3>3 DEF Lawful, Sound, IsOpen, Live, SameIds, Known, IsTerminal
    <2>3. CASE u = t /\ ~ProgressApplies(rec[u], s)
      BY <1>2, <2>1, <2>3 DEF ProgressRecord
    <2> QED
      BY <1>2, <2>1, <2>2, <2>3
  <1>11. ASSUME NEW t \in Tasks, NEW r \in Results, Finish(t, r[1], r[2])
         PROVE  Lawful(rec[u], rec'[u])
    <2> DEFINE q == FinishRecord(rec[t], r[1], r[2])
               R == [rec EXCEPT ![t] = q]
    <2>1. PICK G \in TrimChoices(R) : rec' = Drop(R, G)
      BY <1>11 DEF Finish
    <2>2. q \in Record /\ q.status \in Terminal /\ q.commit # Nil
      BY <1>1, FinishRecordFacts, ResultTypes, CommitNotNil
    <2> HIDE DEF q
    <2>3. R \in [Tasks -> Record] /\ R[u] = IF u = t THEN q ELSE rec[u]
      BY <1>1, <2>2
    <2>4. G \in TrimChoices(R)
      BY <2>1
    <2> HIDE DEF R
    <2>5. \A v \in Tasks : rec'[v] = R[v] \/ (IsTerminal(R[v]) /\ rec'[v] = NoRecord)
      BY <2>1, <2>3, <2>4, DropFacts
    <2>6. Lawful(rec[u], R[u])
      <3>1. Live(rec[t])
        BY <1>11 DEF Finish
      <3>2. CASE u = t
        BY <2>2, <2>3, <3>1, <3>2 DEF Lawful, Sound, IsOpen, Live, IsTerminal, Terminal
      <3> QED
        BY <1>2, <2>3, <3>2
    <2> QED
      BY <2>5, <2>6, LawfulDrop
  <1>12. ASSUME NEW t \in Tasks, RaiseCancelFlag(t)
         PROVE  Lawful(rec[u], rec'[u])
    <2> DEFINE q == [Expired[t] EXCEPT !.cancel = TRUE]
    <2>a. rec' = [Expired EXCEPT ![t] = q]
      BY <1>4, <1>12 DEF RaiseCancelFlag
    <2> HIDE DEF q, Expired
    <2>1. CASE u # t
      <3>1. rec'[u] = Expired[u]
        BY <1>4, <2>a, <2>1
      <3> QED
        BY <1>3, <3>1
    <2>2. CASE u = t
      <3>1. rec'[u] = [Expired[u] EXCEPT !.cancel = TRUE]
        BY <1>4, <2>a, <2>2 DEF q
      <3>2. Expired[u] \in Record
        BY <1>4
      <3>3. /\ rec'[u].cancel = TRUE
            /\ rec'[u].status = Expired[u].status
            /\ rec'[u].commit = Expired[u].commit
            /\ rec'[u].execution_id = Expired[u].execution_id
        BY <3>1, <3>2 DEF Record
      <3>4. Known(rec[u])
        BY <1>12, <2>2 DEF RaiseCancelFlag
      <3>5. Expired[u] # NoRecord
        BY <1>1, <3>4, ExpireFacts DEF Known, NoRecord
      <3> QED
        BY <1>3, <3>3, <3>5 DEF Lawful, Sound, IsOpen, Live, Known, IsTerminal
    <2> QED
      BY <2>1, <2>2
  <1>13. ASSUME NEW S, NEW R \in {rec, Expired}, AppendCleanupError(R, S)
         PROVE  Lawful(rec[u], rec'[u])
    <2>1. R[u] \in Record /\ Lawful(rec[u], R[u])
      BY <1>1, <1>2, <1>3, <1>4
    <2>2. rec'[u] = IF u \in S THEN CleanupNoted(R[u]) ELSE R[u]
      BY <1>13 DEF AppendCleanupError
    <2>3. CASE IsTerminal(R[u])
      <3>1. /\ rec'[u].status = R[u].status
            /\ rec'[u].commit = R[u].commit
            /\ R[u].commit # Nil
        BY <1>1, <2>1, <2>2, <2>3, CleanupNotedFacts DEF Lawful, Sound
      <3>2. R[u] # NoRecord
        BY <2>3 DEF IsTerminal, NoRecord, Terminal
      <3> QED
        BY <2>1, <2>3, <3>1, <3>2 DEF Lawful, Sound, IsOpen, Live, IsTerminal, Terminal
    <2>4. CASE ~IsTerminal(R[u])
      <3>1. rec'[u] = R[u]
        BY <1>1, <2>1, <2>2, <2>4, CleanupNotedFacts
      <3> QED
        BY <2>1, <3>1
    <2> QED
      BY <2>3, <2>4
  <1>14. CASE UNCHANGED rec
    BY <1>2, <1>14
  <1>15. ASSUME NEW t \in Tasks, RegisterPreview(t)
         PROVE  Lawful(rec[u], rec'[u])
    BY <1>5, <1>15
  <1> QED
    BY <1>6, <1>7, <1>8, <1>9, <1>10, <1>11, <1>12, <1>13, <1>14, <1>15
       DEF RegistryNext, registryVars, CancelUnknown, Tick

\* register_preview makes a record where there was none; every other record is
\* as expire() left it, or trimmed.
LEMMA RegisterPreviewLawful ==
    ASSUME RegistryInv, NEW t \in Tasks, RegisterPreview(t)
    PROVE  /\ rec[t].status = "Absent"
           /\ \/ rec'[t].status \in {"Absent", "Created"}
              \/ rec'[t].status = "Cancelled" /\ rec'[t].commit = "None"
           /\ \A u \in Tasks : u # t => (IsOpen(rec'[u]) => IsOpen(Expired[u]))
  <1> DEFINE new == NewRecord(t)
             R == [Expired EXCEPT ![t] = new]
  <1>1. RegistryTypeOK /\ now \in Nat /\ rec[t] \in Record
    BY DEF RegistryInv, RegistryTypeOK
  <1>2. PICK G \in TrimChoices(R) : rec' = Drop(R, G)
    BY DEF RegisterPreview
  <1>3. new \in Record
    BY <1>1, NewRecordFacts
  <1>4. \/ new.status = "Created"
        \/ new.status = "Cancelled" /\ new.commit = "None"
    <2>1. NoRecord \in Record
      BY NoRecordType
    <2>2. CASE t \in cancelledBefore
      <3>1. new = [NoRecord EXCEPT !.status = "Cancelled", !.cancel = TRUE,
                                   !.commit = "None", !.updated_at = now]
        BY <2>2 DEF NewRecord
      <3> QED
        BY <2>1, <3>1 DEF Record
    <2>3. CASE t \notin cancelledBefore
      <3>1. new = [NoRecord EXCEPT !.status = "Created", !.updated_at = now]
        BY <2>3 DEF NewRecord
      <3> QED
        BY <2>1, <3>1 DEF Record
    <2> QED
      BY <2>2, <2>3
  <1> HIDE DEF new
  <1>5. R \in [Tasks -> Record] /\ R[t] = new /\ \A u \in Tasks : u # t => R[u] = Expired[u]
    BY <1>1, <1>3, ExpireFacts
  <1>6. G \in TrimChoices(R)
    BY <1>2
  <1> HIDE DEF R
  <1>7. \A v \in Tasks : rec'[v] = R[v] \/ (IsTerminal(R[v]) /\ rec'[v] = NoRecord)
    BY <1>2, <1>5, <1>6, DropFacts
  <1>8. NoRecord.status = "Absent"
    BY DEF NoRecord
  <1>9. rec[t].status = "Absent"
    BY <1>1, ExpireFacts DEF RegisterPreview, Known
  <1> QED
    BY <1>4, <1>5, <1>7, <1>8, <1>9 DEF IsOpen, Live, Known

\* What holds of a step and of the state after it, for every record.
LEMMA StepLawful ==
    ASSUME RegistryInv, RecordsSound, [RegistryNext]_registryVars, NEW u \in Tasks
    PROVE  /\ rec[u].status = "Cancelling"
                 => rec'[u].status \in Terminal \cup {"Cancelling", "Absent"}
           /\ IsTerminal(rec[u])
                 => \/ rec'[u] = NoRecord
                    \/ /\ rec'[u].status = rec[u].status
                       /\ rec'[u].commit = rec[u].commit
           /\ Sound(rec'[u])
  <1>1. CASE RegisterPreview(u)
    BY <1>1, RegisterPreviewLawful, CommitNotNil
       DEF Sound, IsTerminal, Terminal, CommitState
  <1>2. CASE ~RegisterPreview(u)
    BY <1>2, MethodsLawful DEF Lawful
  <1> QED
    BY <1>1, <1>2

\* The limit on previews is kept: only register_preview opens one, and only when
\* fewer than PreviewLimit are open after expire().
LEMMA PreviewsBoundedInv ==
    ASSUME RegistryInv, RecordsSound, PreviewsBounded, [RegistryNext]_registryVars
    PROVE  PreviewsBounded'
  <1> DEFINE Open == OpenPreviews(rec)
             Opened == OpenPreviews(rec')
  <1>1. /\ IsFiniteSet(Open) /\ Cardinality(Open) \in Nat
        /\ IsFiniteSet(Opened) /\ Cardinality(Opened) \in Nat
        /\ IsFiniteSet(OpenPreviews(Expired)) /\ Cardinality(OpenPreviews(Expired)) \in Nat
    BY TasksFinite, FS_Subset, FS_CardinalityType DEF OpenPreviews
  <1>2. PreviewLimit \in Nat /\ Cardinality(Open) <= PreviewLimit
    BY LimitsAssumption DEF PreviewsBounded
  <1>3. CASE \A t \in Tasks : ~RegisterPreview(t)
    <2>1. \A t \in Tasks : Lawful(rec[t], rec'[t])
      BY <1>3, MethodsLawful
    <2>2. Opened \subseteq Open
      BY <2>1 DEF Lawful, IsOpen, OpenPreviews
    <2>3. Cardinality(Opened) <= Cardinality(Open)
      BY <1>1, <2>2, FS_Subset
    <2>4. Cardinality(Opened) <= PreviewLimit
      BY <1>1, <1>2, <2>3
    <2> QED
      BY <2>4 DEF PreviewsBounded, OpenPreviews, Live, Known, IsTerminal
  <1>4. ASSUME NEW t \in Tasks, RegisterPreview(t)
        PROVE  PreviewsBounded'
    <2> DEFINE Before == OpenPreviews(Expired)
    <2>1. Cardinality(Before) < PreviewLimit
      BY <1>4 DEF RegisterPreview
    <2>2. Opened \subseteq Before \cup {t}
      BY <1>4, RegisterPreviewLawful DEF IsOpen, OpenPreviews
    <2>3. /\ IsFiniteSet(Before \cup {t})
          /\ Cardinality(Before \cup {t}) \in Nat
          /\ Cardinality(Before \cup {t}) <= Cardinality(Before) + 1
      <3>a. IsFiniteSet(Before) /\ Cardinality(Before) \in Nat
        BY <1>1
      <3> HIDE DEF Before
      <3>1. CASE t \in Before
        <4>1. Before \cup {t} = Before
          BY <3>1
        <4> QED
          BY <3>a, <4>1
      <3>2. CASE t \notin Before
        <4>1. /\ IsFiniteSet(Before \cup {t})
              /\ Cardinality(Before \cup {t}) = Cardinality(Before) + 1
          BY <3>a, <3>2, FS_AddElement
        <4> QED
          BY <3>a, <4>1
      <3> QED
        BY <3>1, <3>2
    <2>4. Cardinality(Opened) <= Cardinality(Before \cup {t})
      BY <2>2, <2>3, FS_Subset
    <2>5. Cardinality(Opened) <= PreviewLimit
      BY <1>1, <1>2, <2>1, <2>3, <2>4
    <2> QED
      BY <2>5 DEF PreviewsBounded, OpenPreviews, Live, Known, IsTerminal
  <1> QED
    BY <1>3, <1>4

\* RegistryInv, RecordsSound and PreviewsBounded hold in every reachable state.
THEOREM FlagsAndLimits == RegistrySpec => [](RegistryInv /\ RecordsSound /\ PreviewsBounded)
  <1>1. RegistryInit => RegistryInv /\ RecordsSound /\ PreviewsBounded
    <2> SUFFICES ASSUME RegistryInit
                 PROVE  RegistryInv /\ RecordsSound /\ PreviewsBounded
      OBVIOUS
    <2>1. \A t \in Tasks : rec[t].status = "Absent"
      BY DEF RegistryInit, NoRecord
    <2>2. OpenPreviews(rec) = {}
      BY <2>1 DEF OpenPreviews, Live, Known
    <2>3. Cardinality({}) = 0 /\ 0 <= PreviewLimit
      BY FS_EmptySet, LimitsAssumption
    <2> QED
      BY <2>1, <2>2, <2>3, InitInv
         DEF RecordsSound, Sound, IsTerminal, Terminal, PreviewsBounded
  <1>2. RegistryInv /\ RecordsSound /\ PreviewsBounded /\ [RegistryNext]_registryVars
           => (RegistryInv /\ RecordsSound /\ PreviewsBounded)'
    <2> SUFFICES ASSUME RegistryInv, RecordsSound, PreviewsBounded,
                        [RegistryNext]_registryVars
                 PROVE  (RegistryInv /\ RecordsSound /\ PreviewsBounded)'
      OBVIOUS
    <2>1. RecordsSound'
      BY StepLawful DEF RecordsSound
    <2> QED
      BY <2>1, NextInv, PreviewsBoundedInv
  <1> QED
    BY <1>1, <1>2, PTL DEF RegistrySpec

\* No reachable registry has more than PreviewLimit open previews.
THEOREM PreviewLimitKept == RegistrySpec => []PreviewsBounded
  BY FlagsAndLimits, PTL

\* A cancellation that is pending is never overtaken by a later phase.
THEOREM CancellingOnlyEnds == RegistrySpec => CancellingEnds
  <1>1. RegistryInv /\ RecordsSound /\ [RegistryNext]_registryVars
           => [\A t \in Tasks :
                 rec[t].status = "Cancelling"
                    => rec'[t].status \in Terminal \cup {"Cancelling", "Absent"}]_registryVars
    BY StepLawful
  <1> QED
    BY <1>1, FlagsAndLimits, PTL DEF RegistrySpec, CancellingEnds

\* The first result of a task is its only one.
THEOREM FirstResultWins == RegistrySpec => TerminalIsFinal
  <1>1. RegistryInv /\ RecordsSound /\ [RegistryNext]_registryVars
           => [\A t \in Tasks :
                 IsTerminal(rec[t])
                    => \/ rec'[t] = NoRecord
                       \/ /\ rec'[t].status = rec[t].status
                          /\ rec'[t].commit = rec[t].commit]_registryVars
    BY StepLawful
  <1> QED
    BY <1>1, FlagsAndLimits, PTL DEF RegistrySpec, TerminalIsFinal

-------------------------------------------------------------------------------
(* The threads and the registry. *)

\* A thread's kind, and the id after it.
KindOf(th) == th[1]
IdOf(th) == th[2]

CallerPlaces == {"idle", "tail", "record", "spawn", "abandon", "lookup", "begin",
                 "recordExecution", "spawnExecution", "discard"}
PreviewPlaces == {"idle", "tail", "emit", "journal", "work", "publish", "withdraw",
                  "finish"}
ExecutorPlaces == {"idle", "tail", "preflight", "open", "check", "emit", "journal",
                   "work", "rollback", "commit", "finish"}

PreviewStages == {"Validating", "Reading", "Comparing", "Ready"}
ExecutionStages == {"Reading", "Executing", "Verifying", "Committing", "Succeeded"}

\* Places where a thread knows the task it works for.
Working == Places \ {"idle", "tail"}

\* What the local state s of a thread of each kind looks like.
CallerShape(s) ==
    /\ s.at \in CallerPlaces
    /\ s.at \in {"lookup", "begin", "recordExecution", "spawnExecution"} => s.plan \in Plans
    /\ s.plan # Nil => s.task \in Tasks

PreviewShape(t, s) ==
    /\ s.at \in PreviewPlaces
    /\ s.at \in Working => s.task = t /\ s.stage \in PreviewStages
    /\ s.at \in Working /\ s.stage = "Ready" =>
          s.plan \in Plans /\ s.deadline <= now + PreviewLife
    /\ s.at \in {"publish", "withdraw"} => s.stage = "Ready"
    /\ s.at = "finish" => s.result \in {<<"Failed", "None">>, <<"Cancelled", "None">>}
    /\ s.at = "tail" => s.plan = Nil

ExecutorShape(t, s) ==
    /\ s.at \in ExecutorPlaces
    /\ s.at \in Working => s.task = t
    /\ s.at \in {"emit", "journal", "work"} => s.stage \in ExecutionStages
    /\ s.at = "finish" => s.result \in Results
    /\ s.at \in {"emit", "journal", "work"} /\ s.stage = "Succeeded"
          => s.result = <<"Succeeded", "Committed">>
    /\ s.at = "tail" => s.plan = Nil

TimerShape(s) == s.at \in {"idle", "tail"} /\ s.plan = Nil

Shape(th, s) ==
    /\ s \in ThreadState
    /\ s.at = "tail" => s.todo # <<>>
    /\ s.at \in Working => s.task \in Tasks
    /\ KindOf(th) = "caller" => CallerShape(s)
    /\ KindOf(th) = "preview" => PreviewShape(IdOf(th), s)
    /\ KindOf(th) = "execute" => ExecutorShape(IdOf(th), s)
    /\ KindOf(th) = "timer" => TimerShape(s)

ThreadsOK == \A th \in Threads : Shape(th, thread[th])

\* The file has a result of every task it calls finished.
HistorySound ==
    \A t \in Tasks : history[t].status \in Terminal => history[t].commit # Nil

\* The inductive invariant.
RuntimeInv ==
    /\ RuntimeTypeOK
    /\ RegistryInv
    /\ RecordsSound
    /\ ThreadsOK
    /\ HistorySound

-----------------------------------------------------------------------------
(* Threads and their states *)

\* A thread's name tells its kind and its id.
LEMMA Kinds ==
    /\ \A c \in Callers : Caller(c) \in Threads /\ KindOf(Caller(c)) = "caller"
    /\ \A t \in Tasks : /\ Previewer(t) \in Threads
                        /\ KindOf(Previewer(t)) = "preview" /\ IdOf(Previewer(t)) = t
    /\ \A t \in Tasks : /\ Executor(t) \in Threads
                        /\ KindOf(Executor(t)) = "execute" /\ IdOf(Executor(t)) = t
    /\ \A m \in Timers : Timer(m) \in Threads /\ KindOf(Timer(m)) = "timer"
    /\ \A th \in Threads :
          /\ KindOf(th) = "preview" => IdOf(th) \in Tasks /\ th = Previewer(IdOf(th))
          /\ KindOf(th) = "execute" => IdOf(th) \in Tasks /\ th = Executor(IdOf(th))
          /\ KindOf(th) = "caller" <=> th \in Commands
          /\ KindOf(th) \in {"caller", "preview", "execute", "timer"}
  BY DEF Threads, Commands, Caller, Previewer, Executor, Timer, KindOf, IdOf

\* A thread without work.
LEMMA IdleFacts ==
    /\ Idle \in ThreadState
    /\ Idle.at = "idle" /\ Idle.task = Nil /\ Idle.plan = Nil
    /\ \A th : Shape(th, Idle)
  <1>1. <<>> \in Seq(CleanupCalls)
    OBVIOUS
  <1>2. /\ Idle \in ThreadState
        /\ Idle.at = "idle" /\ Idle.task = Nil /\ Idle.plan = Nil
    BY <1>1 DEF Idle, ThreadState, Places
  <1> QED
    BY <1>2 DEF Shape, CallerShape, PreviewShape, ExecutorShape, TimerShape,
                CallerPlaces, PreviewPlaces, ExecutorPlaces, Working

\* A thread that has only clean-up calls left.
LEMMA TailFacts ==
    ASSUME NEW todo \in Seq(CleanupCalls), todo # <<>>
    PROVE  LET s == [Idle EXCEPT !.at = "tail", !.todo = todo]
           IN /\ s \in ThreadState
              /\ s.at = "tail" /\ s.task = Nil /\ s.plan = Nil
              /\ \A th : Shape(th, s)
  <1> DEFINE s == [Idle EXCEPT !.at = "tail", !.todo = todo]
  <1>1. /\ s \in ThreadState
        /\ s.at = "tail" /\ s.task = Nil /\ s.plan = Nil /\ s.todo = todo
    BY IdleFacts DEF ThreadState, Places
  <1> HIDE DEF s
  <1>2. \A th : Shape(th, s)
    BY <1>1 DEF Shape, CallerShape, PreviewShape, ExecutorShape, TimerShape,
                CallerPlaces, PreviewPlaces, ExecutorPlaces, Working
  <1> QED
    BY <1>1, <1>2 DEF s

\* The lists of calls the threads start with.
LEMMA CallLists ==
    /\ <<PruneCall>> \in Seq(CleanupCalls) /\ <<PruneCall>> # <<>>
    /\ <<PruneCall, PersistCall>> \in Seq(CleanupCalls)
    /\ <<PruneCall, PersistCall>> # <<>>
    /\ \A t \in Tasks : /\ <<PublishCall(t), PruneCall>> \in Seq(CleanupCalls)
                        /\ <<PublishCall(t), PruneCall>> # <<>>
                        /\ <<PruneCall, ReportCall(t)>> \in Seq(CleanupCalls)
                        /\ <<PruneCall, ReportCall(t)>> # <<>>
  <1>1. /\ PruneCall \in CleanupCalls /\ PersistCall \in CleanupCalls
        /\ \A t \in Tasks : PublishCall(t) \in CleanupCalls /\ ReportCall(t) \in CleanupCalls
    BY DEF PruneCall, PersistCall, PublishCall, ReportCall, CleanupCalls
  <1> HIDE DEF PruneCall, PersistCall, PublishCall, ReportCall
  <1> QED
    BY <1>1

\* Only the state of thread th may change in this step.
OnlyThread(th) ==
    /\ thread' \in [Threads -> ThreadState]
    /\ \A o \in Threads : o # th => thread'[o] = thread[o]

\* A step keeps the shapes if every thread it changes has its own afterwards.
LEMMA MovedShapes ==
    ASSUME RuntimeInv, now' \in Nat, now <= now',
           \A th \in Threads : thread'[th] = thread[th] \/ Shape(th, thread[th])'
    PROVE  ThreadsOK'
  <1> SUFFICES ASSUME NEW o \in Threads, thread'[o] = thread[o]
               PROVE  Shape(o, thread[o])'
    BY DEF ThreadsOK
  <1>1. Shape(o, thread[o]) /\ thread[o] \in ThreadState
    BY DEF RuntimeInv, ThreadsOK, Shape
  <1>2. thread[o].deadline \in Nat /\ now \in Nat /\ PreviewLife \in Nat
    BY <1>1, LimitsAssumption DEF ThreadState, RuntimeInv, RegistryInv, RegistryTypeOK
  <1>3. thread[o].deadline <= now + PreviewLife => thread[o].deadline <= now' + PreviewLife
    BY <1>2
  <1> QED
    BY <1>1, <1>3 DEF Shape, CallerShape, PreviewShape, ExecutorShape, TimerShape

\* A thread that only moves on keeps its local variables.
LEMMA GotoFacts ==
    ASSUME thread \in [Threads -> ThreadState], NEW th \in Threads, NEW place \in Places,
           Goto(th, place)
    PROVE  /\ OnlyThread(th)
           /\ thread'[th] = [thread[th] EXCEPT !.at = place]
           /\ thread'[th] \in ThreadState
           /\ thread'[th].at = place
           /\ thread'[th].task = thread[th].task
           /\ thread'[th].plan = thread[th].plan
           /\ thread'[th].deadline = thread[th].deadline
           /\ thread'[th].stage = thread[th].stage
           /\ thread'[th].result = thread[th].result
           /\ thread'[th].todo = thread[th].todo
  <1> DEFINE s == [thread[th] EXCEPT !.at = place]
  <1>1. thread' = [thread EXCEPT ![th] = s]
    BY DEF Goto
  <1>2. /\ s \in ThreadState
        /\ s.at = place
        /\ s.task = thread[th].task
        /\ s.plan = thread[th].plan
        /\ s.deadline = thread[th].deadline
        /\ s.stage = thread[th].stage
        /\ s.result = thread[th].result
        /\ s.todo = thread[th].todo
    BY DEF ThreadState
  <1>3. thread'[th] = s
    BY <1>1
  <1> HIDE DEF s
  <1>4. OnlyThread(th)
    BY <1>1, <1>2 DEF OnlyThread
  <1> QED
    BY <1>2, <1>3, <1>4 DEF s

\* A worker that stops with a result keeps its other local variables.
LEMMA ConcludeFacts ==
    ASSUME thread \in [Threads -> ThreadState], NEW th \in Threads,
           NEW status, NEW commit, <<status, commit>> \in Results,
           Conclude(th, status, commit)
    PROVE  /\ OnlyThread(th)
           /\ thread'[th] \in ThreadState
           /\ thread'[th].at = "finish"
           /\ thread'[th].task = thread[th].task
           /\ thread'[th].plan = thread[th].plan
           /\ thread'[th].deadline = thread[th].deadline
           /\ thread'[th].stage = thread[th].stage
           /\ thread'[th].result = <<status, commit>>
  <1> DEFINE res == <<status, commit>>
  <1>0. res \in Results
    OBVIOUS
  <1> DEFINE s == [thread[th] EXCEPT !.at = "finish", !.result = res]
  <1>1. thread' = [thread EXCEPT ![th] = s]
    BY DEF Conclude
  <1> HIDE DEF res
  <1>2. /\ s \in ThreadState
        /\ s.at = "finish"
        /\ s.task = thread[th].task
        /\ s.plan = thread[th].plan
        /\ s.deadline = thread[th].deadline
        /\ s.stage = thread[th].stage
        /\ s.result = res
    BY <1>0 DEF ThreadState, Places
  <1>3. thread'[th] = s
    BY <1>1
  <1> HIDE DEF s
  <1>4. OnlyThread(th)
    BY <1>1, <1>2 DEF OnlyThread
  <1> QED
    BY <1>2, <1>3, <1>4 DEF res

\* A thread that takes a given state.
LEMMA BecomeFacts ==
    ASSUME thread \in [Threads -> ThreadState], NEW th \in Threads, NEW s \in ThreadState,
           Become(th, s)
    PROVE  OnlyThread(th) /\ thread'[th] = s
  BY DEF Become, OnlyThread

\* A thread that turns to its clean-up calls.
LEMMA WindFacts ==
    ASSUME thread \in [Threads -> ThreadState], NEW th \in Threads,
           NEW todo \in Seq(CleanupCalls), todo # <<>>, Wind(th, todo)
    PROVE  /\ OnlyThread(th)
           /\ thread'[th].at = "tail" /\ thread'[th].task = Nil
           /\ Shape(th, thread[th])'
  <1> DEFINE s == [Idle EXCEPT !.at = "tail", !.todo = todo]
  <1>1. /\ s \in ThreadState
        /\ s.at = "tail" /\ s.task = Nil /\ s.plan = Nil /\ s.todo = todo
    <2>1. s.todo = todo
      BY IdleFacts DEF ThreadState
    <2> QED
      BY <2>1, TailFacts
  <1>2. Become(th, s)
    BY DEF Wind
  <1> HIDE DEF s
  <1>3. OnlyThread(th) /\ thread'[th] = s
    BY <1>1, <1>2, BecomeFacts
  <1> QED
    BY <1>1, <1>3 DEF Shape, CallerShape, PreviewShape, ExecutorShape, TimerShape,
                      CallerPlaces, PreviewPlaces, ExecutorPlaces, Working

\* After a clean-up call a thread has the next one left, goes on looking up its
\* plan (a command in execute_data_task) or is done.
LEMMA UnwindFacts ==
    ASSUME RuntimeInv, NEW th \in Threads, thread[th].at = "tail", Unwind(th)
    PROVE  /\ OnlyThread(th)
           /\ thread'[th].at \in {"tail", "lookup", "idle"}
           /\ Shape(th, thread[th])'
  <1> DEFINE rest == Tail(thread[th].todo)
  <1>1. /\ thread \in [Threads -> ThreadState] /\ thread[th] \in ThreadState
        /\ thread[th].todo \in Seq(CleanupCalls) /\ thread[th].todo # <<>>
        /\ Shape(th, thread[th])
    BY DEF RuntimeInv, RuntimeTypeOK, ThreadsOK, ThreadState
  <1>2. rest \in Seq(CleanupCalls)
    BY <1>1
  <1>3. CASE rest # <<>>
    BY <1>1, <1>2, <1>3, WindFacts DEF Unwind
  <1>4. CASE rest = <<>> /\ thread[th].plan # Nil
    <2> DEFINE s == [thread[th] EXCEPT !.at = "lookup", !.found = {}, !.todo = <<>>]
    <2>1. thread' = [thread EXCEPT ![th] = s]
      BY <1>4 DEF Unwind
    <2>2. <<>> \in Seq(CleanupCalls)
      OBVIOUS
    <2>3. /\ s \in ThreadState
          /\ s.at = "lookup" /\ s.task = thread[th].task /\ s.plan = thread[th].plan
      BY <1>1, <2>2 DEF ThreadState, Places
    <2> HIDE DEF s
    <2>4. OnlyThread(th) /\ thread'[th] = s
      BY <1>1, <2>1, <2>3 DEF OnlyThread
    <2>5. KindOf(th) = "caller" /\ CallerShape(thread[th])
      BY <1>1, <1>4, Kinds DEF Shape, PreviewShape, ExecutorShape, TimerShape
    <2>6. s.plan \in Plans /\ s.task \in Tasks
      BY <1>1, <1>4, <2>3, <2>5 DEF CallerShape, ThreadState
    <2> QED
      BY <2>3, <2>4, <2>5, <2>6 DEF Shape, CallerShape, CallerPlaces
  <1>5. CASE rest = <<>> /\ thread[th].plan = Nil
    BY <1>1, <1>5, IdleFacts, BecomeFacts
       DEF Unwind, Shape, CallerShape, PreviewShape, ExecutorShape, TimerShape,
           CallerPlaces, PreviewPlaces, ExecutorPlaces, Working
  <1> QED
    BY <1>3, <1>4, <1>5

-----------------------------------------------------------------------------
(* The history and the calls of the registry *)

\* What save_history may write for the records R: of every task its summary or
\* nothing, and the summary of every record when they all fit.
LEMMA SavedFacts ==
    ASSUME NEW R \in [Tasks -> Record], NEW h \in Saved(R)
    PROVE  /\ h \in [Tasks -> HistoryEntry]
           /\ \A t \in Tasks : h[t] = NoTask \/ (Known(R[t]) /\ h[t] = Summary(R[t]))
           /\ Cardinality({t \in Tasks : Known(R[t])}) <= HistoryLimit
                 => \A t \in Tasks : Known(R[t]) => h[t] = Summary(R[t])
  <1> DEFINE ids == {t \in Tasks : Known(R[t])}
  <1>1. PICK K \in SUBSET ids :
           /\ Cardinality(K) = IF Cardinality(ids) > HistoryLimit
                               THEN HistoryLimit ELSE Cardinality(ids)
           /\ h = [t \in Tasks |-> IF t \in K THEN Summary(R[t]) ELSE NoTask]
    BY DEF Saved
  <1>2. NoTask \in HistoryEntry
    BY DEF NoTask, HistoryEntry
  <1>3. ASSUME NEW t \in Tasks, Known(R[t])
        PROVE  Summary(R[t]) \in HistoryEntry
    <2>1. R[t] \in Record
      OBVIOUS
    <2> QED
      BY <2>1 DEF Summary, HistoryEntry, Record, IsTerminal
  <1>4. IsFiniteSet(ids) /\ Cardinality(ids) \in Nat /\ HistoryLimit \in Nat
    BY TasksFinite, FS_Subset, FS_CardinalityType, RuntimeAssumption
  <1>5. ASSUME Cardinality(ids) <= HistoryLimit
        PROVE  K = ids
    <2>1. Cardinality(K) = Cardinality(ids)
      BY <1>1, <1>4, <1>5
    <2> QED
      BY <1>4, <2>1, FS_Subset
  <1> QED
    BY <1>1, <1>2, <1>3, <1>5

\* A persist that succeeds lists the records and writes them.
LEMMA PersistOkFacts ==
    ASSUME RuntimeInv, PersistOk
    PROVE  /\ Observe
           /\ history' \in [Tasks -> HistoryEntry]
           /\ \A t \in Tasks :
                 history'[t] = NoTask \/ (Known(rec'[t]) /\ history'[t] = Summary(rec'[t]))
           /\ Cardinality({t \in Tasks : Known(rec'[t])}) <= HistoryLimit
                 => \A t \in Tasks : Known(rec'[t]) => history'[t] = Summary(rec'[t])
  <1>1. Expired \in [Tasks -> Record] /\ rec' = Expired /\ history' \in Saved(Expired)
    BY ExpireFacts DEF RuntimeInv, RegistryInv, PersistOk, Observe
  <1>2. rec' \in [Tasks -> Record] /\ history' \in Saved(rec')
    BY <1>1
  <1> QED
    BY <1>2, SavedFacts DEF PersistOk

\* What the calls that reach the history do to the registry and to the file.
HistoryTyped == history' \in [Tasks -> HistoryEntry] /\ HistorySound'

\* Writing the history file is a registry step (plans expire) and keeps its type.
LEMMA PersistStep ==
    ASSUME RuntimeInv, Persist
    PROVE  Observe /\ RegistryNext /\ HistoryTyped
  <1>1. Observe /\ RegistryNext
    BY DEF Persist, PersistOk, PersistFails, RegistryNext
  <1>2. CASE PersistOk
    <2>1. history' \in [Tasks -> HistoryEntry]
      BY <1>2, PersistOkFacts
    <2>2. ASSUME NEW t \in Tasks, history'[t].status \in Terminal
          PROVE  history'[t].commit # Nil
      <3>1. Sound(rec'[t])
        BY <1>1, StepLawful DEF RuntimeInv
      <3>2. history'[t] # NoTask
        BY <2>2 DEF NoTask, Terminal
      <3>3. history'[t] = Summary(rec'[t])
        BY <1>2, <3>2, PersistOkFacts
      <3> QED
        BY <2>2, <3>1, <3>3 DEF Sound, Summary, IsTerminal, Terminal
    <2> QED
      BY <1>1, <2>1, <2>2 DEF HistoryTyped, HistorySound
  <1>3. CASE UNCHANGED history
    BY <1>1, <1>3 DEF HistoryTyped, HistorySound, RuntimeInv, RuntimeTypeOK
  <1> QED
    BY <1>2, <1>3 DEF Persist, PersistFails

\* So is the write after a change of one task.
LEMMA PublishStep ==
    ASSUME RuntimeInv, NEW t \in Tasks, Publish(t)
    PROVE  RegistryNext /\ HistoryTyped
  <1>1. CASE PersistOk
    BY <1>1, PersistStep DEF Persist
  <1>2. CASE AppendCleanupError(Expired, {t}) /\ UNCHANGED history
    BY <1>2 DEF RegistryNext, RuntimeInv, RuntimeTypeOK, HistoryTyped,
       HistorySound
  <1> QED
    BY <1>1, <1>2 DEF Publish

\* So is the report of a worker, which publishes or does nothing.
LEMMA ReportStep ==
    ASSUME RuntimeInv, NEW t \in Tasks, Report(t)
    PROVE  RegistryNext /\ HistoryTyped
  BY PublishStep DEF Report, RegistryNext, RuntimeInv, RuntimeTypeOK, HistoryTyped,
       HistorySound

\* finish() with one of the workers' results, or nothing.
LEMMA FinishStep ==
    ASSUME NEW t \in Tasks, NEW status, NEW commit, <<status, commit>> \in Results,
           FinishTask(t, status, commit)
    PROVE  [RegistryNext]_registryVars
  <1>1. CASE Finish(t, status, commit)
    <2> DEFINE r == <<status, commit>>
    <2>1. r \in Results /\ Finish(t, r[1], r[2])
      BY <1>1
    <2> QED
      BY <2>1 DEF RegistryNext
  <1> QED
    BY <1>1 DEF FinishTask

-----------------------------------------------------------------------------
(* Every step keeps the types and is a step of the registry *)

\* A step that calls the registry as the registry allows and keeps the types of
\* the runtime's own variables.
Typed ==
    /\ [RegistryNext]_registryVars
    /\ plans' \subseteq Plans
    /\ spools' \subseteq Plans
    /\ HistoryTyped
    /\ target' \in [Tasks -> {"clean", "open", "lost", "inflight", "committed"}]
    /\ crashes' \in 0 .. MaxCrashes
    /\ thread' \in [Threads -> ThreadState]
    /\ ThreadsOK'

\* A typed step keeps the whole invariant.
LEMMA TypedInv ==
    ASSUME RuntimeInv, Typed
    PROVE  RuntimeInv'
  <1>1. RegistryInv'
    BY NextInv DEF RuntimeInv, Typed
  <1>2. RecordsSound'
    BY StepLawful DEF RuntimeInv, Typed, RecordsSound
  <1>3. RuntimeTypeOK'
    BY <1>1 DEF RuntimeTypeOK, Typed, HistoryTyped, ThreadsOK, Shape, RegistryInv
  <1> QED
    BY <1>1, <1>2, <1>3 DEF RuntimeInv, Typed, HistoryTyped

\* No method turns the clock back.
LEMMA ClockForward ==
    ASSUME RegistryInv, [RegistryNext]_registryVars
    PROVE  now \in Nat /\ now' \in Nat /\ now <= now'
  <1>1. now \in Nat /\ now' \in Nat
    BY NextInv DEF RegistryInv, RegistryTypeOK
  <1>2. Tick \/ UNCHANGED now
    BY Zenon DEF RegistryNext, registryVars, RegisterPreview, Observe, SetReady,
       BeginExecution, CancelUnknown, Cancel, Progress, Finish, RaiseCancelFlag,
       AppendCleanupError
  <1> QED
    BY <1>1, <1>2 DEF Tick

\* A step that gives the threads it changes their shape.
LEMMA MovedTyped ==
    ASSUME RuntimeInv, [RegistryNext]_registryVars, HistoryTyped,
           plans' \subseteq Plans, spools' \subseteq Plans,
           UNCHANGED crashes,
           target' \in [Tasks -> {"clean", "open", "lost", "inflight", "committed"}],
           thread' \in [Threads -> ThreadState],
           \A th \in Threads : thread'[th] = thread[th] \/ Shape(th, thread[th])'
    PROVE  Typed
  <1>1. now' \in Nat /\ now <= now'
    BY ClockForward DEF RuntimeInv
  <1>2. ThreadsOK'
    BY <1>1, MovedShapes
  <1> QED
    BY <1>2 DEF Typed, RuntimeInv, RuntimeTypeOK

\* The step of one thread.
LEMMA ThreadTyped ==
    ASSUME RuntimeInv, [RegistryNext]_registryVars, HistoryTyped,
           plans' \subseteq Plans, spools' \subseteq Plans,
           UNCHANGED crashes,
           target' \in [Tasks -> {"clean", "open", "lost", "inflight", "committed"}],
           NEW th \in Threads, OnlyThread(th), Shape(th, thread[th])'
    PROVE  Typed
  BY MovedTyped DEF OnlyThread

\* What the invariant says of one thread, and of the other variables.
LEMMA Context ==
    ASSUME RuntimeInv
    PROVE  /\ thread \in [Threads -> ThreadState]
           /\ \A th \in Threads : thread[th] \in ThreadState /\ Shape(th, thread[th])
           /\ plans \subseteq Plans /\ spools \subseteq Plans
           /\ rec \in [Tasks -> Record] /\ now \in Nat
           /\ UNCHANGED history => HistoryTyped
           /\ target \in [Tasks -> {"clean", "open", "lost", "inflight", "committed"}]
  BY DEF RuntimeInv, RuntimeTypeOK, RegistryTypeOK, ThreadsOK, HistoryTyped,
         HistorySound

\* The clean-up calls.
LEMMA TailTyped ==
    ASSUME RuntimeInv, NEW th \in Threads, TailStep(th)
    PROVE  Typed /\ OnlyThread(th)
  <1>1. /\ thread \in [Threads -> ThreadState] /\ thread[th] \in ThreadState
        /\ thread[th].at = "tail" /\ thread[th].todo \in Seq(CleanupCalls)
        /\ thread[th].todo # <<>> /\ thread[th].todo[1] \in CleanupCalls
        /\ thread[th].found \subseteq Plans
        /\ Shape(th, thread[th])
    <2>1. /\ thread \in [Threads -> ThreadState] /\ thread[th] \in ThreadState
          /\ thread[th].at = "tail" /\ thread[th].todo \in Seq(CleanupCalls)
          /\ thread[th].todo # <<>> /\ thread[th].found \subseteq Plans
          /\ Shape(th, thread[th])
      BY DEF RuntimeInv, RuntimeTypeOK, ThreadsOK, ThreadState, TailStep, TailPersist,
             PruneList, PruneRemove, PruneDelete, Calls
    <2> QED
      BY <2>1
  <1>2. /\ plans \subseteq Plans /\ spools \subseteq Plans /\ rec \in [Tasks -> Record]
        /\ history \in [Tasks -> HistoryEntry]
        /\ target \in [Tasks -> {"clean", "open", "lost", "inflight", "committed"}]
    BY DEF RuntimeInv, RuntimeTypeOK, RegistryTypeOK
  <1>3. CASE TailPersist(th)
    <2>1. thread[th].todo[1][1] \in {"publish", "report"} => thread[th].todo[1][2] \in Tasks
      BY <1>1 DEF CleanupCalls
    <2>2. RegistryNext /\ HistoryTyped
      BY <1>3, <2>1, PersistStep, PublishStep, ReportStep DEF TailPersist, Calls
    <2>3. OnlyThread(th) /\ Shape(th, thread[th])'
      BY <1>1, <1>3, UnwindFacts DEF TailPersist
    <2> QED
      BY <1>2, <1>3, <2>2, <2>3, ThreadTyped DEF TailPersist
  <1>4. ASSUME NEW call \in CleanupCalls, NEW found \in SUBSET Plans,
               thread' = [thread EXCEPT ![th].todo = <<call>> \o Tail(@), ![th].found = found]
        PROVE  OnlyThread(th) /\ Shape(th, thread[th])'
    <2> DEFINE todo == <<call>> \o Tail(thread[th].todo)
               s == [thread[th] EXCEPT !.todo = todo, !.found = found]
    <2>1. Tail(thread[th].todo) \in Seq(CleanupCalls) /\ <<call>> \in Seq(CleanupCalls)
      BY <1>1, <1>4
    <2>2. todo \in Seq(CleanupCalls) /\ todo # <<>>
      BY <2>1
    <2>3. thread' = [thread EXCEPT ![th] = s]
      BY <1>1, <1>4
    <2> HIDE DEF todo
    <2>4. /\ s \in ThreadState /\ s.at = thread[th].at /\ s.task = thread[th].task
          /\ s.plan = thread[th].plan /\ s.todo = todo
      BY <1>1, <2>2 DEF ThreadState
    <2> HIDE DEF s
    <2>5. OnlyThread(th) /\ thread'[th] = s
      BY <1>1, <2>3, <2>4 DEF OnlyThread
    <2> QED
      BY <1>1, <2>2, <2>4, <2>5 DEF Shape, CallerShape, PreviewShape, ExecutorShape,
                                    TimerShape, Working
  <1>5. RemoveCall \in CleanupCalls /\ DeleteCall \in CleanupCalls
    BY DEF RemoveCall, DeleteCall, CleanupCalls
  <1>6. CASE PruneList(th)
    <2> DEFINE found == {Expired[t].preview : t \in Tasks} \ {Nil}
    <2>1. found \subseteq Plans
      <3>1. Expired \in [Tasks -> Record]
        BY ExpireFacts DEF RuntimeInv, RegistryInv
      <3>2. \A t \in Tasks : Expired[t].preview \in Plans \cup {Nil}
        BY <3>1 DEF Record
      <3> QED
        BY <3>2
    <2>2. thread' = [thread EXCEPT ![th].todo = <<RemoveCall>> \o Tail(@), ![th].found = found]
      BY <1>6 DEF PruneList
    <2> HIDE DEF found
    <2>3. OnlyThread(th) /\ Shape(th, thread[th])'
      BY <1>4, <1>5, <2>1, <2>2
    <2>4. RegistryNext
      BY <1>6 DEF PruneList, RegistryNext
    <2> QED
      BY <1>2, <1>6, <2>3, <2>4, Context, ThreadTyped DEF PruneList
  <1>7. CASE PruneRemove(th)
    <2>1. plans' \subseteq Plans /\ plans \ plans' \in SUBSET Plans
      BY <1>2, <1>7 DEF PruneRemove
    <2>2. OnlyThread(th) /\ Shape(th, thread[th])'
      <3>1. CASE plans' = plans
        BY <1>1, <1>7, <3>1, UnwindFacts DEF PruneRemove
      <3>2. CASE plans' # plans
        <4> DEFINE found == plans \ plans'
        <4>1. thread' = [thread EXCEPT ![th].todo = <<DeleteCall>> \o Tail(@),
                                       ![th].found = found]
          BY <1>7, <3>2 DEF PruneRemove
        <4> HIDE DEF found
        <4> QED
          BY <1>4, <1>5, <2>1, <4>1 DEF found
      <3> QED
        BY <3>1, <3>2
    <2> QED
      BY <1>2, <1>7, <2>1, <2>2, Context, ThreadTyped DEF PruneRemove
  <1>8. CASE PruneDelete(th)
    <2>1. OnlyThread(th) /\ Shape(th, thread[th])'
      BY <1>1, <1>8, UnwindFacts DEF PruneDelete
    <2>2. PICK S \in SUBSET Tasks : AppendCleanupError(rec, S)
      BY <1>8 DEF PruneDelete
    <2>3. RegistryNext
      BY <2>2 DEF RegistryNext
    <2> QED
      BY <1>2, <1>8, <2>1, <2>3, Context, ThreadTyped DEF PruneDelete
  <1> QED
    BY <1>3, <1>6, <1>7, <1>8 DEF TailStep

\* A command that is refused changes no thread.
LEMMA NoThreadTyped ==
    ASSUME RuntimeInv, [RegistryNext]_registryVars, HistoryTyped, UNCHANGED thread,
           UNCHANGED <<plans, spools, crashes>>,
           target' \in [Tasks -> {"clean", "open", "lost", "inflight", "committed"}]
    PROVE  Typed
  BY Context, MovedTyped

\* A command that works for task t, with plan p where it has one.
LEMMA CommandState ==
    ASSUME NEW c \in Callers, NEW t \in Tasks, NEW place \in {"record", "discard"}
    PROVE  LET s == [Idle EXCEPT !.at = place, !.task = t]
           IN /\ s \in ThreadState /\ s.at = place /\ s.task = t
              /\ Shape(Caller(c), s)
  <1> DEFINE s == [Idle EXCEPT !.at = place, !.task = t]
  <1>1. s \in ThreadState /\ s.at = place /\ s.task = t /\ s.plan = Nil
    BY IdleFacts DEF ThreadState, Places
  <1> HIDE DEF s
  <1>2. Shape(Caller(c), s)
    BY <1>1, Kinds DEF Shape, CallerShape, CallerPlaces
  <1> QED
    BY <1>1, <1>2 DEF s

\* A command of the front end.
LEMMA CommandTyped ==
    ASSUME RuntimeInv, NEW c \in Callers, CallerCommand(c)
    PROVE  Typed /\ OnlyThread(Caller(c))
  <1> DEFINE th == Caller(c)
  <1>0. th \in Threads /\ KindOf(th) = "caller"
    BY Kinds
  <1>1. UNCHANGED thread => OnlyThread(th)
    BY Context DEF OnlyThread
  <1>2. Observe => RegistryNext
    BY DEF RegistryNext
  <1>3. CASE Poll(c)
    BY <1>0, <1>2, <1>3, Context, CallLists, WindFacts, ThreadTyped DEF Poll
  <1>4. ASSUME NEW t \in Tasks, StartPreview(c, t)
        PROVE  Typed /\ OnlyThread(th)
    <2>1. CASE /\ RegisterPreview(t)
               /\ Become(th, [Idle EXCEPT !.at = "record", !.task = t])
      <3> DEFINE s == [Idle EXCEPT !.at = "record", !.task = t]
      <3>1. s \in ThreadState /\ s.at = "record" /\ s.task = t /\ Shape(th, s)
        BY CommandState
      <3>2. Become(th, s)
        BY <2>1
      <3> HIDE DEF s
      <3>3. OnlyThread(th) /\ thread'[th] = s
        BY <1>0, <3>1, <3>2, Context, BecomeFacts
      <3>4. Shape(th, thread[th])'
        BY <1>0, <3>1, <3>3, Kinds DEF Shape, CallerShape
      <3>5. RegistryNext
        BY <2>1 DEF RegistryNext
      <3> QED
        BY <1>0, <1>4, <3>3, <3>4, <3>5, Context, ThreadTyped DEF StartPreview
    <2>2. CASE (RegisterPreview(t) \/ Observe) /\ UNCHANGED thread
      <3>1. RegistryNext
        BY <2>2 DEF RegistryNext
      <3> QED
        BY <1>1, <1>4, <2>2, <3>1, Context, NoThreadTyped DEF StartPreview
    <2> QED
      BY <1>4, <2>1, <2>2 DEF StartPreview
  <1>5. ASSUME NEW t \in Tasks, Execute(c, t)
        PROVE  Typed /\ OnlyThread(th)
    <2>1. CASE UNCHANGED thread
      BY <1>1, <1>2, <1>5, <2>1, Context, NoThreadTyped DEF Execute
    <2>2. CASE ~UNCHANGED thread
      <3> DEFINE s == [Idle EXCEPT !.at = "tail", !.todo = <<PruneCall>>,
                                   !.task = t, !.plan = rec[t].plan_id]
      <3>1. Become(th, s)
        BY <1>5, <2>2 DEF Execute
      <3>2. rec[t].plan_id \in Plans
        BY <1>5, Context DEF Execute, Record
      <3>3. /\ s \in ThreadState /\ s.at = "tail" /\ s.todo = <<PruneCall>>
            /\ s.task = t /\ s.plan \in Plans
        BY <3>2, IdleFacts, CallLists DEF ThreadState, Places
      <3> HIDE DEF s
      <3>4. OnlyThread(th) /\ thread'[th] = s
        BY <1>0, <3>1, <3>3, Context, BecomeFacts
      <3>5. Shape(th, thread[th])'
        BY <1>0, <3>3, <3>4, CallLists, Kinds DEF Shape, CallerShape, CallerPlaces, Working
      <3> QED
        BY <1>0, <1>2, <1>5, <3>4, <3>5, Context, ThreadTyped DEF Execute
    <2> QED
      BY <2>1, <2>2
  <1>6. ASSUME NEW t \in Tasks, CancelTask(c, t)
        PROVE  Typed /\ OnlyThread(th)
    <2>1. [RegistryNext]_registryVars
      BY <1>6 DEF CancelTask, RegistryNext
    <2>2. CASE UNCHANGED thread
      BY <1>1, <1>6, <2>1, <2>2, Context, NoThreadTyped DEF CancelTask
    <2>3. CASE Wind(th, <<PublishCall(t), PruneCall>>)
      BY <1>0, <1>6, <2>1, <2>3, Context, CallLists, WindFacts, ThreadTyped DEF CancelTask
    <2> QED
      BY <1>6, <2>2, <2>3 DEF CancelTask
  <1>7. ASSUME NEW p \in Plans, Discard(c, p)
        PROVE  Typed /\ OnlyThread(th)
    <2>1. CASE UNCHANGED thread
      BY <1>1, <1>2, <1>7, <2>1, Context, NoThreadTyped DEF Discard
    <2>2. CASE Wind(th, <<PruneCall>>)
      BY <1>0, <1>2, <1>7, <2>2, Context, CallLists, WindFacts, ThreadTyped DEF Discard
    <2>3. ASSUME NEW t \in Tasks, Become(th, [Idle EXCEPT !.at = "discard", !.task = t])
          PROVE  Typed /\ OnlyThread(th)
      <3> DEFINE s == [Idle EXCEPT !.at = "discard", !.task = t]
      <3>1. s \in ThreadState /\ s.at = "discard" /\ s.task = t /\ Shape(th, s)
        BY CommandState
      <3>2. Become(th, s)
        BY <2>3
      <3> HIDE DEF s
      <3>3. OnlyThread(th) /\ thread'[th] = s
        BY <1>0, <3>1, <3>2, Context, BecomeFacts
      <3>4. Shape(th, thread[th])'
        BY <1>0, <3>1, <3>3, Kinds DEF Shape, CallerShape
      <3> QED
        BY <1>0, <1>2, <1>7, <3>3, <3>4, Context, ThreadTyped DEF Discard
    <2> QED
      BY <1>7, <2>1, <2>2, <2>3 DEF Discard
  <1> QED
    BY <1>3, <1>4, <1>5, <1>6, <1>7 DEF CallerCommand

\* A command that hands its work to worker w and is done.
LEMMA SpawnFacts ==
    ASSUME thread \in [Threads -> ThreadState], NEW th \in Threads, NEW w \in Threads,
           th # w, NEW s \in ThreadState,
           thread' = [thread EXCEPT ![th] = Idle, ![w] = s]
    PROVE  /\ thread' \in [Threads -> ThreadState]
           /\ thread'[th] = Idle /\ thread'[w] = s
           /\ \A o \in Threads : o # th /\ o # w => thread'[o] = thread[o]
  BY IdleFacts

\* SpawnPreview and SpawnExecution: the command becomes idle, its worker starts.
LEMMA SpawnPreviewMoves ==
    ASSUME RuntimeInv, NEW c \in Callers, SpawnPreview(c)
    PROVE  LET t == thread[Caller(c)].task
           IN /\ t \in Tasks /\ Publish(t)
              /\ thread' \in [Threads -> ThreadState]
              /\ thread'[Caller(c)] = Idle
              /\ thread'[Previewer(t)].at = "emit"
              /\ thread'[Previewer(t)].task = t
              /\ thread'[Previewer(t)].stage = "Validating"
              /\ \A o \in Threads : o # Caller(c) /\ o # Previewer(t) => thread'[o] = thread[o]
  <1> DEFINE th == Caller(c)
             t == thread[th].task
             s == [Idle EXCEPT !.at = "emit", !.task = t, !.stage = "Validating"]
  <1>1. th \in Threads /\ thread \in [Threads -> ThreadState] /\ thread[th].at = "spawn"
    BY Context, Kinds DEF SpawnPreview
  <1>2. t \in Tasks
    BY <1>1, Context DEF Shape, Working, Places
  <1>3. Previewer(t) \in Threads /\ th # Previewer(t)
    BY <1>2, Kinds
  <1>4. s \in ThreadState /\ s.at = "emit" /\ s.task = t /\ s.stage = "Validating"
    <2>1. "Validating" \in Reported
      BY DEF Reported, PreviewPhases
    <2> QED
      BY <1>2, <2>1, IdleFacts DEF ThreadState, Places
  <1>5. thread' = [thread EXCEPT ![th] = Idle, ![Previewer(t)] = s]
    BY DEF SpawnPreview
  <1> HIDE DEF s
  <1>6. /\ thread' \in [Threads -> ThreadState]
        /\ thread'[th] = Idle /\ thread'[Previewer(t)] = s
        /\ \A o \in Threads : o # th /\ o # Previewer(t) => thread'[o] = thread[o]
    BY <1>1, <1>3, <1>4, <1>5, SpawnFacts
  <1> QED
    BY <1>2, <1>4, <1>6 DEF SpawnPreview

\* Spawning the execution frees the caller and starts the execution thread of its task.
LEMMA SpawnExecutionMoves ==
    ASSUME RuntimeInv, NEW c \in Callers, SpawnExecution(c)
    PROVE  LET t == thread[Caller(c)].task
           IN /\ t \in Tasks /\ Publish(t)
              /\ thread' \in [Threads -> ThreadState]
              /\ thread'[Caller(c)] = Idle
              /\ thread'[Executor(t)].at = "preflight"
              /\ thread'[Executor(t)].task = t
              /\ \A o \in Threads : o # Caller(c) /\ o # Executor(t) => thread'[o] = thread[o]
  <1> DEFINE th == Caller(c)
             t == thread[th].task
             s == [Idle EXCEPT !.at = "preflight", !.task = t, !.plan = thread[th].plan,
                               !.deadline = rec[t].expires_at]
  <1>1. /\ th \in Threads /\ thread \in [Threads -> ThreadState]
        /\ thread[th].at = "spawnExecution" /\ KindOf(th) = "caller"
    BY Context, Kinds DEF SpawnExecution
  <1>2. t \in Tasks /\ thread[th].plan \in Plans
    BY <1>1, Context DEF Shape, CallerShape, Working, Places
  <1>3. Executor(t) \in Threads /\ th # Executor(t)
    BY <1>2, Kinds
  <1>4. s \in ThreadState /\ s.at = "preflight" /\ s.task = t
    <2>1. rec[t].expires_at \in Nat
      BY <1>2, Context DEF Record
    <2> QED
      BY <1>2, <2>1, IdleFacts DEF ThreadState, Places
  <1>5. thread' = [thread EXCEPT ![th] = Idle, ![Executor(t)] = s]
    BY DEF SpawnExecution
  <1> HIDE DEF s
  <1>6. /\ thread' \in [Threads -> ThreadState]
        /\ thread'[th] = Idle /\ thread'[Executor(t)] = s
        /\ \A o \in Threads : o # th /\ o # Executor(t) => thread'[o] = thread[o]
    BY <1>1, <1>3, <1>4, <1>5, SpawnFacts
  <1> QED
    BY <1>2, <1>4, <1>6 DEF SpawnExecution

\* A command that is under way.
LEMMA CallerTyped ==
    ASSUME RuntimeInv, NEW c \in Callers, CallerStep(c)
    PROVE  Typed
  <1> DEFINE th == Caller(c)
             t == thread[th].task
  <1>0. th \in Threads /\ KindOf(th) = "caller"
    BY Kinds
  <1>1. /\ thread \in [Threads -> ThreadState] /\ thread[th] \in ThreadState
        /\ Shape(th, thread[th]) /\ CallerShape(thread[th])
    BY <1>0, Context DEF Shape
  <1>2. ASSUME OnlyThread(th), thread'[th] = Idle
        PROVE  OnlyThread(th) /\ Shape(th, thread[th])'
    BY <1>2, IdleFacts DEF Shape, CallerShape, PreviewShape, ExecutorShape, TimerShape,
       CallerPlaces, PreviewPlaces, ExecutorPlaces, Working
  <1>3. Become(th, Idle) => OnlyThread(th) /\ Shape(th, thread[th])'
    BY <1>0, <1>1, <1>2, IdleFacts, BecomeFacts
  <1>4. ASSUME NEW place \in {"spawn", "abandon", "begin", "recordExecution", "spawnExecution"},
               Goto(th, place), thread[th].at \in Working,
               place \in {"begin", "recordExecution", "spawnExecution"} => thread[th].plan \in Plans
        PROVE  OnlyThread(th) /\ Shape(th, thread[th])'
    <2>1. place \in Places /\ place \in CallerPlaces /\ place # "tail" /\ t \in Tasks
      BY <1>1, <1>4 DEF Places, CallerPlaces, Shape
    <2>2. /\ OnlyThread(th) /\ thread'[th] \in ThreadState /\ thread'[th].at = place
          /\ thread'[th].task = t /\ thread'[th].plan = thread[th].plan
      BY <1>0, <1>1, <1>4, <2>1, GotoFacts
    <2> QED
      BY <1>0, <1>4, <2>1, <2>2 DEF Shape, CallerShape
  <1>5. CASE RecordPreview(c)
    <2>1. RegistryNext /\ HistoryTyped
      BY <1>5, PersistStep DEF RecordPreview, Persist
    <2>2. OnlyThread(th) /\ Shape(th, thread[th])'
      BY <1>4, <1>5 DEF RecordPreview, Working, Places
    <2> QED
      BY <1>0, <1>5, <2>1, <2>2, Context, ThreadTyped DEF RecordPreview
  <1>6. CASE Abandon(c)
    <2>1. [RegistryNext]_registryVars
      <3>1. t \in Tasks
        BY <1>1, <1>6 DEF Abandon, Shape, Working, Places
      <3>2. <<"Failed", "None">> \in Results
        BY DEF Results
      <3> QED
        BY <1>6, <3>1, <3>2, FinishStep DEF Abandon
    <2> QED
      BY <1>0, <1>3, <1>6, <2>1, Context, ThreadTyped DEF Abandon
  <1>7. CASE SpawnPreview(c)
    <2>0. PICK u : u = t
      OBVIOUS
    <2>1. /\ u \in Tasks /\ Publish(u)
          /\ thread' \in [Threads -> ThreadState]
          /\ thread'[th] = Idle
          /\ thread'[Previewer(u)].at = "emit"
          /\ thread'[Previewer(u)].task = u
          /\ thread'[Previewer(u)].stage = "Validating"
          /\ \A o \in Threads : o # th /\ o # Previewer(u) => thread'[o] = thread[o]
      BY <1>7, <2>0, SpawnPreviewMoves
    <2>2. Shape(th, thread[th])'
      BY <2>1, IdleFacts DEF Shape, CallerShape, PreviewShape, ExecutorShape, TimerShape,
         CallerPlaces, PreviewPlaces, ExecutorPlaces, Working
    <2>3. Shape(Previewer(u), thread[Previewer(u)])'
      <3>1. KindOf(Previewer(u)) = "preview" /\ IdOf(Previewer(u)) = u
        BY <2>1, Kinds
      <3> QED
        BY <2>1, <3>1, Kinds DEF Shape, PreviewShape, PreviewPlaces, PreviewStages
    <2>4. RegistryNext /\ HistoryTyped
      BY <2>1, PublishStep
    <2> QED
      BY <1>7, <2>1, <2>2, <2>3, <2>4, Context, MovedTyped DEF SpawnPreview
  <1>8. CASE LookupPlan(c)
    <2>1. OnlyThread(th) /\ Shape(th, thread[th])'
      BY <1>1, <1>3, <1>4, <1>8 DEF LookupPlan, CallerShape, Working, Places
    <2> QED
      BY <1>0, <1>8, <2>1, Context, ThreadTyped DEF LookupPlan
  <1>9. CASE BeginTask(c)
    <2>1. t \in Tasks /\ thread[th].plan \in Plans
      BY <1>1, <1>9 DEF BeginTask, Shape, CallerShape, Working, Places
    <2>2. InputOf(t, thread[th].plan) \in Input
      BY <2>1, RuntimeAssumption DEF InputOf, Input
    <2>3. [RegistryNext]_registryVars
      BY <1>9, <2>1, <2>2 DEF BeginTask, RegistryNext
    <2>4. OnlyThread(th) /\ Shape(th, thread[th])'
      BY <1>3, <1>4, <1>9, <2>1 DEF BeginTask, Working, Places
    <2> QED
      BY <1>0, <1>9, <2>3, <2>4, Context, ThreadTyped DEF BeginTask
  <1>10. CASE RecordExecution(c)
    <2>1. RegistryNext /\ HistoryTyped
      BY <1>10, PersistStep DEF RecordExecution, Persist
    <2>2. OnlyThread(th) /\ Shape(th, thread[th])'
      BY <1>1, <1>4, <1>10 DEF RecordExecution, CallerShape, Working, Places
    <2> QED
      BY <1>0, <1>10, <2>1, <2>2, Context, ThreadTyped DEF RecordExecution
  <1>11. CASE SpawnExecution(c)
    <2>0. PICK u : u = t
      OBVIOUS
    <2>1. /\ u \in Tasks /\ Publish(u)
          /\ thread' \in [Threads -> ThreadState]
          /\ thread'[th] = Idle
          /\ thread'[Executor(u)].at = "preflight"
          /\ thread'[Executor(u)].task = u
          /\ \A o \in Threads : o # th /\ o # Executor(u) => thread'[o] = thread[o]
      BY <1>11, <2>0, SpawnExecutionMoves
    <2>2. Shape(th, thread[th])'
      BY <2>1, IdleFacts DEF Shape, CallerShape, PreviewShape, ExecutorShape, TimerShape,
         CallerPlaces, PreviewPlaces, ExecutorPlaces, Working
    <2>3. Shape(Executor(u), thread[Executor(u)])'
      <3>1. KindOf(Executor(u)) = "execute" /\ IdOf(Executor(u)) = u
        BY <2>1, Kinds
      <3> QED
        BY <2>1, <3>1, Kinds DEF Shape, ExecutorShape, ExecutorPlaces
    <2>4. RegistryNext /\ HistoryTyped
      BY <2>1, PublishStep
    <2> QED
      BY <1>11, <2>1, <2>2, <2>3, <2>4, Context, MovedTyped DEF SpawnExecution
  <1>12. CASE DiscardCancels(c)
    <2>1. t \in Tasks
      BY <1>1, <1>12 DEF DiscardCancels, Shape, Working, Places
    <2>2. [RegistryNext]_registryVars
      BY <1>12, <2>1 DEF DiscardCancels, RegistryNext
    <2>3. OnlyThread(th) /\ Shape(th, thread[th])'
      BY <1>0, <1>1, <1>3, <1>12, <2>1, CallLists, WindFacts DEF DiscardCancels
    <2> QED
      BY <1>0, <1>12, <2>2, <2>3, Context, ThreadTyped DEF DiscardCancels
  <1>13. CASE TailStep(th)
    BY <1>0, <1>13, TailTyped
  <1> QED
    BY <1>5, <1>6, <1>7, <1>8, <1>9, <1>10, <1>11, <1>12, <1>13 DEF CallerStep

\* The progress callback calls the registry and the history properly.
LEMMA CallbackStep ==
    ASSUME RuntimeInv, NEW th \in Threads, thread[th].task \in Tasks,
           Emit(th) => thread[th].stage \in Reported
    PROVE  /\ Emit(th) => RegistryNext /\ HistoryTyped
           /\ Journal(th) => RegistryNext /\ HistoryTyped
  <1>1. Emit(th) => RegistryNext /\ HistoryTyped
    BY Context DEF Emit, RegistryNext
  <1>2. RaiseCancelFlag(thread[th].task) => RegistryNext
    BY DEF RegistryNext
  <1>3. Journal(th) => RegistryNext /\ HistoryTyped
    BY <1>2, Context, PersistStep DEF Journal, Persist
  <1> QED
    BY <1>1, <1>3

\* A worker that moves on to another stage of its work.
LEMMA StageFacts ==
    ASSUME thread \in [Threads -> ThreadState], NEW th \in Threads, NEW stage \in Reported,
           thread' = [thread EXCEPT ![th].at = "emit", ![th].stage = stage]
    PROVE  /\ OnlyThread(th)
           /\ thread'[th] \in ThreadState
           /\ thread'[th].at = "emit"
           /\ thread'[th].task = thread[th].task
           /\ thread'[th].plan = thread[th].plan
           /\ thread'[th].deadline = thread[th].deadline
           /\ thread'[th].stage = stage
           /\ thread'[th].result = thread[th].result
  <1> DEFINE s == [thread[th] EXCEPT !.at = "emit", !.stage = stage]
  <1>1. thread' = [thread EXCEPT ![th] = s]
    OBVIOUS
  <1>2. /\ s \in ThreadState
        /\ s.at = "emit"
        /\ s.task = thread[th].task
        /\ s.plan = thread[th].plan
        /\ s.deadline = thread[th].deadline
        /\ s.stage = stage
        /\ s.result = thread[th].result
    BY DEF ThreadState, Places
  <1>3. thread'[th] = s
    BY <1>1
  <1> HIDE DEF s
  <1>4. OnlyThread(th)
    BY <1>1, <1>2 DEF OnlyThread
  <1> QED
    BY <1>2, <1>3, <1>4

\* The preview worker.
LEMMA PreviewerTyped ==
    ASSUME RuntimeInv, NEW t \in Tasks, PreviewerStep(t)
    PROVE  Typed /\ OnlyThread(Previewer(t))
  <1> DEFINE th == Previewer(t)
             s == thread[th]
  <1>0. th \in Threads /\ KindOf(th) = "preview" /\ IdOf(th) = t
    BY Kinds
  <1> HIDE DEF th
  <1> SUFFICES Typed /\ OnlyThread(th)
    BY DEF th
  <1>1. /\ thread \in [Threads -> ThreadState] /\ s \in ThreadState
        /\ Shape(th, s) /\ PreviewShape(t, s)
    BY <1>0, Context DEF Shape
  <1>2. PreviewStages \subseteq Reported
    BY DEF PreviewStages, Reported, PreviewPhases
  <1>3. s.at \in {"emit", "journal", "work", "publish", "withdraw", "finish"} =>
           s.at \in Working /\ s.task = t /\ s.stage \in PreviewStages
    BY <1>1 DEF PreviewShape, Working, Places
  <1>a. now' = now /\ Shape(th, thread[th])' <=> now' = now /\ Shape(th, thread'[th])
    BY DEF Shape, CallerShape, PreviewShape, ExecutorShape, TimerShape
  <1>4. ASSUME NEW place \in {"journal", "work", "publish", "withdraw"}, Goto(th, place),
               s.at \in Working, now' = now,
               place \in {"publish", "withdraw"} => s.stage = "Ready"
        PROVE  OnlyThread(th) /\ Shape(th, thread[th])'
    <2>1. place \in Places /\ place \in PreviewPlaces /\ place \notin {"tail", "finish"}
      BY <1>4 DEF Places, PreviewPlaces
    <2>2. /\ OnlyThread(th) /\ thread'[th] \in ThreadState /\ thread'[th].at = place
          /\ thread'[th].task = s.task /\ thread'[th].plan = s.plan
          /\ thread'[th].stage = s.stage /\ thread'[th].deadline = s.deadline
      BY <1>0, <1>1, <1>4, <2>1, GotoFacts
    <2>3. Shape(th, thread'[th])
      BY <1>0, <1>1, <1>4, <2>1, <2>2 DEF Shape, PreviewShape
    <2> QED
      BY <1>4, <1>a, <2>2, <2>3
  <1>5. ASSUME NEW status \in {"Failed", "Cancelled"}, Conclude(th, status, "None"),
               s.at \in Working, now' = now
        PROVE  OnlyThread(th) /\ Shape(th, thread[th])'
    <2>1. <<status, "None">> \in Results
      BY <1>5 DEF Results
    <2>2. /\ OnlyThread(th) /\ thread'[th] \in ThreadState /\ thread'[th].at = "finish"
          /\ thread'[th].task = s.task /\ thread'[th].plan = s.plan
          /\ thread'[th].stage = s.stage /\ thread'[th].deadline = s.deadline
          /\ thread'[th].result = <<status, "None">>
      BY <1>0, <1>1, <1>5, <2>1, ConcludeFacts
    <2>3. Shape(th, thread'[th])
      BY <1>0, <1>1, <1>5, <2>2 DEF Shape, PreviewShape, PreviewPlaces
    <2> QED
      BY <1>5, <1>a, <2>2, <2>3
  <1>6. CASE Emit(th)
    <2>1. RegistryNext /\ HistoryTyped /\ now' = now
      BY <1>0, <1>2, <1>3, <1>6, CallbackStep DEF Emit, Progress
    <2>2. OnlyThread(th) /\ Shape(th, thread[th])'
      BY <1>3, <1>4, <1>6, <2>1 DEF Emit
    <2> QED
      BY <1>0, <1>6, <2>1, <2>2, Context, ThreadTyped DEF Emit
  <1>7. CASE Journal(th)
    <2>1. RegistryNext /\ HistoryTyped /\ now' = now
      BY <1>0, <1>2, <1>3, <1>7, CallbackStep
         DEF Emit, Journal, PersistOk, PersistFails, Observe, RaiseCancelFlag
    <2>2. OnlyThread(th) /\ Shape(th, thread[th])'
      BY <1>3, <1>4, <1>7, <2>1 DEF Journal
    <2> QED
      BY <1>0, <1>7, <2>1, <2>2, Context, ThreadTyped DEF Journal
  <1>8. CASE PreviewWork(t)
    <2> DEFINE stage == NextPreviewStage(s.stage)
    <2>1. stage \in {"Reading", "Comparing"} /\ stage \in Reported
      BY <1>8 DEF PreviewWork, NextPreviewStage, th, Reported, PreviewPhases
    <2>2. thread' = [thread EXCEPT ![th].at = "emit", ![th].stage = stage] /\ now' = now
      BY <1>0, <1>1, <1>8 DEF PreviewWork, th, registryVars
    <2>3. s.task = t /\ s.at \in Working
      BY <1>3, <1>8 DEF PreviewWork, th
    <2> HIDE DEF stage
    <2>4. /\ OnlyThread(th) /\ thread'[th] \in ThreadState /\ thread'[th].at = "emit"
          /\ thread'[th].task = t /\ thread'[th].stage = stage
      BY <1>0, <1>1, <2>1, <2>2, <2>3, StageFacts
    <2>5. Shape(th, thread'[th])
      BY <1>0, <2>1, <2>4 DEF Shape, PreviewShape, PreviewPlaces, PreviewStages
    <2> QED
      BY <1>0, <1>8, <1>a, <2>2, <2>4, <2>5, Context, ThreadTyped DEF PreviewWork
  <1>9. CASE BuildPlan(t)
    <2>1. PICK p \in Plans :
             thread' = [thread EXCEPT ![th].at = "emit", ![th].stage = "Ready",
                                      ![th].plan = p, ![th].deadline = now + PreviewLife]
      BY <1>9 DEF BuildPlan, th
    <2> DEFINE d == now + PreviewLife
               q == [s EXCEPT !.at = "emit", !.stage = "Ready", !.plan = p, !.deadline = d]
    <2>2. d \in Nat /\ now' = now /\ d <= now + PreviewLife
      BY <1>9, Context, LimitsAssumption DEF BuildPlan, registryVars
    <2>3. thread' = [thread EXCEPT ![th] = q]
      BY <1>0, <1>1, <2>1
    <2>4. s.task = t /\ "Ready" \in Reported
      BY <1>3, <1>9 DEF BuildPlan, th, Reported, PreviewPhases
    <2> HIDE DEF d
    <2>5. /\ q \in ThreadState /\ q.at = "emit" /\ q.stage = "Ready" /\ q.plan = p
          /\ q.deadline = d /\ q.task = t
      BY <1>1, <2>2, <2>4 DEF ThreadState, Places
    <2> HIDE DEF q
    <2>6. OnlyThread(th) /\ thread'[th] = q
      BY <1>0, <1>1, <2>3, <2>5 DEF OnlyThread
    <2>7. Shape(th, thread'[th])
      BY <1>0, <2>2, <2>5, <2>6 DEF Shape, PreviewShape, PreviewPlaces, PreviewStages
    <2> QED
      BY <1>0, <1>9, <1>a, <2>2, <2>6, <2>7, Context, ThreadTyped DEF BuildPlan
  <1>10. CASE InsertPlan(t)
    <2>1. s.at \in Working /\ s.stage = "Ready" /\ s.plan \in Plans /\ now' = now
      BY <1>1, <1>3, <1>10 DEF InsertPlan, th, PreviewShape, registryVars
    <2>2. OnlyThread(th) /\ Shape(th, thread[th])'
      BY <1>4, <1>10, <2>1 DEF InsertPlan, th
    <2>3. plans' \subseteq Plans /\ spools' \subseteq Plans
      BY <1>10, <2>1, Context DEF InsertPlan, th
    <2> QED
      BY <1>0, <1>10, <2>2, <2>3, Context, ThreadTyped DEF InsertPlan
  <1>11. CASE PublishPlan(t)
    <2>1. /\ s.at \in Working /\ s.stage = "Ready" /\ s.plan \in Plans
          /\ s.deadline \in 0 .. now + PreviewLife
      <3>1. s.at \in Working /\ s.stage = "Ready"
        BY <1>1, <1>3, <1>11 DEF PublishPlan, th, PreviewShape
      <3>2. s.plan \in Plans /\ s.deadline <= now + PreviewLife
        BY <1>1, <3>1 DEF PreviewShape
      <3>3. s.deadline \in Nat /\ now \in Nat /\ PreviewLife \in Nat
        BY <1>1, Context, LimitsAssumption DEF ThreadState
      <3> QED
        BY <3>1, <3>2, <3>3
    <2>2. CASE SetReady(t, s.plan, s.deadline) /\ Wind(th, <<PublishCall(t), PruneCall>>)
      <3>1. RegistryNext
        BY <2>1, <2>2 DEF RegistryNext
      <3>2. OnlyThread(th) /\ Shape(th, thread[th])'
        BY <1>0, <1>1, <2>2, CallLists, WindFacts
      <3> QED
        BY <1>0, <1>11, <3>1, <3>2, Context, ThreadTyped DEF PublishPlan
    <2>3. CASE UNCHANGED registryVars /\ Goto(th, "withdraw")
      <3>1. OnlyThread(th) /\ Shape(th, thread[th])'
        BY <1>4, <2>1, <2>3 DEF registryVars
      <3> QED
        BY <1>0, <1>11, <2>3, <3>1, Context, ThreadTyped DEF PublishPlan
    <2> QED
      BY <1>11, <2>2, <2>3 DEF PublishPlan, th
  <1>12. CASE WithdrawPlan(t)
    <2>1. s.at \in Working /\ now' = now
      BY <1>3, <1>12 DEF WithdrawPlan, th, registryVars
    <2>2. OnlyThread(th) /\ Shape(th, thread[th])'
      BY <1>5, <1>12, <2>1 DEF WithdrawPlan, th
    <2>3. plans' \subseteq Plans /\ spools' \subseteq Plans
      BY <1>12, Context DEF WithdrawPlan
    <2> QED
      BY <1>0, <1>12, <2>2, <2>3, Context, ThreadTyped DEF WithdrawPlan
  <1>13. CASE PreviewFails(t)
    <2>1. s.at \in Working /\ now' = now
      BY <1>3, <1>13 DEF PreviewFails, th, registryVars
    <2>2. OnlyThread(th) /\ Shape(th, thread[th])'
      BY <1>5, <1>13, <2>1 DEF PreviewFails, th
    <2> QED
      BY <1>0, <1>13, <2>2, Context, ThreadTyped DEF PreviewFails
  <1>14. CASE FinishPreview(t)
    <2>1. s.result \in Results
      BY <1>1, <1>14 DEF FinishPreview, th, PreviewShape, Results
    <2>2. <<s.result[1], s.result[2]>> \in Results
      BY <2>1 DEF Results
    <2>3. [RegistryNext]_registryVars
      BY <1>14, <2>2, FinishStep DEF FinishPreview, th
    <2>4. OnlyThread(th) /\ Shape(th, thread[th])'
      BY <1>0, <1>1, <1>14, CallLists, WindFacts DEF FinishPreview, th
    <2> QED
      BY <1>0, <1>14, <2>3, <2>4, Context, ThreadTyped DEF FinishPreview
  <1>15. CASE TailStep(th)
    BY <1>0, <1>15, TailTyped
  <1> QED
    BY <1>6, <1>7, <1>8, <1>9, <1>10, <1>11, <1>12, <1>13, <1>14, <1>15
       DEF PreviewerStep, th

\* The execution worker.
LEMMA ExecutorTyped ==
    ASSUME RuntimeInv, NEW t \in Tasks, ExecutorStep(t)
    PROVE  Typed /\ OnlyThread(Executor(t))
  <1> DEFINE th == Executor(t)
             s == thread[th]
             Targets == [Tasks -> {"clean", "open", "lost", "inflight", "committed"}]
  <1>0. th \in Threads /\ KindOf(th) = "execute" /\ IdOf(th) = t
    BY Kinds
  <1> HIDE DEF th
  <1> SUFFICES Typed /\ OnlyThread(th)
    BY DEF th
  <1>1. /\ thread \in [Threads -> ThreadState] /\ s \in ThreadState
        /\ Shape(th, s) /\ ExecutorShape(t, s) /\ target \in Targets
    BY <1>0, Context DEF Shape
  <1>2. ExecutionStages \subseteq Reported
    BY DEF ExecutionStages, Reported, PreviewPhases, ExecutionPhases
  <1>3. s.at \in Places \ {"idle", "tail"} => s.task = t
    BY <1>1 DEF ExecutorShape, Working
  <1>a. Shape(th, thread[th])' <=> Shape(th, thread'[th])
    BY <1>0 DEF Shape, CallerShape, ExecutorShape, TimerShape
  <1>4. ASSUME NEW place \in {"open", "check", "journal", "work", "rollback", "commit", "finish"},
               Goto(th, place), s.task = t,
               place \in {"journal", "work"} =>
                  s.stage \in ExecutionStages /\ s.at \in {"emit", "journal"},
               place = "finish" => s.result \in Results
        PROVE  OnlyThread(th) /\ Shape(th, thread[th])'
    <2>1. place \in Places /\ place \in ExecutorPlaces /\ place \notin {"tail", "emit"}
      BY <1>4 DEF Places, ExecutorPlaces
    <2>2. /\ OnlyThread(th) /\ thread'[th] \in ThreadState /\ thread'[th].at = place
          /\ thread'[th].task = t /\ thread'[th].stage = s.stage
          /\ thread'[th].result = s.result
      BY <1>0, <1>1, <1>4, <2>1, GotoFacts
    <2>3. Shape(th, thread'[th])
      BY <1>0, <1>1, <1>4, <2>1, <2>2 DEF Shape, ExecutorShape
    <2> QED
      BY <1>a, <2>2, <2>3
  <1>5. ASSUME NEW status, NEW commit, <<status, commit>> \in Results,
               Conclude(th, status, commit), s.task = t
        PROVE  OnlyThread(th) /\ Shape(th, thread[th])'
    <2>1. /\ OnlyThread(th) /\ thread'[th] \in ThreadState /\ thread'[th].at = "finish"
          /\ thread'[th].task = t /\ thread'[th].result \in Results
      BY <1>0, <1>1, <1>5, ConcludeFacts
    <2>2. Shape(th, thread'[th])
      BY <1>0, <2>1 DEF Shape, ExecutorShape, ExecutorPlaces
    <2> QED
      BY <1>a, <2>1, <2>2
  <1>6. /\ FailureStatus(t) \in {"Failed", "Cancelled"}
        /\ \A f \in {"Failed", "Cancelled"} :
              <<f, "None">> \in Results /\ <<f, "RolledBack">> \in Results
        /\ <<"OutcomeUnknown", "Unknown">> \in Results
    BY DEF FailureStatus, Results
  <1>7. ASSUME UNCHANGED <<registryVars, plans, spools, history, crashes>>, target' \in Targets,
               OnlyThread(th), Shape(th, thread[th])'
        PROVE  Typed /\ OnlyThread(th)
    BY <1>0, <1>7, Context, ThreadTyped
  <1>8. \A v \in {"clean", "open", "lost", "inflight", "committed"} :
           [target EXCEPT ![t] = v] \in Targets
    BY <1>1
  <1>9. CASE Preflight(t)
    <2>1. s.task = t
      BY <1>3, <1>9 DEF Preflight, ExecutorAt, th, Places
    <2>2. OnlyThread(th) /\ Shape(th, thread[th])'
      BY <1>4, <1>5, <1>6, <1>9, <2>1 DEF Preflight, th
    <2> QED
      BY <1>1, <1>7, <1>9, <2>2 DEF Preflight
  <1>10. CASE OpenTransaction(t)
    <2>1. s.task = t
      BY <1>3, <1>10 DEF OpenTransaction, ExecutorAt, th, Places
    <2>2. OnlyThread(th) /\ Shape(th, thread[th])'
      BY <1>4, <1>5, <1>6, <1>10, <2>1 DEF OpenTransaction, th
    <2>3. target' \in Targets
      BY <1>1, <1>8, <1>10 DEF OpenTransaction
    <2> QED
      BY <1>7, <1>10, <2>2, <2>3 DEF OpenTransaction
  <1>11. CASE TransactionWork(t)
    <2> DEFINE stage == ExecutionStage(t)
    <2>1. s.task = t
      BY <1>3, <1>11 DEF TransactionWork, InTransaction, ExecutorAt, th, Places
    <2>2. stage \in ExecutionStages /\ stage # "Succeeded"
      BY <1>11 DEF TransactionWork, InTransaction, ExecutorAt, th, ExecutionStage,
                   ExecutionStages
    <2>3. thread' = [thread EXCEPT ![th].at = "emit", ![th].stage = stage]
      BY <1>11 DEF TransactionWork, th
    <2> HIDE DEF stage
    <2>4. /\ OnlyThread(th) /\ thread'[th] \in ThreadState /\ thread'[th].at = "emit"
          /\ thread'[th].task = t /\ thread'[th].stage = stage
      BY <1>0, <1>1, <1>2, <2>1, <2>2, <2>3, StageFacts
    <2>5. Shape(th, thread'[th])
      BY <1>0, <2>2, <2>4 DEF Shape, ExecutorShape, ExecutorPlaces
    <2> QED
      BY <1>1, <1>7, <1>11, <1>a, <2>4, <2>5 DEF TransactionWork
  <1>12. CASE TransactionFails(t)
    <2>1. s.task = t
      BY <1>3, <1>12 DEF TransactionFails, InTransaction, ExecutorAt, th, Places
    <2>2. OnlyThread(th) /\ Shape(th, thread[th])'
      BY <1>4, <1>12, <2>1 DEF TransactionFails, th
    <2> QED
      BY <1>1, <1>7, <1>12, <2>2 DEF TransactionFails
  <1>13. CASE SendCommit(t)
    <2>1. s.task = t
      BY <1>3, <1>13 DEF SendCommit, ExecutorAt, th, Places
    <2>2. OnlyThread(th) /\ Shape(th, thread[th])'
      BY <1>4, <1>13, <2>1 DEF SendCommit, th
    <2>3. target' \in Targets
      BY <1>1, <1>8, <1>13 DEF SendCommit
    <2> QED
      BY <1>7, <1>13, <2>2, <2>3 DEF SendCommit
  <1>14. CASE CommitConfirmed(t)
    <2> DEFINE res == <<"Succeeded", "Committed">>
               q == [s EXCEPT !.at = "emit", !.stage = "Succeeded", !.result = res]
    <2>1. s.task = t
      BY <1>3, <1>14 DEF CommitConfirmed, ExecutorAt, th, Places
    <2>2. res \in Results /\ "Succeeded" \in Reported
      BY DEF Results, Reported
    <2>3. thread' = [thread EXCEPT ![th] = q]
      BY <1>0, <1>1, <1>14 DEF CommitConfirmed, th
    <2> HIDE DEF res
    <2>4. /\ q \in ThreadState /\ q.at = "emit" /\ q.stage = "Succeeded" /\ q.task = t
          /\ q.result = res
      BY <1>1, <2>1, <2>2 DEF ThreadState, Places
    <2> HIDE DEF q
    <2>5. OnlyThread(th) /\ thread'[th] = q
      BY <1>0, <1>1, <2>3, <2>4 DEF OnlyThread
    <2>6. Shape(th, thread'[th])
      BY <1>0, <2>4, <2>5 DEF Shape, ExecutorShape, ExecutorPlaces, ExecutionStages, res
    <2> QED
      BY <1>1, <1>7, <1>14, <1>a, <2>5, <2>6 DEF CommitConfirmed
  <1>15. CASE CommitUnconfirmed(t)
    <2>1. s.task = t
      BY <1>3, <1>15 DEF CommitUnconfirmed, ExecutorAt, th, Places
    <2>2. OnlyThread(th) /\ Shape(th, thread[th])'
      BY <1>5, <1>6, <1>15, <2>1 DEF CommitUnconfirmed, th
    <2>3. target' \in Targets
      BY <1>1, <1>8, <1>15 DEF CommitUnconfirmed
    <2> QED
      BY <1>7, <1>15, <2>2, <2>3 DEF CommitUnconfirmed
  <1>16. CASE CommitReported(t) /\ s.result \in Results
    <2>1. s.task = t
      BY <1>3, <1>16 DEF CommitReported, ExecutorAt, th, Places
    <2>2. OnlyThread(th) /\ Shape(th, thread[th])'
      BY <1>4, <1>16, <2>1 DEF CommitReported, th
    <2> QED
      BY <1>1, <1>7, <1>16, <2>2 DEF CommitReported
  <1>17. CASE Rollback(t)
    <2>1. s.task = t
      BY <1>3, <1>17 DEF Rollback, ExecutorAt, th, Places
    <2>2. OnlyThread(th) /\ Shape(th, thread[th])'
      BY <1>5, <1>6, <1>17, <2>1 DEF Rollback, th
    <2>3. target' \in Targets
      BY <1>8, <1>17 DEF Rollback
    <2> QED
      BY <1>7, <1>17, <2>2, <2>3 DEF Rollback
  <1>18. CASE ExecutorPanics(t)
    <2>1. s.task = t
      BY <1>1, <1>3, <1>18 DEF ExecutorPanics, th, ThreadState
    <2>2. OnlyThread(th) /\ Shape(th, thread[th])'
      BY <1>5, <1>6, <1>18, <2>1 DEF ExecutorPanics, th
    <2>3. target' \in Targets
      BY <1>1, <1>18 DEF ExecutorPanics
    <2> QED
      BY <1>7, <1>18, <2>2, <2>3 DEF ExecutorPanics
  <1>19. CASE FinishExecution(t)
    <2>1. s.result \in Results
      BY <1>1, <1>19 DEF FinishExecution, th, ExecutorShape
    <2>2. <<s.result[1], s.result[2]>> \in Results
      BY <2>1 DEF Results
    <2>3. [RegistryNext]_registryVars
      BY <1>19, <2>2, FinishStep DEF FinishExecution, th
    <2>4. OnlyThread(th) /\ Shape(th, thread[th])'
      BY <1>0, <1>1, <1>19, CallLists, WindFacts DEF FinishExecution, th
    <2> QED
      BY <1>0, <1>19, <2>3, <2>4, Context, ThreadTyped DEF FinishExecution
  <1>20. CASE Emit(th)
    <2>1. s.task = t /\ s.stage \in ExecutionStages
      BY <1>1, <1>3, <1>20 DEF Emit, Places, ExecutorShape
    <2>2. RegistryNext /\ HistoryTyped
      BY <1>0, <1>2, <1>20, <2>1, CallbackStep
    <2>3. OnlyThread(th) /\ Shape(th, thread[th])'
      BY <1>4, <1>20, <2>1 DEF Emit
    <2> QED
      BY <1>0, <1>20, <2>2, <2>3, Context, ThreadTyped DEF Emit
  <1>21. CASE Journal(th)
    <2>1. s.task = t /\ s.stage \in ExecutionStages
      BY <1>1, <1>3, <1>21 DEF Journal, Places, ExecutorShape
    <2>2. RegistryNext /\ HistoryTyped
      BY <1>0, <1>2, <1>21, <2>1, CallbackStep
    <2>3. OnlyThread(th) /\ Shape(th, thread[th])'
      BY <1>4, <1>21, <2>1 DEF Journal
    <2> QED
      BY <1>0, <1>21, <2>2, <2>3, Context, ThreadTyped DEF Journal
  <1>22. CASE TailStep(th)
    BY <1>0, <1>22, TailTyped
  <1>23. CommitReported(t) => s.result \in Results
    BY <1>1 DEF CommitReported, ExecutorAt, th, ExecutorShape, Results
  <1> QED
    BY <1>9, <1>10, <1>11, <1>12, <1>13, <1>14, <1>15, <1>16, <1>17, <1>18, <1>19,
       <1>20, <1>21, <1>22, <1>23 DEF ExecutorStep, th

-----------------------------------------------------------------------------
(* A step of the running process, a crash, and the theorems *)

\* Every step of the running process.
LEMMA RunningTyped ==
    ASSUME RuntimeInv, RunningStep
    PROVE  Typed
  <1>1. ASSUME NEW m \in Timers, Maintenance(m)
        PROVE  Typed
    <2>1. Timer(m) \in Threads
      BY Kinds
    <2>2. OnlyThread(Timer(m)) /\ Shape(Timer(m), thread[Timer(m)])'
      BY <1>1, <2>1, Context, CallLists, WindFacts DEF Maintenance
    <2> QED
      BY <1>1, <2>1, <2>2, Context, ThreadTyped DEF Maintenance
  <1>2. ASSUME NEW m \in Timers, TailStep(Timer(m))
        PROVE  Typed
    BY <1>2, Kinds, TailTyped
  <1>3. ASSUME NEW t \in Tasks, DatabaseDecides(t)
        PROVE  Typed
    <2>1. target' \in [Tasks -> {"clean", "open", "lost", "inflight", "committed"}]
      BY <1>3, Context DEF DatabaseDecides
    <2> QED
      BY <1>3, <2>1, Context, NoThreadTyped DEF DatabaseDecides
  <1>4. CASE Tick /\ UNCHANGED runtimeVars
    <2>1. RegistryNext
      BY <1>4 DEF RegistryNext
    <2> QED
      BY <1>4, <2>1, Context, NoThreadTyped DEF runtimeVars
  <1> QED
    BY <1>1, <1>2, <1>3, <1>4, CommandTyped, CallerTyped, PreviewerTyped, ExecutorTyped
       DEF RunningStep

\* load_history and restore make finished records without execution and plan.
LEMMA RestoredFacts ==
    ASSUME NEW h \in HistoryEntry, h.status \in Terminal => h.commit # Nil
    PROVE  /\ Restored(h) \in Record
           /\ Restored(h).execution = Nil /\ Restored(h).plan_id = Nil
           /\ ~Live(Restored(h)) /\ Sound(Restored(h))
           /\ h.status = "Absent" => Restored(h) = NoRecord
           /\ h.status = "Open" /\ h.execution_id = Nil =>
                 Restored(h).status = "Interrupted" /\ Restored(h).commit = "None"
           /\ h.status = "Open" /\ h.execution_id # Nil =>
                 Restored(h).status = "OutcomeUnknown" /\ Restored(h).commit = "Unknown"
           /\ h.status \in Terminal =>
                 Restored(h).status = h.status /\ Restored(h).commit = h.commit
  <1>1. NoRecord \in Record /\ NoRecord.status = "Absent" /\ NoRecord.execution = Nil
        /\ NoRecord.plan_id = Nil
    BY NoRecordType DEF NoRecord
  <1>2. CASE h.status = "Absent"
    <2>1. Restored(h) = NoRecord
      BY <1>2 DEF Restored
    <2> QED
      BY <1>1, <1>2, <2>1 DEF Live, Known, Sound, IsTerminal, Terminal
  <1>3. CASE h.status # "Absent"
    <2> DEFINE st == IF h.status # "Open" THEN h.status
                     ELSE IF h.execution_id # Nil THEN "OutcomeUnknown" ELSE "Interrupted"
               co == IF h.status # "Open" THEN h.commit
                     ELSE IF h.execution_id # Nil THEN "Unknown" ELSE "None"
               r == [NoRecord EXCEPT !.status = st, !.commit = co, !.cancel = TRUE,
                                     !.execution_id = h.execution_id,
                                     !.updated_at = h.updated_at]
    <2>1. Restored(h) = r
      BY <1>3 DEF Restored
    <2>2. /\ st \in Terminal /\ co \in CommitState \cup {Nil} /\ co # Nil
          /\ h.execution_id \in Executions \cup {Nil} /\ h.updated_at \in Nat
          /\ h.status = "Open" /\ h.execution_id = Nil => st = "Interrupted" /\ co = "None"
          /\ h.status = "Open" /\ h.execution_id # Nil =>
                st = "OutcomeUnknown" /\ co = "Unknown"
          /\ h.status \in Terminal => st = h.status /\ co = h.commit
      BY <1>3, CommitNotNil DEF HistoryEntry, Terminal, CommitState
    <2> HIDE DEF st, co
    <2>3. /\ r \in Record /\ r.status = st /\ r.commit = co /\ r.cancel = TRUE
          /\ r.execution = Nil /\ r.plan_id = Nil
      BY <1>1, <2>2 DEF Record, Status
    <2> HIDE DEF r
    <2>4. ~Live(r) /\ Sound(r)
      BY <2>2, <2>3 DEF Live, Sound, IsTerminal
    <2> QED
      BY <1>3, <2>1, <2>2, <2>3, <2>4
  <1> QED
    BY <1>2, <1>3

\* A crash and restart.
LEMMA RestartInv ==
    ASSUME RuntimeInv, Restart
    PROVE  RuntimeInv'
  <1>1. /\ history \in [Tasks -> HistoryEntry] /\ HistorySound /\ history' = history
        /\ now \in Nat /\ now' = now
        /\ target \in [Tasks -> {"clean", "open", "lost", "inflight", "committed"}]
    BY DEF RuntimeInv, RuntimeTypeOK, RegistryTypeOK, Restart
  <1>2. \A t \in Tasks : /\ rec'[t] = Restored(history[t]) /\ rec'[t] \in Record
                          /\ rec'[t].execution = Nil /\ rec'[t].plan_id = Nil
                          /\ ~Live(rec'[t]) /\ Sound(rec'[t])
    BY <1>1, RestoredFacts DEF Restart, HistorySound
  <1>3. RegistryTypeOK'
    BY <1>1, <1>2 DEF RegistryTypeOK, Restart
  <1>4. RegistryInv' /\ RecordsSound'
    BY <1>2, <1>3, NilAssumption
       DEF RegistryInv, WriterOwns, RunningPhase, ExecutionIdShown, ExecutedOnce,
           RecordsSound, Restart
  <1>5. thread' \in [Threads -> ThreadState] /\ \A th \in Threads : thread'[th] = Idle
    BY IdleFacts DEF Restart
  <1>6. ThreadsOK' /\ \A th \in Threads : thread'[th].at # "tail"
    BY <1>5, IdleFacts
       DEF ThreadsOK, Shape, CallerShape, PreviewShape, ExecutorShape, TimerShape,
           CallerPlaces, PreviewPlaces, ExecutorPlaces, Working
  <1>7. target' \in [Tasks -> {"clean", "open", "lost", "inflight", "committed"}]
    BY <1>1 DEF Restart
  <1>8. crashes' \in 0 .. MaxCrashes
    BY RuntimeAssumption DEF RuntimeInv, RuntimeTypeOK, Restart
  <1>9. RuntimeTypeOK'
    BY <1>1, <1>3, <1>5, <1>6, <1>7, <1>8 DEF RuntimeTypeOK, Restart
  <1> QED
    BY <1>1, <1>4, <1>6, <1>9 DEF RuntimeInv, HistorySound

\* The process starts without tasks, threads at work or history.
LEMMA RuntimeInitInv ==
    ASSUME Init
    PROVE  RuntimeInv
  <1>1. RegistryInv
    BY InitInv DEF Init
  <1>2. RecordsSound
    BY DEF Init, RegistryInit, RecordsSound, Sound, NoRecord, IsTerminal, Terminal
  <1>3. thread \in [Threads -> ThreadState] /\ \A th \in Threads : thread[th] = Idle
    BY IdleFacts DEF Init
  <1>4. ThreadsOK /\ \A th \in Threads : thread[th].at # "tail"
    BY <1>3, IdleFacts DEF ThreadsOK
  <1>5. history \in [Tasks -> HistoryEntry] /\ HistorySound
    BY DEF Init, NoTask, HistoryEntry, HistorySound, Terminal
  <1>6. RuntimeTypeOK
    BY <1>1, <1>3, <1>4, <1>5, RuntimeAssumption DEF Init, RuntimeTypeOK, RegistryInv
  <1> QED
    BY <1>1, <1>2, <1>4, <1>5, <1>6 DEF RuntimeInv

\* Every step keeps the invariant.
LEMMA RuntimeNextInv ==
    ASSUME RuntimeInv, [Next]_vars
    PROVE  RuntimeInv'
  <1>1. CASE RunningStep
    BY <1>1, RunningTyped, TypedInv
  <1>2. CASE Restart
    BY <1>2, RestartInv
  <1>3. CASE UNCHANGED vars
    <2>1. Typed
      BY <1>3, Context, NoThreadTyped DEF vars, runtimeVars
    <2> QED
      BY <2>1, TypedInv
  <1> QED
    BY <1>1, <1>2, <1>3 DEF Next

\* Threads, records and history have their shapes in every reachable state of
\* the runtime, also after a crash.
THEOREM RuntimeInvariance == Spec => []RuntimeInv
  <1>1. Init => RuntimeInv
    BY RuntimeInitInv
  <1>2. RuntimeInv /\ [Next]_vars => RuntimeInv'
    BY RuntimeNextInv
  <1> QED
    BY <1>1, <1>2, PTL DEF Spec

\* Every reachable state of the runtime is well typed: each worker's result is
\* one that finish() takes and each clean-up call has its task, whatever the
\* commands, workers, timers and crashes do to each other.
THEOREM RuntimeTypeCorrect == Spec => []RuntimeTypeOK
  BY RuntimeInvariance, PTL DEF RuntimeInv

\* What is proved of the registry survives crashes: the writer slot names the
\* running task, a running task never falls back to a preview phase and no
\* execution id or plan is used twice.
THEOREM RegistrySafeAcrossCrashes == Spec => [](WriterOwns /\ RunningPhase /\ ExecutedOnce)
  BY RuntimeInvariance, PTL DEF RuntimeInv, RegistryInv

\* Between crashes the commands and workers use the registry as its methods
\* allow: the runtime implements the registry's specification, so everything
\* proved of the registry holds of the running application.
THEOREM RuntimeImplementsRegistry == Init /\ [][RunningStep]_vars => RegistrySpec
  <1>1. Init => RuntimeInv /\ RegistryInit
    BY RuntimeInitInv DEF Init
  <1>2. RuntimeInv /\ [RunningStep]_vars => RuntimeInv'
    BY RuntimeNextInv DEF Next
  <1>3. RuntimeInv /\ [RunningStep]_vars => [RegistryNext]_registryVars
    BY RunningTyped DEF Typed, vars
  <1> QED
    BY <1>1, <1>2, <1>3, PTL DEF RegistrySpec

-------------------------------------------------------------------------------
(* The target databases. *)

\* Places where a thread is the only one that works for its task.
Owning == Working \ {"lookup", "begin", "discard"}

Owns(th, t) == thread[th].task = t /\ thread[th].at \in Owning

\* What a commit state claims is true of a target.
Honest(commit, tgt) ==
    /\ commit \in {"None", "RolledBack"} => tgt \notin {"inflight", "committed"}
    /\ commit = "Committed" => tgt = "committed"

\* The statuses and commit states a task can end with.
Endings == Results \cup {<<"Expired", "None">>, <<"Interrupted", "None">>}

\* A restart would find the execution of t open or not find t at all.
Unsettled(t) ==
    \/ history[t].status = "Absent"
    \/ history[t].status = "Open" /\ history[t].execution_id # Nil

\* What an execution worker in state s knows of its target and its record.
Situated(s, tgt, status) ==
    /\ s.at \in {"preflight", "open"} => tgt = "clean"
    /\ s.at \in {"check", "rollback"} => tgt = "open"
    /\ s.at \in {"emit", "journal", "work"} =>
          tgt = IF s.stage = "Succeeded" THEN "committed" ELSE "open"
    /\ s.at \in {"journal", "work"} /\ s.stage = "Committing"
          => status \in {"Committing", "Cancelling"}
    /\ s.at = "commit" => tgt \in {"inflight", "committed", "lost"}
    /\ s.at = "finish" => tgt # "open" /\ Honest(s.result[2], tgt)

ExecutorHolds(t, s) ==
    /\ writer = t
    /\ Unsettled(t)
    /\ Situated(s, target[t], rec[t].status)

\* What the other owners know: nothing was written, and the task either waits
\* for its plan or has the writer slot.
OtherHolds(t, s) ==
    /\ target[t] = "clean"
    /\ s.at \in {"recordExecution", "spawnExecution"} => writer = t
    /\ s.at = "spawnExecution" => Unsettled(t)
    /\ s.at \notin {"recordExecution", "spawnExecution"} =>
          \/ s.at = "abandon" /\ writer = t
          \/ rec[t].execution = Nil /\ rec[t].plan_id = Nil

Holds(th, t, s) ==
    /\ KindOf(th) = "execute" => ExecutorHolds(t, s)
    /\ KindOf(th) # "execute" => OtherHolds(t, s)

OwnersOK(t) ==
    /\ \A th \in Threads : Owns(th, t) => Holds(th, t, thread[th])
    /\ \A th, o \in Threads : Owns(th, t) /\ Owns(o, t) => th = o

RecordOK(t) ==
    /\ IsTerminal(rec[t]) => <<rec[t].status, rec[t].commit>> \in Endings
    /\ ~IsTerminal(rec[t]) => rec[t].commit = Nil
    /\ Honest(rec[t].commit, target[t])
    /\ Live(rec[t]) /\ rec[t].execution = Nil => target[t] = "clean"
    /\ Live(rec[t]) /\ MayBeCommitted(t) => rec[t].status = "Committing"

HistoryOK(t) ==
    /\ history[t].status \in Terminal =>
          /\ <<history[t].status, history[t].commit>> \in Endings
          /\ Honest(history[t].commit, target[t])
    /\ history[t].status = "Open" /\ history[t].execution_id = Nil => ~MayBeCommitted(t)

TaskOK(t) ==
    /\ OwnersOK(t)
    /\ RecordOK(t)
    /\ HistoryOK(t)
    /\ target[t] = "open" => Owns(Executor(t), t)
    /\ writer = t => \E th \in Threads : Owns(th, t)

\* The inductive invariant, beside RuntimeInv.
TasksOK == \A t \in Tasks : TaskOK(t)

-----------------------------------------------------------------------------
(* What the registry does to a task behind its owner's back *)

\* Expiry, cancellation, clean-up notes and trimming: r may become q.
CalmRecord(r, q) ==
    \/ q = NoRecord /\ (IsTerminal(r) \/ r.status = "Ready")
    \/ /\ SameIds(q, r)
       /\ \/ q.status = r.status /\ q.commit = r.commit
          \/ /\ r.status \in {"Ready", "Created"}
             /\ q.status \in {"Expired", "Cancelled"} /\ q.commit = "None"
          \/ /\ Live(r) /\ r.status # "Committing"
             /\ q.status = "Cancelling" /\ q.commit = r.commit

Calm(u) == CalmRecord(rec[u], rec'[u]) /\ (writer' = u <=> writer = u)

\* A method that changes neither records nor slot.
LEMMA SameCalm ==
    ASSUME UNCHANGED <<rec, writer>>, NEW u \in Tasks
    PROVE  Calm(u)
  BY DEF Calm, CalmRecord, SameIds

\* expire().
LEMMA ExpireCalm ==
    ASSUME RuntimeInv, NEW u \in Tasks
    PROVE  CalmRecord(rec[u], Expired[u])
  BY ExpireFacts DEF RuntimeInv, RegistryInv, CalmRecord

\* Reading a snapshot, which expires plans, is calm for every task.
LEMMA ObserveCalm ==
    ASSUME RuntimeInv, Observe, NEW u \in Tasks
    PROVE  Calm(u)
  BY ExpireCalm DEF Observe, Calm

\* cancel(), also of the task itself.
LEMMA CancelCalm ==
    ASSUME RuntimeInv, NEW t \in Tasks, Cancel(t), NEW u \in Tasks
    PROVE  Calm(u)
  <1>1. rec \in [Tasks -> Record] /\ now \in Nat /\ rec[t] \in Record
    BY DEF RuntimeInv, RegistryInv, RegistryTypeOK
  <1>2. /\ u # t => rec'[u] = rec[u]
        /\ u = t => rec'[u] = CancelRecord(rec[t])
    BY <1>1 DEF Cancel
  <1>3. CASE u = t
    <2>1. SameIds(rec'[u], rec[u])
      BY <1>1, <1>2, <1>3, CancelRecordFacts
    <2>2. CASE rec[t].status \in {"Ready", "Created"}
      BY <1>1, <1>2, <1>3, <2>1, <2>2, CancelRecordFacts DEF Cancel, Calm, CalmRecord
    <2>3. CASE rec[t].status \notin {"Ready", "Created"}
      <3>1. CancelRecord(rec[t]).status = "Cancelling"
        BY <1>1, <2>3, CancelRecordFacts
      <3>2. CancelRecord(rec[t]).commit = rec[t].commit
        BY <1>1, <2>3 DEF CancelRecord, Record
      <3> QED
        BY <1>2, <1>3, <2>1, <3>1, <3>2 DEF Cancel, CancelAccepted, Calm, CalmRecord
    <2> QED
      BY <2>2, <2>3
  <1> QED
    BY <1>2, <1>3 DEF Cancel, Calm, CalmRecord, SameIds

\* The flag a failed persist raises.
LEMMA RaiseCalm ==
    ASSUME RuntimeInv, NEW t \in Tasks, RaiseCancelFlag(t), NEW u \in Tasks
    PROVE  Calm(u)
  <1>1. Expired \in [Tasks -> Record]
    BY ExpireFacts DEF RuntimeInv, RegistryInv
  <1> DEFINE q == [Expired[t] EXCEPT !.cancel = TRUE]
  <1>2. rec' = [Expired EXCEPT ![t] = q]
    BY <1>1 DEF RaiseCancelFlag
  <1>3. /\ SameIds(q, Expired[t]) /\ q.status = Expired[t].status
        /\ q.commit = Expired[t].commit
    <2>1. Expired[t] \in Record
      BY <1>1
    <2> HIDE DEF Expired
    <2> QED
      BY <2>1 DEF Record, SameIds
  <1> HIDE DEF q
  <1>4. /\ SameIds(rec'[u], Expired[u]) /\ rec'[u].status = Expired[u].status
        /\ rec'[u].commit = Expired[u].commit
    BY <1>1, <1>2, <1>3 DEF SameIds
  <1>5. /\ CalmRecord(rec[u], Expired[u]) /\ SameIds(Expired[u], rec[u])
        /\ Expired[u] = rec[u] \/ (rec[u].status = "Ready" /\ Expired[u].status = "Expired"
                                   /\ Expired[u].commit = "None")
    BY ExpireCalm, ExpireFacts DEF RuntimeInv, RegistryInv
  <1> QED
    BY <1>4, <1>5 DEF RaiseCancelFlag, Calm, CalmRecord, SameIds

\* append_cleanup_error(): an ended task has a result, which stays.
LEMMA AppendCalm ==
    ASSUME RuntimeInv, NEW S, NEW R \in {rec, Expired}, AppendCleanupError(R, S),
           NEW u \in Tasks
    PROVE  Calm(u)
  <1>1. /\ rec \in [Tasks -> Record] /\ now \in Nat /\ Expired \in [Tasks -> Record]
        /\ Sound(rec[u])
    BY ExpireFacts DEF RuntimeInv, RegistryInv, RegistryTypeOK, RecordsSound
  <1>2. /\ R[u] \in Record /\ SameIds(R[u], rec[u])
        /\ \/ R[u] = rec[u]
           \/ /\ rec[u].status = "Ready" /\ R[u].status = "Expired"
              /\ R[u].commit = "None"
    BY <1>1, ExpireFacts DEF RuntimeInv, RegistryInv, SameIds
  <1>3. rec'[u] = IF u \in S THEN CleanupNoted(R[u]) ELSE R[u]
    BY DEF AppendCleanupError
  <1>4. IsTerminal(R[u]) => R[u].commit # Nil
    BY <1>1, <1>2, CommitNotNil DEF Sound, CommitState
  <1>5. /\ SameIds(rec'[u], R[u]) /\ rec'[u].status = R[u].status
        /\ rec'[u].commit = R[u].commit
    BY <1>1, <1>2, <1>3, <1>4, CleanupNotedFacts DEF SameIds
  <1> QED
    BY <1>2, <1>5 DEF AppendCleanupError, Calm, CalmRecord, SameIds

\* publish() is calm for every task.
LEMMA PublishCalm ==
    ASSUME RuntimeInv, NEW t, Publish(t), NEW u \in Tasks
    PROVE  Calm(u)
  BY ObserveCalm, AppendCalm DEF Publish, PersistOk

-----------------------------------------------------------------------------
(* What the registry does to the task a method is called for *)

\* register_preview().
LEMMA RegisterTask ==
    ASSUME RuntimeInv, NEW t \in Tasks, RegisterPreview(t)
    PROVE  /\ \A u \in Tasks : u # t => Calm(u)
           /\ writer' = writer /\ writer # t
           /\ rec'[t].execution = Nil /\ rec'[t].plan_id = Nil
           /\ \/ rec'[t].status \in {"Absent", "Created"} /\ rec'[t].commit = Nil
              \/ rec'[t].status = "Cancelled" /\ rec'[t].commit = "None"
  <1>0. RegistryInv /\ RegistryTypeOK /\ now \in Nat /\ Expired \in [Tasks -> Record]
    BY ExpireFacts DEF RuntimeInv, RegistryInv, RegistryTypeOK
  <1> DEFINE new == NewRecord(t)
             R == [Expired EXCEPT ![t] = new]
  <1>1. PICK G \in TrimChoices(R) : rec' = Drop(R, G)
    BY DEF RegisterPreview
  <1>2. new \in Record /\ new.execution = Nil /\ new.plan_id = Nil
    BY <1>0, NewRecordFacts
  <1>3. \/ new.status = "Created" /\ new.commit = Nil
        \/ new.status = "Cancelled" /\ new.commit = "None"
    <2>1. NoRecord \in Record /\ NoRecord.commit = Nil
      BY NoRecordType DEF NoRecord
    <2>2. CASE t \in cancelledBefore
      <3>1. new = [NoRecord EXCEPT !.status = "Cancelled", !.cancel = TRUE,
                                   !.commit = "None", !.updated_at = now]
        BY <2>2 DEF NewRecord
      <3> QED
        BY <2>1, <3>1 DEF Record
    <2>3. CASE t \notin cancelledBefore
      <3>1. new = [NoRecord EXCEPT !.status = "Created", !.updated_at = now]
        BY <2>3 DEF NewRecord
      <3> QED
        BY <2>1, <3>1 DEF Record
    <2> QED
      BY <2>2, <2>3
  <1> HIDE DEF new
  <1>4. R \in [Tasks -> Record] /\ R[t] = new /\ \A u \in Tasks : u # t => R[u] = Expired[u]
    BY <1>0, <1>2
  <1>5. G \in TrimChoices(R)
    BY <1>1
  <1> HIDE DEF R
  <1>6. \A v \in Tasks : rec'[v] = R[v] \/ (IsTerminal(R[v]) /\ rec'[v] = NoRecord)
    BY <1>1, <1>4, <1>5, DropFacts
  <1>7. writer' = writer /\ writer # t
    <2>1. rec[t].status = "Absent"
      BY <1>0, RegisterPreviewLawful
    <2> QED
      BY <1>0, <2>1 DEF RegisterPreview, RegistryInv, WriterOwns, Live, Known
  <1>8. ASSUME NEW u \in Tasks, u # t
        PROVE  Calm(u)
    <2>1. CalmRecord(rec[u], Expired[u])
      BY ExpireCalm
    <2>2. \/ rec'[u] = Expired[u]
          \/ IsTerminal(Expired[u]) /\ rec'[u] = NoRecord
      BY <1>4, <1>6, <1>8
    <2>3. IsTerminal(Expired[u]) => IsTerminal(rec[u]) \/ rec[u].status = "Ready"
      BY <1>0, ExpireFacts
    <2> QED
      BY <1>7, <2>1, <2>2, <2>3 DEF Calm, CalmRecord
  <1>9. NoRecord.status = "Absent" /\ NoRecord.commit = Nil /\ NoRecord.execution = Nil
        /\ NoRecord.plan_id = Nil
    BY DEF NoRecord
  <1> QED
    BY <1>2, <1>3, <1>4, <1>6, <1>7, <1>8, <1>9

\* set_ready().
LEMMA SetReadyTask ==
    ASSUME RuntimeInv, NEW t \in Tasks, NEW p \in Plans, NEW d, SetReady(t, p, d)
    PROVE  /\ \A u \in Tasks : u # t => Calm(u)
           /\ writer' = writer
           /\ Live(rec[t])
           /\ rec'[t].status = "Ready" /\ rec'[t].commit = rec[t].commit
           /\ rec'[t].execution = rec[t].execution
  <1>1. rec \in [Tasks -> Record] /\ rec[t] \in Record
    BY DEF RuntimeInv, RegistryInv, RegistryTypeOK
  <1> DEFINE r == [rec[t] EXCEPT !.status = "Ready", !.plan_id = p, !.preview = p,
                                 !.expires_at = d, !.updated_at = now]
  <1>2. rec' = [rec EXCEPT ![t] = r]
    BY <1>1 DEF SetReady
  <1>3. r.status = "Ready" /\ r.commit = rec[t].commit /\ r.execution = rec[t].execution
    BY <1>1 DEF Record
  <1> HIDE DEF r
  <1>4. rec'[t] = r /\ \A u \in Tasks : u # t => rec'[u] = rec[u]
    BY <1>1, <1>2
  <1> QED
    BY <1>3, <1>4 DEF SetReady, CanSetReady, Calm, CalmRecord, SameIds

\* begin_execution().
LEMMA BeginTaskFacts ==
    ASSUME RuntimeInv, NEW t \in Tasks, NEW input \in Input, BeginExecution(t, input)
    PROVE  /\ \A u \in Tasks : u # t => Calm(u)
           /\ writer = Nil /\ writer' = t
           /\ rec[t].status = "Ready" /\ rec[t].execution = Nil /\ rec[t].plan_id # Nil
           /\ rec'[t].status = "Executing" /\ rec'[t].commit = rec[t].commit
           /\ rec'[t].execution # Nil
  <1>1. Expired \in [Tasks -> Record]
    BY ExpireFacts DEF RuntimeInv, RegistryInv
  <1>2. /\ Expired[t].status = "Ready" /\ Expired[t].execution = Nil
        /\ Expired[t].plan_id = input.plan_id /\ writer = Nil
        /\ input.plan_id \in Plans
    BY DEF BeginExecution, MayBegin, Input
  <1>3. Expired[t] = rec[t]
    BY <1>2, ExpireFacts DEF RuntimeInv, RegistryInv
  <1> DEFINE r == [Expired[t] EXCEPT !.execution = input,
                                     !.execution_id = input.execution_id,
                                     !.status = "Executing", !.updated_at = now]
  <1>4. rec' = [Expired EXCEPT ![t] = r]
    <2> HIDE DEF Expired
    <2> QED
      BY <1>1 DEF BeginExecution
  <1>5. r.status = "Executing" /\ r.commit = Expired[t].commit /\ r.execution = input
    <2>1. Expired[t] \in Record
      BY <1>1
    <2> HIDE DEF Expired
    <2> QED
      BY <2>1 DEF Record
  <1> HIDE DEF r
  <1>6. rec'[t] = r /\ \A u \in Tasks : u # t => rec'[u] = Expired[u]
    BY <1>1, <1>4
  <1>7. ASSUME NEW u \in Tasks, u # t
        PROVE  Calm(u)
    BY <1>2, <1>6, <1>7, ExpireCalm, NilAssumption DEF BeginExecution, Calm
  <1> QED
    BY <1>2, <1>3, <1>5, <1>6, <1>7, NilAssumption DEF BeginExecution

\* progress().
LEMMA ProgressTask ==
    ASSUME RuntimeInv, NEW t \in Tasks, NEW s \in Reported, Progress(t, s)
    PROVE  /\ \A u \in Tasks : u # t => Calm(u)
           /\ writer' = writer
           /\ SameIds(rec'[t], rec[t])
           /\ rec'[t].commit = rec[t].commit
           /\ rec'[t].status = IF ProgressApplies(rec[t], s) THEN s ELSE rec[t].status
  <1>1. rec \in [Tasks -> Record] /\ rec[t] \in Record /\ now \in Nat
    BY DEF RuntimeInv, RegistryInv, RegistryTypeOK
  <1>2. /\ rec'[t] = ProgressRecord(rec[t], s)
        /\ \A u \in Tasks : u # t => rec'[u] = rec[u]
        /\ writer' = writer
    BY <1>1 DEF Progress
  <1>3. ProgressRecord(rec[t], s).commit = rec[t].commit
    BY <1>1 DEF ProgressRecord, Record
  <1> QED
    BY <1>1, <1>2, <1>3, ProgressRecordFacts DEF Calm, CalmRecord, SameIds

\* finish(): the first result is registered, later ones are not; the task does
\* not have the writer slot afterwards.
LEMMA FinishTaskFacts ==
    ASSUME RuntimeInv, NEW t \in Tasks, NEW a, NEW b, <<a, b>> \in Results,
           FinishTask(t, a, b)
    PROVE  /\ \A u \in Tasks : u # t => Calm(u)
           /\ writer' # t
           /\ \/ ~Live(rec[t]) /\ rec' = rec
              \/ rec'[t] = NoRecord
              \/ rec'[t].status = a /\ rec'[t].commit = b
  <1>1. rec \in [Tasks -> Record] /\ rec[t] \in Record /\ now \in Nat /\ WriterOwns
    BY DEF RuntimeInv, RegistryInv, RegistryTypeOK
  <1>2. CASE ~Live(rec[t])
    <2>1. UNCHANGED registryVars
      BY <1>2 DEF FinishTask
    <2>2. rec' = rec /\ writer' = writer /\ writer # t
      BY <1>1, <1>2, <2>1 DEF registryVars, WriterOwns
    <2> QED
      BY <1>2, <2>2, SameCalm
  <1>3. CASE Live(rec[t])
    <2>0. Finish(t, a, b) /\ a \in Terminal /\ b \in CommitState
      BY <1>3 DEF FinishTask, Results, Terminal, CommitState
    <2> DEFINE q == FinishRecord(rec[t], a, b)
               R == [rec EXCEPT ![t] = q]
    <2>1. PICK G \in TrimChoices(R) : rec' = Drop(R, G)
      BY <2>0 DEF Finish
    <2>2. q \in Record /\ q.status = a /\ q.commit = b
      BY <1>1, <2>0, FinishRecordFacts
    <2> HIDE DEF q
    <2>3. R \in [Tasks -> Record] /\ R[t] = q /\ \A u \in Tasks : u # t => R[u] = rec[u]
      BY <1>1, <2>2
    <2>4. G \in TrimChoices(R)
      BY <2>1
    <2> HIDE DEF R
    <2>5. \A v \in Tasks : rec'[v] = R[v] \/ (IsTerminal(R[v]) /\ rec'[v] = NoRecord)
      BY <2>1, <2>3, <2>4, DropFacts
    <2>6. writer' = IF writer = t THEN Nil ELSE writer
      BY <2>0 DEF Finish
    <2>7. ASSUME NEW u \in Tasks, u # t
          PROVE  Calm(u)
      BY <2>3, <2>5, <2>6, <2>7, NilAssumption DEF Calm, CalmRecord, SameIds
    <2> QED
      BY <2>2, <2>3, <2>5, <2>6, <2>7, NilAssumption
  <1> QED
    BY <1>2, <1>3

-----------------------------------------------------------------------------
(* A task that a step does not act on *)

\* What may happen to a task's history entry in any step.
Saves(u) ==
    \/ history'[u] = history[u]
    \/ history'[u] = NoTask
    \/ Known(rec'[u]) /\ history'[u] = Summary(rec'[u])

\* Writing the history file leaves every entry true to its record.
LEMMA PersistSaves ==
    ASSUME RuntimeInv, PersistOk, NEW u \in Tasks
    PROVE  Saves(u)
  BY PersistOkFacts DEF Saves

\* So does the write after a change of one task, whether it succeeds or not.
LEMMA PublishSaves ==
    ASSUME RuntimeInv, NEW t, Publish(t), NEW u \in Tasks
    PROVE  Saves(u)
  BY PersistSaves DEF Publish, Saves

\* The task that has the writer slot runs, under its execution id.
LEMMA WriterRuns ==
    ASSUME RegistryInv, NEW u \in Tasks, writer = u
    PROVE  /\ Live(rec[u]) /\ rec[u].execution # Nil /\ rec[u].execution_id # Nil
           /\ rec[u].status \in ExecutionPhases \cup {"Cancelling"}
  <1>1. Live(rec[u]) /\ rec[u].execution # Nil
    BY DEF RegistryInv, WriterOwns
  <1>2. rec[u].execution \in Input
    BY <1>1 DEF RegistryInv, RegistryTypeOK, Record
  <1>3. rec[u].execution_id = rec[u].execution.execution_id
    BY <1>1 DEF RegistryInv, ExecutionIdShown
  <1>4. rec[u].execution_id \in Executions
    BY <1>2, <1>3 DEF Input
  <1> QED
    BY <1>1, <1>4, NilAssumption DEF RegistryInv, RunningPhase

\* The task in the writer slot executes, in the next state.
LEMMA NextWriterRuns ==
    ASSUME RegistryInv', NEW u \in Tasks, writer' = u
    PROVE  /\ Live(rec'[u]) /\ rec'[u].execution # Nil /\ rec'[u].execution_id # Nil
           /\ rec'[u].status \in ExecutionPhases \cup {"Cancelling"}
  <1>1. Live(rec'[u]) /\ rec'[u].execution # Nil
    BY DEF RegistryInv, WriterOwns
  <1>2. rec'[u].execution \in Input
    BY <1>1 DEF RegistryInv, RegistryTypeOK, Record
  <1>3. rec'[u].execution_id = rec'[u].execution.execution_id
    BY <1>1 DEF RegistryInv, ExecutionIdShown
  <1>4. rec'[u].execution_id \in Executions
    BY <1>2, <1>3 DEF Input
  <1> QED
    BY <1>1, <1>4, NilAssumption DEF RegistryInv, RunningPhase

\* A task without execution id has no execution, in the next state.
LEMMA NextNoIdNoExecution ==
    ASSUME RegistryInv', NEW u \in Tasks, rec'[u].execution_id = Nil
    PROVE  rec'[u].execution = Nil
  <1>1. rec'[u] \in Record
    BY DEF RegistryInv, RegistryTypeOK
  <1>2. rec'[u].execution # Nil => rec'[u].execution.execution_id \in Executions
    BY <1>1 DEF Record, Input
  <1> QED
    BY <1>2, NilAssumption DEF RegistryInv, ExecutionIdShown

\* The file stays true when it is left alone or rewritten from true records.
LEMMA HistoryKept ==
    ASSUME RegistryInv', NEW u \in Tasks, HistoryOK(u), RecordOK(u)', Saves(u),
           target'[u] = target[u]
    PROVE  HistoryOK(u)'
  <1>1. CASE history'[u] = history[u]
    BY <1>1 DEF HistoryOK, MayBeCommitted
  <1>2. CASE history'[u] = NoTask
    BY <1>2 DEF HistoryOK, NoTask, Terminal
  <1>3. CASE history'[u] = Summary(rec'[u]) /\ Known(rec'[u])
    <2>1. CASE IsTerminal(rec'[u])
      <3>1. history'[u].status = rec'[u].status /\ history'[u].commit = rec'[u].commit
        BY <1>3, <2>1 DEF Summary
      <3> QED
        BY <2>1, <3>1 DEF HistoryOK, RecordOK, IsTerminal, Terminal
    <2>2. CASE ~IsTerminal(rec'[u])
      <3>1. history'[u].status = "Open" /\ history'[u].execution_id = rec'[u].execution_id
        BY <1>3, <2>2 DEF Summary
      <3>2. history'[u].execution_id = Nil => target'[u] = "clean"
        BY <1>3, <2>2, <3>1, NextNoIdNoExecution DEF RecordOK, Live, Known, IsTerminal
      <3> QED
        BY <3>1, <3>2 DEF HistoryOK, MayBeCommitted, Terminal
    <2> QED
      BY <2>1, <2>2
  <1> QED
    BY <1>1, <1>2, <1>3 DEF Saves

\* A calm step keeps a record true.
LEMMA RecordKept ==
    ASSUME RuntimeInv, NEW u \in Tasks, RecordOK(u), Calm(u), target'[u] = target[u]
    PROVE  RecordOK(u)'
  <1>1. CASE rec'[u] = NoRecord
    <2>1. rec'[u].status = "Absent" /\ rec'[u].commit = Nil
      BY <1>1 DEF NoRecord
    <2> QED
      BY <2>1, CommitNotNil
         DEF RecordOK, IsTerminal, Terminal, Live, Known, Honest, CommitState
  <1>2. CASE /\ SameIds(rec'[u], rec[u])
             /\ rec'[u].status = rec[u].status /\ rec'[u].commit = rec[u].commit
    BY <1>2 DEF RecordOK, IsTerminal, Live, Known, SameIds, MayBeCommitted
  <1>3. CASE /\ SameIds(rec'[u], rec[u]) /\ rec[u].status \in {"Ready", "Created"}
             /\ rec'[u].status \in {"Expired", "Cancelled"} /\ rec'[u].commit = "None"
    <2>1. Live(rec[u]) /\ rec[u].execution = Nil
      BY <1>3 DEF RuntimeInv, RegistryInv, RunningPhase, Live, Known, IsTerminal, Terminal,
                  ExecutionPhases
    <2>2. target'[u] = "clean"
      BY <2>1 DEF RecordOK
    <2>3. <<rec'[u].status, rec'[u].commit>> \in Endings
      BY <1>3 DEF Endings, Results
    <2> QED
      BY <1>3, <2>2, <2>3 DEF RecordOK, IsTerminal, Terminal, Live, Honest
  <1>4. CASE /\ SameIds(rec'[u], rec[u]) /\ Live(rec[u]) /\ rec[u].status # "Committing"
             /\ rec'[u].status = "Cancelling" /\ rec'[u].commit = rec[u].commit
    <2>1. ~MayBeCommitted(u) /\ rec[u].commit = Nil
      BY <1>4 DEF RecordOK, Live
    <2> QED
      BY <1>4, <2>1, CommitNotNil
         DEF RecordOK, IsTerminal, Terminal, Live, SameIds, Honest, MayBeCommitted,
             CommitState
  <1> QED
    BY <1>1, <1>2, <1>3, <1>4 DEF Calm, CalmRecord

\* An owner in state s still knows what it knew after a calm step.
LEMMA HoldsKept ==
    ASSUME RuntimeInv, RuntimeInv', NEW u \in Tasks, NEW th \in Threads, NEW s,
           Holds(th, u, s), Calm(u), Saves(u), target'[u] = target[u]
    PROVE  /\ KindOf(th) = "execute" => ExecutorHolds(u, s)'
           /\ KindOf(th) # "execute" => OtherHolds(u, s)'
  <1>1. writer = u => writer' = u
    BY DEF Calm
  <1>2. ASSUME writer = u, Unsettled(u)
        PROVE  Unsettled(u)'
    <2>1. Live(rec'[u]) /\ rec'[u].execution_id # Nil
      BY <1>1, <1>2, NextWriterRuns DEF RuntimeInv
    <2> QED
      BY <1>2, <2>1 DEF Unsettled, Saves, NoTask, Summary, Live
  <1>3. ASSUME writer = u
        PROVE  \/ rec'[u].status = rec[u].status
               \/ rec[u].status # "Committing" /\ rec'[u].status = "Cancelling"
    <2>1. rec[u].status \in ExecutionPhases \cup {"Cancelling"} /\ Live(rec[u])
      BY <1>3, WriterRuns DEF RuntimeInv
    <2> QED
      BY <2>1 DEF Calm, CalmRecord, ExecutionPhases, Live
  <1>4. rec[u].execution = Nil /\ rec[u].plan_id = Nil
           => rec'[u].execution = Nil /\ rec'[u].plan_id = Nil
    BY DEF Calm, CalmRecord, SameIds, NoRecord
  <1>5. CASE KindOf(th) = "execute"
    <2>1. writer = u /\ Unsettled(u) /\ Situated(s, target[u], rec[u].status)
      BY <1>5 DEF Holds, ExecutorHolds
    <2>2. Situated(s, target'[u], rec'[u].status)
      BY <1>3, <2>1 DEF Situated
    <2> QED
      BY <1>1, <1>2, <1>5, <2>1, <2>2 DEF ExecutorHolds, Situated, Honest
  <1>6. CASE KindOf(th) # "execute"
    <2>1. s.at = "spawnExecution" => writer = u
      BY <1>6 DEF Holds, OtherHolds
    <2> QED
      BY <1>1, <1>2, <1>4, <1>6, <2>1 DEF Holds, OtherHolds
  <1> QED
    BY <1>5, <1>6

\* A step leaves task u to its owner: it is calm, saves u at most, and neither
\* touches u's target nor moves an owner of u.
Quiet(u) ==
    /\ Calm(u)
    /\ Saves(u)
    /\ target'[u] = target[u]
    /\ \A th \in Threads : Owns(th, u) \/ Owns(th, u)' => thread'[th] = thread[th]

\* A quiet step keeps what is known of a task.
LEMMA QuietTask ==
    ASSUME RuntimeInv, RuntimeInv', NEW u \in Tasks, TaskOK(u), Quiet(u)
    PROVE  TaskOK(u)'
  <1>1. Calm(u) /\ Saves(u) /\ target'[u] = target[u] /\ (writer' = u <=> writer = u)
    BY DEF Quiet, Calm
  <1>2. RecordOK(u)'
    BY <1>1, RecordKept DEF TaskOK
  <1>3. HistoryOK(u)'
    BY <1>1, <1>2, HistoryKept DEF TaskOK, RuntimeInv
  <1>4. \A th \in Threads : Owns(th, u)' <=> Owns(th, u)
    BY DEF Quiet, Owns
  <1>5. ASSUME NEW th \in Threads, Owns(th, u)'
        PROVE  Holds(th, u, thread[th])'
    <2>1. PICK s : s = thread[th]
      OBVIOUS
    <2>2. thread'[th] = s /\ Holds(th, u, s)
      BY <1>4, <1>5, <2>1 DEF Quiet, TaskOK, OwnersOK
    <2>3. /\ KindOf(th) = "execute" => ExecutorHolds(u, s)'
          /\ KindOf(th) # "execute" => OtherHolds(u, s)'
      BY <1>1, <2>2, HoldsKept
    <2> QED
      BY <2>2, <2>3 DEF Holds, ExecutorHolds, OtherHolds, Situated, Honest
  <1>6. OwnersOK(u)'
    BY <1>4, <1>5 DEF TaskOK, OwnersOK
  <1>7. target'[u] = "open" => Owns(Executor(u), u)'
    BY <1>1, <1>4, Kinds DEF TaskOK
  <1>8. writer' = u => \E th \in Threads : Owns(th, u)'
    BY <1>1, <1>4 DEF TaskOK
  <1> QED
    BY <1>2, <1>3, <1>6, <1>7, <1>8 DEF TaskOK

\* A step of a thread that owns no task.
LEMMA FreeStep ==
    ASSUME RuntimeInv, RuntimeInv', TasksOK, NEW th \in Threads, OnlyThread(th),
           thread[th].at \notin Owning, thread'[th].at \notin Owning,
           \A u \in Tasks : Calm(u) /\ Saves(u), UNCHANGED target
    PROVE  TasksOK'
  <1> SUFFICES ASSUME NEW u \in Tasks
               PROVE  TaskOK(u)'
    BY DEF TasksOK
  <1>1. \A o \in Threads : Owns(o, u) \/ Owns(o, u)' => thread'[o] = thread[o]
    BY DEF Owns, OnlyThread
  <1> QED
    BY <1>1, QuietTask DEF TasksOK, Quiet

\* A step of the owner of t, which leaves the other tasks alone.
LEMMA OwnerStep ==
    ASSUME RuntimeInv, RuntimeInv', TasksOK, NEW t \in Tasks, NEW th \in Threads,
           Owns(th, t), OnlyThread(th), thread'[th].task \in {t, Nil},
           \A u \in Tasks : u # t => Calm(u) /\ Saves(u) /\ target'[u] = target[u],
           Owns(th, t)' => Holds(th, t, thread[th])',
           RecordOK(t)', HistoryOK(t)',
           target'[t] = "open" => Owns(th, t)' /\ th = Executor(t),
           writer' = t => Owns(th, t)'
    PROVE  TasksOK'
  <1> SUFFICES ASSUME NEW u \in Tasks
               PROVE  TaskOK(u)'
    BY DEF TasksOK
  <1>1. CASE u = t
    <2>1. \A o \in Threads : Owns(o, t)' => o = th
      BY DEF TasksOK, TaskOK, OwnersOK, Owns, OnlyThread
    <2>2. OwnersOK(t)'
      BY <2>1 DEF OwnersOK
    <2> QED
      BY <1>1, <2>2 DEF TaskOK
  <1>2. CASE u # t
    <2>1. \A o \in Threads : Owns(o, u) \/ Owns(o, u)' => thread'[o] = thread[o]
      BY <1>2, NilAssumption DEF Owns, OnlyThread
    <2> QED
      BY <1>2, <2>1, QuietTask DEF TasksOK, Quiet
  <1> QED
    BY <1>1, <1>2

-----------------------------------------------------------------------------
(* Threads that own no task: clean-up calls and most of the commands *)

\* Places where a thread owns no task.
LEMMA FreePlaces ==
    \A place \in {"idle", "tail", "lookup", "begin", "discard"} : place \notin Owning
  BY DEF Owning, Working

\* A thread at its clean-up calls owns no task, nor does it after one of them.
LEMMA TailPlaces ==
    ASSUME RuntimeInv, NEW th \in Threads, TailStep(th)
    PROVE  /\ OnlyThread(th) /\ UNCHANGED target
           /\ thread[th].at = "tail" /\ thread'[th].at \notin Owning
  <1>1. OnlyThread(th) /\ thread[th] \in ThreadState /\ thread \in [Threads -> ThreadState]
    BY TailTyped, Context
  <1>2. thread[th].at = "tail" /\ UNCHANGED target
    BY DEF TailStep, TailPersist, PruneList, PruneRemove, PruneDelete, Calls
  <1>3. Unwind(th) => thread'[th].at \notin Owning
    BY <1>2, UnwindFacts, FreePlaces
  <1>4. ASSUME NEW todo, NEW found,
               thread' = [thread EXCEPT ![th].todo = todo, ![th].found = found]
        PROVE  thread'[th].at \notin Owning
    <2>1. thread'[th] = [thread[th] EXCEPT !.todo = todo, !.found = found]
      BY <1>1, <1>4
    <2>2. thread'[th].at = "tail"
      BY <1>1, <1>2, <2>1 DEF ThreadState
    <2> QED
      BY <2>2, FreePlaces
  <1> QED
    BY <1>1, <1>2, <1>3, <1>4 DEF TailStep, TailPersist, PruneList, PruneRemove, PruneDelete

\* The clean-up calls touch no task, and what they save is its record.
LEMMA TailCalm ==
    ASSUME RuntimeInv, NEW th \in Threads, TailStep(th), NEW u \in Tasks
    PROVE  Calm(u) /\ Saves(u)
  <1>1. Calm(u)
    BY ObserveCalm, PublishCalm, AppendCalm, SameCalm
       DEF TailStep, TailPersist, PruneList, PruneRemove, PruneDelete, Persist,
           PersistOk, PersistFails, Report, registryVars
  <1>2. UNCHANGED history => Saves(u)
    BY DEF Saves
  <1>3. Saves(u)
    BY <1>2, PersistSaves, PublishSaves
       DEF TailStep, TailPersist, PruneList, PruneRemove, PruneDelete, Persist,
           PersistFails, Report
  <1> QED
    BY <1>1, <1>3

\* The clean-up calls leave every task alone.
LEMMA TailKeeps ==
    ASSUME RuntimeInv, RuntimeInv', TasksOK, NEW th \in Threads, TailStep(th)
    PROVE  TasksOK'
  BY TailPlaces, TailCalm, FreePlaces, FreeStep

\* A command that takes no task: it looks, cancels, discards or is refused.
LEMMA FreeCommand ==
    ASSUME RuntimeInv, RuntimeInv', TasksOK, NEW c \in Callers, OnlyThread(Caller(c)),
           thread[Caller(c)].at \in {"idle", "lookup", "begin", "discard"},
           thread'[Caller(c)].at \in {"idle", "tail", "lookup", "begin", "discard"},
           \/ UNCHANGED <<rec, writer>> \/ Observe \/ \E t \in Tasks : Cancel(t),
           UNCHANGED <<history, target>>
    PROVE  TasksOK'
  <1>1. \A u \in Tasks : Calm(u) /\ Saves(u)
    BY SameCalm, ObserveCalm, CancelCalm DEF Saves
  <1>2. Caller(c) \in Threads
    BY Kinds
  <1> QED
    BY <1>1, <1>2, FreePlaces, FreeStep

\* start_data_task_preview: a new id, which no thread works for.
LEMMA StartKeeps ==
    ASSUME RuntimeInv, RuntimeInv', TasksOK, NEW c \in Callers, NEW t \in Tasks,
           StartPreview(c, t), RegisterPreview(t), \A th \in Threads : thread[th].task # t,
           t \in cancelledBefore => UNCHANGED thread,
           t \notin cancelledBefore =>
               Become(Caller(c), [Idle EXCEPT !.at = "record", !.task = t])
    PROVE  TasksOK'
  <1> DEFINE me == Caller(c)
  <1>1. /\ me \in Threads /\ KindOf(me) = "caller" /\ thread \in [Threads -> ThreadState]
        /\ thread[me].at = "idle" /\ thread[me].task = Nil
        /\ target[t] = "clean" /\ UNCHANGED <<history, target>>
    BY Kinds, Context, IdleFacts DEF StartPreview
  <1>2. /\ \A u \in Tasks : u # t => Calm(u)
        /\ writer' = writer /\ writer # t
        /\ rec'[t].execution = Nil /\ rec'[t].plan_id = Nil
        /\ \/ rec'[t].status \in {"Absent", "Created"} /\ rec'[t].commit = Nil
           \/ rec'[t].status = "Cancelled" /\ rec'[t].commit = "None"
    BY RegisterTask
  <1>3. /\ OnlyThread(me)
        /\ \/ thread'[me] = thread[me]
           \/ thread'[me].at = "record" /\ thread'[me].task = t
    <2>1. CASE t \in cancelledBefore
      BY <1>1, <2>1 DEF OnlyThread
    <2>2. CASE t \notin cancelledBefore
      <3> DEFINE s == [Idle EXCEPT !.at = "record", !.task = t]
      <3>1. s \in ThreadState /\ s.at = "record" /\ s.task = t
        BY CommandState
      <3>2. Become(me, s)
        BY <2>2
      <3> HIDE DEF s
      <3> QED
        BY <1>1, <3>1, <3>2, BecomeFacts
    <2> QED
      BY <2>1, <2>2
  <1> HIDE DEF me
  <1>4. ASSUME NEW u \in Tasks, u # t
        PROVE  TaskOK(u)'
    <2>1. \A o \in Threads : Owns(o, u) \/ Owns(o, u)' => thread'[o] = thread[o]
      BY <1>1, <1>3, <1>4, NilAssumption DEF Owns, OnlyThread
    <2>2. Quiet(u)
      BY <1>1, <1>2, <1>4, <2>1 DEF Quiet, Saves
    <2> QED
      BY <2>2, QuietTask DEF TasksOK
  <1>5. RecordOK(t)'
    BY <1>1, <1>2, CommitNotNil
       DEF RecordOK, IsTerminal, Terminal, Live, Known, Honest, Endings, Results,
           MayBeCommitted, CommitState
  <1>6. HistoryOK(t)'
    BY <1>1 DEF TasksOK, TaskOK, HistoryOK, MayBeCommitted
  <1>7. \A o \in Threads : Owns(o, t)' => o = me /\ thread'[me].at = "record"
    BY <1>1, <1>3, NilAssumption DEF Owns, OnlyThread
  <1>8. OwnersOK(t)'
    BY <1>1, <1>2, <1>7 DEF OwnersOK, Holds, OtherHolds
  <1>9. TaskOK(t)'
    BY <1>1, <1>2, <1>5, <1>6, <1>8 DEF TaskOK
  <1> QED
    BY <1>4, <1>9 DEF TasksOK

\* The commands of the front end.
LEMMA CommandKeeps ==
    ASSUME RuntimeInv, RuntimeInv', TasksOK, NEW c \in Callers, CallerCommand(c)
    PROVE  TasksOK'
  <1> DEFINE me == Caller(c)
  <1>1. /\ me \in Threads /\ thread \in [Threads -> ThreadState] /\ OnlyThread(me)
    BY Kinds, Context, CommandTyped
  <1>2. thread[me] = Idle => thread[me].at = "idle"
    BY IdleFacts
  <1>3. /\ Wind(me, <<PruneCall>>) => thread'[me].at = "tail"
        /\ \A t \in Tasks : Wind(me, <<PublishCall(t), PruneCall>>) => thread'[me].at = "tail"
    BY <1>1, CallLists, WindFacts
  <1>4. CASE Poll(c)
    BY <1>1, <1>2, <1>3, <1>4, FreeCommand DEF Poll
  <1>5. ASSUME NEW t \in Tasks, StartPreview(c, t)
        PROVE  TasksOK'
    <2>1. CASE /\ RegisterPreview(t) /\ \A th \in Threads : thread[th].task # t
               /\ t \in cancelledBefore => UNCHANGED thread
               /\ t \notin cancelledBefore =>
                     Become(me, [Idle EXCEPT !.at = "record", !.task = t])
      BY <1>5, <2>1, StartKeeps
    <2>2. CASE Observe /\ UNCHANGED thread
      BY <1>1, <1>2, <1>5, <2>2, FreeCommand DEF StartPreview
    <2> QED
      BY <1>5, <2>1, <2>2 DEF StartPreview
  <1>6. ASSUME NEW t \in Tasks, Execute(c, t)
        PROVE  TasksOK'
    <2>1. thread'[me].at \in {"idle", "tail"}
      <3>1. CASE UNCHANGED thread
        BY <1>2, <1>6, <3>1 DEF Execute
      <3>2. CASE ~UNCHANGED thread
        <4> DEFINE s == [Idle EXCEPT !.at = "tail", !.todo = <<PruneCall>>,
                                     !.task = t, !.plan = rec[t].plan_id]
        <4>1. thread'[me] = s
          BY <1>1, <1>6, <3>2 DEF Execute, Become
        <4>2. s.at = "tail"
          BY IdleFacts DEF ThreadState
        <4> HIDE DEF s
        <4> QED
          BY <4>1, <4>2
      <3> QED
        BY <3>1, <3>2
    <2> QED
      BY <1>1, <1>2, <1>6, <2>1, FreeCommand DEF Execute
  <1>7. ASSUME NEW t \in Tasks, CancelTask(c, t)
        PROVE  TasksOK'
    <2>1. thread'[me].at \in {"idle", "tail"}
      BY <1>2, <1>3, <1>7 DEF CancelTask
    <2>2. UNCHANGED <<rec, writer>> \/ Cancel(t)
      BY <1>7 DEF CancelTask, CancelUnknown, registryVars
    <2> QED
      BY <1>1, <1>2, <1>7, <2>1, <2>2, FreeCommand DEF CancelTask
  <1>8. ASSUME NEW p \in Plans, Discard(c, p)
        PROVE  TasksOK'
    <2>1. ASSUME NEW t \in Tasks, Become(me, [Idle EXCEPT !.at = "discard", !.task = t])
          PROVE  thread'[me].at = "discard"
      <3> DEFINE s == [Idle EXCEPT !.at = "discard", !.task = t]
      <3>1. s \in ThreadState /\ s.at = "discard" /\ Become(me, s)
        BY <2>1, CommandState
      <3> HIDE DEF s
      <3> QED
        BY <1>1, <3>1, BecomeFacts
    <2>2. thread'[me].at \in {"idle", "tail", "discard"}
      BY <1>2, <1>3, <1>8, <2>1 DEF Discard
    <2> QED
      BY <1>1, <1>2, <1>8, <2>2, FreeCommand DEF Discard
  <1> QED
    BY <1>4, <1>5, <1>6, <1>7, <1>8 DEF CallerCommand

-----------------------------------------------------------------------------
(* Commands that own a task *)

\* The owner of t moves to a place where it knows no more than it did, while
\* the registry and the file change as for any other task.
LEMMA OwnerMoves ==
    ASSUME RuntimeInv, RuntimeInv', TasksOK, NEW t \in Tasks, NEW th \in Threads,
           Owns(th, t), OnlyThread(th), Owns(th, t)',
           NEW s, thread'[th] = s, Holds(th, t, s),
           \A u \in Tasks : Calm(u) /\ Saves(u), UNCHANGED target
    PROVE  TasksOK'
  <1>1. TaskOK(t) /\ Calm(t) /\ Saves(t) /\ target'[t] = target[t]
    BY DEF TasksOK
  <1>2. RecordOK(t)'
    BY <1>1, RecordKept DEF TaskOK
  <1>3. HistoryOK(t)'
    BY <1>1, <1>2, HistoryKept DEF TaskOK, RuntimeInv
  <1>4. Holds(th, t, thread[th])'
    <2>1. /\ KindOf(th) = "execute" => ExecutorHolds(t, s)'
          /\ KindOf(th) # "execute" => OtherHolds(t, s)'
      BY <1>1, HoldsKept
    <2> QED
      BY <2>1 DEF Holds, ExecutorHolds, OtherHolds, Situated, Honest
  <1>5. target'[t] = "open" => th = Executor(t)
    BY <1>1, Kinds DEF TaskOK, OwnersOK
  <1>6. thread'[th].task \in {t, Nil}
    BY DEF Owns
  <1> QED
    BY <1>2, <1>3, <1>4, <1>5, <1>6, OwnerStep

\* The owner of t hands it to a worker of t and is done.
LEMMA HandOver ==
    ASSUME RuntimeInv, RuntimeInv', TasksOK, NEW t \in Tasks, NEW th \in Threads,
           KindOf(th) = "caller", Owns(th, t), thread'[th] = Idle,
           NEW w \in {Previewer(t), Executor(t)}, Owns(w, t)',
           \A o \in Threads : o # th /\ o # w => thread'[o] = thread[o],
           NEW s, thread'[w] = s, Holds(w, t, s), target[t] = "clean",
           \A u \in Tasks : Calm(u) /\ Saves(u), UNCHANGED target
    PROVE  TasksOK'
  <1>0. /\ w \in Threads /\ IdOf(w) = t /\ KindOf(w) \in {"preview", "execute"} /\ th # w
        /\ Shape(w, thread[w]) /\ Idle.task = Nil
    BY Kinds, Context, IdleFacts
  <1>1. TaskOK(t) /\ Calm(t) /\ Saves(t) /\ target'[t] = target[t]
    BY DEF TasksOK
  <1>2. thread[w].at \notin Owning
    <2>1. thread[w].at \in Working => thread[w].task = t
      BY <1>0 DEF Shape, PreviewShape, ExecutorShape
    <2>2. thread[w].at \in Owning => Owns(w, t)
      BY <2>1 DEF Owns, Owning
    <2> QED
      BY <1>0, <1>1, <2>2 DEF TaskOK, OwnersOK
  <1>3. ASSUME NEW u \in Tasks, u # t
        PROVE  TaskOK(u)'
    <2>1. \A o \in Threads : Owns(o, u) \/ Owns(o, u)' => thread'[o] = thread[o]
      BY <1>0, <1>2, <1>3, NilAssumption DEF Owns
    <2> QED
      BY <2>1, QuietTask DEF TasksOK, Quiet
  <1>4. RecordOK(t)'
    BY <1>1, RecordKept DEF TaskOK
  <1>5. HistoryOK(t)'
    BY <1>1, <1>4, HistoryKept DEF TaskOK, RuntimeInv
  <1>6. Holds(w, t, thread[w])'
    <2>1. /\ KindOf(w) = "execute" => ExecutorHolds(t, s)'
          /\ KindOf(w) # "execute" => OtherHolds(t, s)'
      BY <1>0, <1>1, HoldsKept
    <2> QED
      BY <2>1 DEF Holds, ExecutorHolds, OtherHolds, Situated, Honest
  <1>7. \A o \in Threads : Owns(o, t)' => o = w
    BY <1>0, <1>1, NilAssumption DEF TaskOK, OwnersOK, Owns
  <1>8. OwnersOK(t)'
    BY <1>6, <1>7 DEF OwnersOK
  <1>9. TaskOK(t)'
    BY <1>0, <1>1, <1>4, <1>5, <1>8 DEF TaskOK
  <1> QED
    BY <1>3, <1>9 DEF TasksOK

\* begin_execution: no thread owns a task with a plan while the slot is free.
LEMMA BeginKeeps ==
    ASSUME RuntimeInv, RuntimeInv', TasksOK, NEW t \in Tasks, NEW input \in Input,
           BeginExecution(t, input), NEW th \in Threads, KindOf(th) = "caller",
           OnlyThread(th), thread[th].at = "begin",
           thread'[th].task = t, thread'[th].at = "recordExecution",
           UNCHANGED <<history, target>>
    PROVE  TasksOK'
  <1>1. /\ \A u \in Tasks : u # t => Calm(u)
        /\ writer = Nil /\ writer' = t
        /\ rec[t].status = "Ready" /\ rec[t].execution = Nil /\ rec[t].plan_id # Nil
        /\ rec'[t].status = "Executing" /\ rec'[t].commit = rec[t].commit
        /\ rec'[t].execution # Nil
    BY BeginTaskFacts
  <1>2. TaskOK(t)
    BY DEF TasksOK
  <1>3. \A o \in Threads : ~Owns(o, t)
    BY <1>1, <1>2, NilAssumption
       DEF TaskOK, OwnersOK, Holds, ExecutorHolds, OtherHolds
  <1>4. target[t] = "clean" /\ rec[t].commit = Nil
    BY <1>1, <1>2 DEF TaskOK, RecordOK, Live, Known, IsTerminal, Terminal
  <1>5. ASSUME NEW u \in Tasks, u # t
        PROVE  TaskOK(u)'
    <2>1. \A o \in Threads : Owns(o, u) \/ Owns(o, u)' => thread'[o] = thread[o]
      BY <1>5, FreePlaces DEF Owns, OnlyThread
    <2> QED
      BY <1>1, <1>5, <2>1, QuietTask DEF TasksOK, Quiet, Saves
  <1>6. RecordOK(t)'
    BY <1>1, <1>4, CommitNotNil
       DEF RecordOK, IsTerminal, Terminal, Live, Known, Honest, MayBeCommitted, CommitState
  <1>7. HistoryOK(t)'
    BY <1>2 DEF TaskOK, HistoryOK, MayBeCommitted
  <1>8. \A o \in Threads : Owns(o, t)' <=> o = th
    BY <1>3 DEF Owns, OnlyThread, Owning, Working, Places
  <1>9. OwnersOK(t)'
    BY <1>1, <1>4, <1>8 DEF OwnersOK, Holds, OtherHolds
  <1>10. TaskOK(t)'
    BY <1>1, <1>4, <1>6, <1>7, <1>8, <1>9 DEF TaskOK
  <1> QED
    BY <1>5, <1>10 DEF TasksOK

\* The owner of t registers a result that is true of its target and is done.
LEMMA OwnerFinishes ==
    ASSUME RuntimeInv, RuntimeInv', TasksOK, NEW t \in Tasks, NEW th \in Threads,
           Owns(th, t), OnlyThread(th), thread'[th].at \notin Owning,
           thread'[th].task = Nil, NEW a, NEW b, <<a, b>> \in Results, FinishTask(t, a, b),
           Honest(b, target[t]), target[t] # "open", UNCHANGED <<history, target>>
    PROVE  TasksOK'
  <1>1. /\ \A u \in Tasks : u # t => Calm(u)
        /\ writer' # t
        /\ \/ ~Live(rec[t]) /\ rec' = rec
           \/ rec'[t] = NoRecord
           \/ rec'[t].status = a /\ rec'[t].commit = b
    BY FinishTaskFacts
  <1>2. RecordOK(t) /\ HistoryOK(t)
    BY DEF TasksOK, TaskOK
  <1>3. RecordOK(t)'
    <2>1. CASE rec' = rec
      BY <1>2, <2>1 DEF RecordOK, MayBeCommitted
    <2>2. CASE rec'[t] = NoRecord
      <3>1. rec'[t].status = "Absent" /\ rec'[t].commit = Nil
        BY <2>2 DEF NoRecord
      <3> QED
        BY <3>1, CommitNotNil
           DEF RecordOK, IsTerminal, Terminal, Live, Known, Honest, CommitState
    <2>3. CASE rec'[t].status = a /\ rec'[t].commit = b
      <3>1. a \in Terminal /\ <<a, b>> \in Endings
        BY DEF Results, Endings, Terminal
      <3> QED
        BY <2>3, <3>1 DEF RecordOK, IsTerminal, Live, Honest
    <2> QED
      BY <1>1, <2>1, <2>2, <2>3
  <1>4. HistoryOK(t)'
    BY <1>2 DEF HistoryOK, MayBeCommitted
  <1>5. ~Owns(th, t)' /\ \A u \in Tasks : Saves(u)
    BY DEF Owns, Saves
  <1> QED
    BY <1>1, <1>3, <1>4, <1>5, OwnerStep

\* A command that is under way.
LEMMA CallerKeeps ==
    ASSUME RuntimeInv, RuntimeInv', TasksOK, NEW c \in Callers, CallerStep(c)
    PROVE  TasksOK'
  <1>0. PICK me : me = Caller(c)
    OBVIOUS
  <1>1. PICK t : t = thread[me].task
    OBVIOUS
  <1>2. /\ me \in Threads /\ KindOf(me) = "caller" /\ thread \in [Threads -> ThreadState]
        /\ thread[me] \in ThreadState /\ Shape(me, thread[me])
    BY <1>0, Kinds, Context
  <1>3. thread[me].at \in Working => t \in Tasks
    BY <1>1, <1>2 DEF Shape
  <1>4. ASSUME NEW place \in Places, Goto(me, place)
        PROVE  OnlyThread(me) /\ thread'[me].at = place /\ thread'[me].task = t
    BY <1>1, <1>2, <1>4, GotoFacts
  <1>5. Become(me, Idle) => OnlyThread(me) /\ thread'[me].at = "idle" /\ thread'[me].task = Nil
    BY <1>2, IdleFacts, BecomeFacts
  <1>6. thread[me].at \in Owning => Owns(me, t) /\ t \in Tasks /\ OtherHolds(t, thread[me])
    BY <1>1, <1>2, <1>3 DEF Owns, Owning, TasksOK, TaskOK, OwnersOK, Holds
  <1>7. {"record", "spawn", "abandon", "recordExecution", "spawnExecution"} \subseteq Owning
    BY DEF Owning, Working, Places
  <1>8. /\ PersistOk => \A u \in Tasks : Calm(u) /\ Saves(u)
        /\ PersistFails => \A u \in Tasks : Calm(u) /\ Saves(u)
    BY ObserveCalm, PersistSaves DEF PersistOk, PersistFails, Saves
  <1>9. CASE RecordPreview(c)
    <2>1. /\ thread[me].at = "record" /\ UNCHANGED target
          /\ \A u \in Tasks : Calm(u) /\ Saves(u)
      BY <1>0, <1>8, <1>9 DEF RecordPreview
    <2>2. PICK place \in {"spawn", "abandon"} : Goto(me, place)
      BY <1>0, <1>9 DEF RecordPreview
    <2>3. OnlyThread(me) /\ thread'[me].at = place /\ thread'[me].task = t
      BY <1>4, <2>2 DEF Places
    <2>4. PICK s : s = thread'[me]
      OBVIOUS
    <2>5. Owns(me, t) /\ t \in Tasks /\ OtherHolds(t, thread[me])
      BY <1>6, <1>7, <2>1
    <2>6. Holds(me, t, s)
      BY <1>2, <2>1, <2>3, <2>4, <2>5 DEF Holds, OtherHolds
    <2>7. Owns(me, t)'
      BY <1>7, <2>3 DEF Owns
    <2> QED
      BY <1>2, <2>1, <2>3, <2>4, <2>5, <2>6, <2>7, OwnerMoves
  <1>10. CASE Abandon(c)
    <2>1. thread[me].at = "abandon" /\ FinishTask(t, "Failed", "None")
          /\ Become(me, Idle) /\ UNCHANGED <<history, target>>
      BY <1>0, <1>1, <1>10 DEF Abandon
    <2>2. Owns(me, t) /\ t \in Tasks /\ target[t] = "clean"
      BY <1>6, <1>7, <2>1 DEF OtherHolds
    <2>3. <<"Failed", "None">> \in Results /\ Honest("None", "clean")
      BY DEF Results, Honest
    <2> QED
      BY <1>2, <1>5, <2>1, <2>2, <2>3, FreePlaces, OwnerFinishes
  <1>11. CASE SpawnPreview(c)
    <2>1. /\ t \in Tasks /\ Publish(t)
          /\ thread'[me] = Idle
          /\ thread'[Previewer(t)].at = "emit"
          /\ thread'[Previewer(t)].task = t
          /\ \A o \in Threads : o # me /\ o # Previewer(t) => thread'[o] = thread[o]
      BY <1>0, <1>1, <1>11, SpawnPreviewMoves
    <2>2. thread[me].at = "spawn" /\ UNCHANGED target
      BY <1>0, <1>11 DEF SpawnPreview
    <2>3. Owns(me, t) /\ OtherHolds(t, thread[me])
      BY <1>6, <1>7, <2>2
    <2>4. PICK s : s = thread'[Previewer(t)]
      OBVIOUS
    <2>5. Holds(Previewer(t), t, s) /\ target[t] = "clean"
      BY <2>1, <2>2, <2>3, <2>4, Kinds DEF Holds, OtherHolds
    <2>6. Owns(Previewer(t), t)'
      BY <2>1 DEF Owns, Owning, Working, Places
    <2> QED
      BY <1>2, <2>1, <2>2, <2>3, <2>4, <2>5, <2>6, PublishCalm, PublishSaves, HandOver
  <1>12. CASE LookupPlan(c)
    <2>1. /\ thread[me].at = "lookup" /\ UNCHANGED <<rec, writer, history, target>>
          /\ OnlyThread(me) /\ thread'[me].at \in {"idle", "begin"}
      BY <1>0, <1>4, <1>5, <1>12 DEF LookupPlan, registryVars, Places
    <2> QED
      BY <1>0, <2>1, FreeCommand
  <1>13. CASE BeginTask(c)
    <2>1. thread[me].at = "begin" /\ UNCHANGED <<history, target>>
      BY <1>0, <1>13 DEF BeginTask
    <2>2. t \in Tasks /\ thread[me].plan \in Plans
      BY <1>1, <1>2, <2>1 DEF Shape, CallerShape, Working, Places
    <2>3. InputOf(t, thread[me].plan) \in Input
      BY <2>2, RuntimeAssumption DEF InputOf, Input
    <2>4. CASE BeginExecution(t, InputOf(t, thread[me].plan)) /\ Goto(me, "recordExecution")
      <3>1. /\ OnlyThread(me) /\ thread'[me].at = "recordExecution"
            /\ thread'[me].task = t
        BY <1>4, <2>4 DEF Places
      <3> QED
        BY <1>2, <2>1, <2>2, <2>3, <2>4, <3>1, BeginKeeps
    <2>5. CASE (Observe \/ UNCHANGED registryVars) /\ Become(me, Idle)
      BY <1>0, <1>5, <2>1, <2>5, FreeCommand DEF registryVars
    <2> QED
      BY <1>0, <1>1, <1>13, <2>4, <2>5 DEF BeginTask
  <1>14. CASE RecordExecution(c)
    <2>1. thread[me].at = "recordExecution" /\ UNCHANGED target
      BY <1>0, <1>14 DEF RecordExecution
    <2>2. Owns(me, t) /\ t \in Tasks /\ target[t] = "clean" /\ writer = t
      BY <1>6, <1>7, <2>1 DEF OtherHolds
    <2>3. CASE PersistOk /\ Goto(me, "spawnExecution")
      <3>1. OnlyThread(me) /\ thread'[me].at = "spawnExecution" /\ thread'[me].task = t
        BY <1>4, <2>3 DEF Places
      <3>2. \A u \in Tasks : Calm(u) /\ Saves(u)
        BY <1>8, <2>3
      <3>3. writer' = t /\ target'[t] = "clean"
        BY <2>1, <2>2, <3>2 DEF Calm
      <3>4. Live(rec'[t]) /\ rec'[t].execution_id # Nil
        BY <2>2, <3>3, NextWriterRuns DEF RuntimeInv
      <3>5. Unsettled(t)'
        BY <2>2, <2>3, <3>4, PersistOkFacts DEF Unsettled, NoTask, Summary, Live
      <3>6. RecordOK(t)'
        BY <2>1, <2>2, <3>2, RecordKept DEF TasksOK, TaskOK
      <3>7. HistoryOK(t)'
        BY <2>1, <2>2, <3>2, <3>6, HistoryKept DEF TasksOK, TaskOK, RuntimeInv
      <3>8. Owns(me, t)' /\ Holds(me, t, thread[me])'
        BY <1>2, <1>7, <3>1, <3>3, <3>5 DEF Owns, Holds, OtherHolds
      <3> QED
        BY <1>2, <2>1, <2>2, <3>1, <3>2, <3>3, <3>6, <3>7, <3>8, OwnerStep
    <2>4. CASE PersistFails /\ Goto(me, "abandon")
      <3>1. OnlyThread(me) /\ thread'[me].at = "abandon" /\ thread'[me].task = t
        BY <1>4, <2>4 DEF Places
      <3>2. PICK s : s = thread'[me]
        OBVIOUS
      <3>3. Holds(me, t, s)
        BY <1>2, <2>2, <3>1, <3>2 DEF Holds, OtherHolds
      <3>4. Owns(me, t)'
        BY <1>7, <3>1 DEF Owns
      <3> QED
        BY <1>2, <1>8, <2>1, <2>2, <2>4, <3>1, <3>2, <3>3, <3>4, OwnerMoves
    <2> QED
      BY <1>0, <1>14, <2>3, <2>4 DEF RecordExecution
  <1>15. CASE SpawnExecution(c)
    <2>1. /\ t \in Tasks /\ Publish(t)
          /\ thread'[me] = Idle
          /\ thread'[Executor(t)].at = "preflight"
          /\ thread'[Executor(t)].task = t
          /\ \A o \in Threads : o # me /\ o # Executor(t) => thread'[o] = thread[o]
      BY <1>0, <1>1, <1>15, SpawnExecutionMoves
    <2>2. thread[me].at = "spawnExecution" /\ UNCHANGED target
      BY <1>0, <1>15 DEF SpawnExecution
    <2>3. Owns(me, t) /\ OtherHolds(t, thread[me])
      BY <1>6, <1>7, <2>2
    <2>4. PICK s : s = thread'[Executor(t)]
      OBVIOUS
    <2>5. Holds(Executor(t), t, s) /\ target[t] = "clean"
      BY <2>1, <2>2, <2>3, <2>4, Kinds DEF Holds, OtherHolds, ExecutorHolds, Situated
    <2>6. Owns(Executor(t), t)'
      BY <2>1 DEF Owns, Owning, Working, Places
    <2> QED
      BY <1>2, <2>1, <2>2, <2>3, <2>4, <2>5, <2>6, PublishCalm, PublishSaves, HandOver
  <1>16. CASE DiscardCancels(c)
    <2>1. thread[me].at = "discard" /\ UNCHANGED <<history, target>> /\ t \in Tasks
      BY <1>0, <1>3, <1>16 DEF DiscardCancels, Working, Places
    <2>2. OnlyThread(me) /\ thread'[me].at \in {"idle", "tail"}
      BY <1>0, <1>1, <1>2, <1>5, <1>16, <2>1, CallLists, WindFacts DEF DiscardCancels
    <2>3. UNCHANGED <<rec, writer>> \/ Cancel(t)
      BY <1>0, <1>1, <1>16 DEF DiscardCancels, CancelUnknown, registryVars
    <2> QED
      BY <1>0, <2>1, <2>2, <2>3, FreeCommand
  <1>17. CASE TailStep(me)
    BY <1>2, <1>17, TailKeeps
  <1> QED
    BY <1>0, <1>9, <1>10, <1>11, <1>12, <1>13, <1>14, <1>15, <1>16, <1>17 DEF CallerStep

-----------------------------------------------------------------------------
(* The preview worker: it owns its task and writes nothing *)

\* A step of a preview worker disturbs no other task.
LEMMA PreviewerKeeps ==
    ASSUME RuntimeInv, RuntimeInv', TasksOK, NEW t \in Tasks, PreviewerStep(t)
    PROVE  TasksOK'
  <1>0. PICK th : th = Previewer(t)
    OBVIOUS
  <1>1. /\ th \in Threads /\ KindOf(th) = "preview" /\ IdOf(th) = t
        /\ thread \in [Threads -> ThreadState] /\ thread[th] \in ThreadState
        /\ PreviewShape(t, thread[th]) /\ OnlyThread(th)
    BY <1>0, Kinds, Context, PreviewerTyped DEF Shape
  <1>2. thread'[th].at \in PreviewPlaces /\ (thread'[th].at \in Working => thread'[th].task = t)
    BY <1>1 DEF RuntimeInv, ThreadsOK, Shape, PreviewShape
  <1>3. PreviewPlaces \cap Owning = PreviewPlaces \ {"idle", "tail"}
    BY DEF PreviewPlaces, Owning, Working, Places
  <1>4. ASSUME thread[th].at \notin {"idle", "tail"}
        PROVE  /\ Owns(th, t) /\ thread[th].task = t /\ target[t] = "clean"
               /\ rec[t].execution = Nil /\ rec[t].plan_id = Nil
    <2>1. Owns(th, t)
      BY <1>1, <1>3, <1>4 DEF PreviewShape, Owns, Owning
    <2>2. OtherHolds(t, thread[th])
      BY <1>1, <2>1 DEF TasksOK, TaskOK, OwnersOK, Holds
    <2>3. thread[th].at \in PreviewPlaces
      BY <1>1 DEF PreviewShape
    <2> QED
      BY <2>1, <2>2, <2>3 DEF OtherHolds, PreviewPlaces, Owns
  <1>5. ASSUME thread'[th].at \notin {"idle", "tail"}
        PROVE  Owns(th, t)'
    BY <1>2, <1>3, <1>5 DEF Owns, Owning
  <1>6. ASSUME thread[th].at \notin {"idle", "tail"}, thread'[th].at \notin {"idle", "tail"},
               \A u \in Tasks : Calm(u) /\ Saves(u), UNCHANGED target
        PROVE  TasksOK'
    <2>1. PICK s : s = thread'[th]
      OBVIOUS
    <2>2. Holds(th, t, s)
      BY <1>1, <1>2, <1>4, <1>6, <2>1 DEF Holds, OtherHolds, PreviewPlaces
    <2> QED
      BY <1>1, <1>4, <1>5, <1>6, <2>1, <2>2, OwnerMoves
  <1>7. UNCHANGED registryVars /\ UNCHANGED history => \A u \in Tasks : Calm(u) /\ Saves(u)
    BY SameCalm DEF registryVars, Saves
  <1>8. \A place \in Places : Goto(th, place) => thread'[th].at = place
    BY <1>1, GotoFacts
  <1>9. CASE Emit(th)
    <2>1. /\ Progress(t, thread[th].stage) /\ thread'[th].at = "journal"
          /\ thread[th].at = "emit" /\ UNCHANGED <<history, target>>
      BY <1>4, <1>8, <1>9 DEF Emit, Places
    <2>2. thread[th].stage \in Reported
      BY <1>1, <2>1 DEF PreviewShape, Working, Places, PreviewStages, Reported, PreviewPhases
    <2>3. /\ \A u \in Tasks : u # t => Calm(u)
          /\ writer' = writer
          /\ SameIds(rec'[t], rec[t])
          /\ rec'[t].commit = rec[t].commit
          /\ rec'[t].status = IF ProgressApplies(rec[t], thread[th].stage)
                              THEN thread[th].stage ELSE rec[t].status
      BY <2>1, <2>2, ProgressTask
    <2>4. /\ Owns(th, t) /\ target[t] = "clean" /\ rec[t].execution = Nil
          /\ rec[t].plan_id = Nil /\ RecordOK(t) /\ HistoryOK(t)
      BY <1>4, <2>1 DEF TasksOK, TaskOK
    <2>5. RecordOK(t)'
      BY <2>1, <2>3, <2>4
         DEF RecordOK, IsTerminal, Live, Known, ProgressApplies, MayBeCommitted
    <2>6. HistoryOK(t)'
      BY <2>1, <2>4 DEF HistoryOK, MayBeCommitted
    <2>7. Owns(th, t)' /\ thread'[th].task = t
      BY <1>5, <2>1 DEF Owns
    <2>8. Holds(th, t, thread[th])'
      BY <1>1, <2>1, <2>3, <2>4 DEF Holds, OtherHolds, SameIds
    <2>9. \A u \in Tasks : u # t => Calm(u) /\ Saves(u) /\ target'[u] = target[u]
      BY <2>1, <2>3 DEF Saves
    <2> QED
      BY <1>1, <2>1, <2>4, <2>5, <2>6, <2>7, <2>8, <2>9, OwnerStep
  <1>10. CASE Journal(th)
    <2>1. thread[th].at = "journal" /\ thread'[th].at = "work" /\ UNCHANGED target
      BY <1>8, <1>10 DEF Journal, Places
    <2>2. \A u \in Tasks : Calm(u) /\ Saves(u)
      BY <1>4, <1>10, <2>1, ObserveCalm, PersistSaves, RaiseCalm
         DEF Journal, PersistOk, PersistFails, Saves
    <2> QED
      BY <1>6, <2>1, <2>2
  <1>11. CASE PreviewWork(t)
    <2> DEFINE stage == NextPreviewStage(thread[th].stage)
    <2>1. thread[th].at = "work" /\ UNCHANGED <<registryVars, history, target>>
      BY <1>0, <1>11 DEF PreviewWork
    <2>2. thread' = [thread EXCEPT ![th].at = "emit", ![th].stage = stage]
      BY <1>0, <1>1, <1>11 DEF PreviewWork
    <2> HIDE DEF stage
    <2>3. thread'[th].at = "emit"
      BY <1>1, <2>2 DEF ThreadState
    <2> QED
      BY <1>6, <1>7, <2>1, <2>3
  <1>12. CASE BuildPlan(t)
    <2>1. thread[th].at = "work" /\ UNCHANGED <<registryVars, history, target>>
      BY <1>0, <1>12 DEF BuildPlan
    <2> DEFINE d == now + PreviewLife
    <2>2. PICK p : thread' = [thread EXCEPT ![th].at = "emit", ![th].stage = "Ready",
                                            ![th].plan = p, ![th].deadline = d]
      BY <1>0, <1>12 DEF BuildPlan
    <2> HIDE DEF d
    <2>3. thread'[th].at = "emit"
      BY <1>1, <2>2 DEF ThreadState
    <2> QED
      BY <1>6, <1>7, <2>1, <2>3
  <1>13. CASE InsertPlan(t)
    BY <1>0, <1>6, <1>7, <1>8, <1>13 DEF InsertPlan, Places
  <1>14. CASE PublishPlan(t)
    <2>1. thread[th].at = "publish" /\ UNCHANGED <<history, target>>
      BY <1>0, <1>14 DEF PublishPlan
    <2>2. /\ Owns(th, t) /\ target[t] = "clean" /\ rec[t].execution = Nil
          /\ rec[t].plan_id = Nil /\ RecordOK(t) /\ HistoryOK(t)
      BY <1>4, <2>1 DEF TasksOK, TaskOK
    <2>3. CASE /\ SetReady(t, thread[th].plan, thread[th].deadline)
               /\ Wind(th, <<PublishCall(t), PruneCall>>)
      <3>1. thread'[th].at = "tail" /\ thread'[th].task = Nil
        BY <1>1, <2>3, CallLists, WindFacts
      <3>2. thread[th].plan \in Plans
        BY <1>1, <2>1 DEF PreviewShape, Working, Places
      <3>3. /\ \A u \in Tasks : u # t => Calm(u)
            /\ writer' = writer /\ Live(rec[t])
            /\ rec'[t].status = "Ready" /\ rec'[t].commit = rec[t].commit
        BY <2>3, <3>2, SetReadyTask
      <3>4. writer' # t
        BY <2>2, <3>3 DEF RuntimeInv, RegistryInv, WriterOwns
      <3>5. RecordOK(t)'
        BY <2>1, <2>2, <3>3 DEF RecordOK, IsTerminal, Terminal, Live, MayBeCommitted
      <3>6. HistoryOK(t)'
        BY <2>1, <2>2 DEF HistoryOK, MayBeCommitted
      <3>7. ~Owns(th, t)'
        BY <3>1, FreePlaces DEF Owns
      <3>8. \A u \in Tasks : u # t => Calm(u) /\ Saves(u) /\ target'[u] = target[u]
        BY <2>1, <3>3 DEF Saves
      <3> QED
        BY <1>1, <2>1, <2>2, <3>1, <3>4, <3>5, <3>6, <3>7, <3>8, OwnerStep
    <2>4. CASE UNCHANGED registryVars /\ Goto(th, "withdraw")
      BY <1>6, <1>7, <1>8, <2>1, <2>4 DEF Places
    <2> QED
      BY <1>0, <1>14, <2>3, <2>4 DEF PublishPlan
  <1>15. \A a, b : Conclude(th, a, b) => thread'[th].at = "finish"
    BY <1>1 DEF Conclude, ThreadState
  <1>16. CASE WithdrawPlan(t)
    BY <1>0, <1>6, <1>7, <1>15, <1>16 DEF WithdrawPlan
  <1>17. CASE PreviewFails(t)
    BY <1>0, <1>6, <1>7, <1>15, <1>17 DEF PreviewFails
  <1>18. CASE FinishPreview(t)
    <2>1. thread[th].at = "finish" /\ UNCHANGED <<history, target>>
      BY <1>0, <1>18 DEF FinishPreview
    <2>2. PICK a \in {"Failed", "Cancelled"} : thread[th].result = <<a, "None">>
      BY <1>1, <2>1 DEF PreviewShape
    <2>3. FinishTask(t, a, "None") /\ <<a, "None">> \in Results /\ Honest("None", "clean")
      BY <1>0, <1>18, <2>2 DEF FinishPreview, Results, Honest
    <2>4. thread'[th].at = "tail" /\ thread'[th].task = Nil
      BY <1>0, <1>1, <1>18, CallLists, WindFacts DEF FinishPreview
    <2>5. Owns(th, t) /\ target[t] = "clean"
      BY <1>4, <2>1
    <2> QED
      BY <1>1, <2>1, <2>3, <2>4, <2>5, FreePlaces, OwnerFinishes
  <1>19. CASE TailStep(th)
    BY <1>1, <1>19, TailKeeps
  <1> QED
    BY <1>0, <1>9, <1>10, <1>11, <1>12, <1>13, <1>14, <1>16, <1>17, <1>18, <1>19
       DEF PreviewerStep

-----------------------------------------------------------------------------
(* The execution worker: it knows its target *)

\* The execution worker moves on, perhaps with a call to the database; registry
\* and file stay.
LEMMA ExecutorMoves ==
    ASSUME RuntimeInv, RuntimeInv', TasksOK, NEW t \in Tasks, NEW th \in Threads,
           th = Executor(t), Owns(th, t), OnlyThread(th), Owns(th, t)',
           NEW s, thread'[th] = s, Situated(s, target'[t], rec[t].status),
           \A u \in Tasks : u # t => target'[u] = target[u],
           MayBeCommitted(t)' => rec[t].status = "Committing",
           UNCHANGED <<rec, writer, history>>
    PROVE  TasksOK'
  <1>1. KindOf(th) = "execute"
    BY Kinds
  <1>2. writer = t /\ Unsettled(t)
    BY <1>1 DEF TasksOK, TaskOK, OwnersOK, Holds, ExecutorHolds
  <1>3. Live(rec[t]) /\ rec[t].execution # Nil
    BY <1>2, WriterRuns DEF RuntimeInv
  <1>4. RecordOK(t)'
    <2>1. rec[t].commit = Nil /\ ~IsTerminal(rec[t])
      BY <1>3 DEF TasksOK, TaskOK, RecordOK, Live
    <2> QED
      BY <1>3, <2>1, CommitNotNil DEF RecordOK, Honest, CommitState, MayBeCommitted
  <1>5. HistoryOK(t)' /\ Unsettled(t)'
    BY <1>2 DEF Unsettled, HistoryOK, Terminal
  <1>6. Holds(th, t, thread[th])'
    BY <1>1, <1>2, <1>5 DEF Holds, ExecutorHolds, Situated, Honest
  <1>7. \A u \in Tasks : u # t => Calm(u) /\ Saves(u) /\ target'[u] = target[u]
    BY SameCalm DEF Saves
  <1>8. thread'[th].task \in {t, Nil}
    BY DEF Owns
  <1> QED
    BY <1>4, <1>5, <1>6, <1>7, <1>8, OwnerStep

\* The worker reports its stage: Committing is registered before the COMMIT can
\* be sent, or the task shows Cancelling.
LEMMA ExecutorEmits ==
    ASSUME RuntimeInv, RuntimeInv', TasksOK, NEW t \in Tasks, NEW th \in Threads,
           th = Executor(t), Owns(th, t), OnlyThread(th), Owns(th, t)',
           thread[th].at = "emit", thread[th].stage \in ExecutionStages,
           thread'[th].at = "journal", thread'[th].stage = thread[th].stage,
           Progress(t, thread[th].stage), UNCHANGED <<history, target>>
    PROVE  TasksOK'
  <1> DEFINE stage == thread[th].stage
  <1>1. KindOf(th) = "execute" /\ stage \in Reported
    BY Kinds DEF ExecutionStages, Reported, PreviewPhases, ExecutionPhases
  <1>2. writer = t /\ Unsettled(t) /\ Situated(thread[th], target[t], rec[t].status)
    BY <1>1 DEF TasksOK, TaskOK, OwnersOK, Holds, ExecutorHolds
  <1>3. Live(rec[t]) /\ rec[t].execution # Nil /\ rec[t].commit = Nil
        /\ rec[t].status \in ExecutionPhases \cup {"Cancelling"}
    BY <1>2, WriterRuns DEF RuntimeInv, TasksOK, TaskOK, RecordOK, Live
  <1>4. /\ \A u \in Tasks : u # t => Calm(u)
        /\ writer' = writer
        /\ SameIds(rec'[t], rec[t])
        /\ rec'[t].commit = rec[t].commit
        /\ rec'[t].status = IF ProgressApplies(rec[t], stage) THEN stage ELSE rec[t].status
    BY <1>1, ProgressTask
  <1>5. target[t] = IF stage = "Succeeded" THEN "committed" ELSE "open"
    BY <1>2 DEF Situated
  <1>6. stage = "Committing" => rec'[t].status \in {"Committing", "Cancelling"}
    <2> SUFFICES ASSUME stage = "Committing", rec[t].status # "Cancelling"
                 PROVE  ProgressApplies(rec[t], stage)
      BY <1>4
    <2>1. rec[t].status \in ExecutionPhases
      BY <1>3
    <2>2. Phase(stage) = 7 /\ Phase(rec[t].status) \in 5 .. 7
      BY <2>1, PhaseOrder DEF Phase
    <2> QED
      BY <1>3, <2>2 DEF ProgressApplies, Terminal
  <1>7. stage = "Succeeded" => rec'[t].status = rec[t].status
    BY <1>4 DEF ProgressApplies, Terminal
  <1> HIDE DEF stage
  <1>8. rec'[t].status \notin Terminal /\ Live(rec'[t])
    <2>1. rec'[t].status \in ExecutionPhases \cup {"Cancelling"}
                             \cup (ExecutionStages \ {"Succeeded"})
      BY <1>3, <1>4, <1>7 DEF stage
    <2> QED
      BY <2>1 DEF ExecutionPhases, ExecutionStages, Terminal, Live, Known, IsTerminal
  <1>9. RecordOK(t)'
    <2>1. MayBeCommitted(t)' => rec'[t].status = "Committing"
      BY <1>3, <1>5, <1>7 DEF TasksOK, TaskOK, RecordOK, MayBeCommitted
    <2> QED
      BY <1>3, <1>4, <1>8, <2>1, CommitNotNil
         DEF RecordOK, IsTerminal, Honest, CommitState, SameIds
  <1>10. HistoryOK(t)' /\ Unsettled(t)'
    BY <1>2 DEF Unsettled, HistoryOK, Terminal
  <1>11. Situated(thread'[th], target'[t], rec'[t].status)
    BY <1>5, <1>6 DEF Situated, stage
  <1>12. Holds(th, t, thread[th])'
    BY <1>1, <1>2, <1>4, <1>10, <1>11 DEF Holds, ExecutorHolds, Situated, Honest
  <1>13. \A u \in Tasks : u # t => Calm(u) /\ Saves(u) /\ target'[u] = target[u]
    BY <1>4 DEF Saves
  <1>14. thread'[th].task \in {t, Nil}
    BY DEF Owns
  <1> QED
    BY <1>9, <1>10, <1>12, <1>13, <1>14, OwnerStep

\* The execution worker.
LEMMA ExecutorKeeps ==
    ASSUME RuntimeInv, RuntimeInv', TasksOK, NEW t \in Tasks, ExecutorStep(t)
    PROVE  TasksOK'
  <1>0. PICK th : th = Executor(t)
    OBVIOUS
  <1>1. /\ th \in Threads /\ KindOf(th) = "execute" /\ IdOf(th) = t
        /\ thread \in [Threads -> ThreadState] /\ thread[th] \in ThreadState
        /\ ExecutorShape(t, thread[th]) /\ OnlyThread(th)
        /\ target \in [Tasks -> {"clean", "open", "lost", "inflight", "committed"}]
    BY <1>0, Kinds, Context, ExecutorTyped DEF Shape
  <1>2. /\ thread'[th].at \in ExecutorPlaces
        /\ thread'[th].at \in Working => thread'[th].task = t
    BY <1>1 DEF RuntimeInv, ThreadsOK, Shape, ExecutorShape
  <1>3. ExecutorPlaces \cap Owning = ExecutorPlaces \ {"idle", "tail"}
    BY DEF ExecutorPlaces, Owning, Working, Places
  <1>4. ASSUME thread[th].at \notin {"idle", "tail"}
        PROVE  /\ Owns(th, t) /\ thread[th].task = t /\ writer = t
               /\ Situated(thread[th], target[t], rec[t].status)
               /\ MayBeCommitted(t) => rec[t].status = "Committing"
    <2>1. Owns(th, t)
      BY <1>1, <1>3, <1>4 DEF ExecutorShape, Owns, Owning
    <2>2. ExecutorHolds(t, thread[th])
      BY <1>1, <2>1 DEF TasksOK, TaskOK, OwnersOK, Holds
    <2>3. Live(rec[t])
      BY <2>2, WriterRuns DEF RuntimeInv, ExecutorHolds
    <2> QED
      BY <2>1, <2>2, <2>3 DEF ExecutorHolds, Owns, TasksOK, TaskOK, RecordOK
  <1>5. ASSUME thread'[th].at \notin {"idle", "tail"}
        PROVE  Owns(th, t)'
    BY <1>2, <1>3, <1>5 DEF Owns, Owning
  <1>6. ASSUME thread[th].at \notin {"idle", "tail"}, thread'[th].at \notin {"idle", "tail"},
               UNCHANGED <<registryVars, history>>,
               NEW v, target' = [target EXCEPT ![t] = v],
               Situated(thread'[th], v, rec[t].status),
               v \in {"inflight", "committed"} => rec[t].status = "Committing"
        PROVE  TasksOK'
    <2>1. target'[t] = v /\ \A u \in Tasks : u # t => target'[u] = target[u]
      BY <1>1, <1>6
    <2>2. PICK s : s = thread'[th]
      OBVIOUS
    <2>3. Situated(s, target'[t], rec[t].status)
      BY <1>6, <2>1, <2>2
    <2>4. MayBeCommitted(t)' => rec[t].status = "Committing"
      BY <1>6, <2>1 DEF MayBeCommitted
    <2>5. UNCHANGED <<rec, writer, history>>
      BY <1>6 DEF registryVars
    <2> QED
      BY <1>0, <1>1, <1>4, <1>5, <1>6, <2>1, <2>2, <2>3, <2>4, <2>5, ExecutorMoves
  <1>7. ASSUME thread[th].at \notin {"idle", "tail"}, thread'[th].at \notin {"idle", "tail"},
               UNCHANGED <<registryVars, history, target>>,
               Situated(thread'[th], target[t], rec[t].status)
        PROVE  TasksOK'
    <2>1. PICK v : v = target[t]
      OBVIOUS
    <2>2. target' = [target EXCEPT ![t] = v]
      BY <1>1, <1>7, <2>1
    <2>3. v \in {"inflight", "committed"} => rec[t].status = "Committing"
      BY <1>4, <1>7, <2>1 DEF MayBeCommitted
    <2> QED
      BY <1>6, <1>7, <2>1, <2>2, <2>3
  <1>8. ASSUME NEW place \in Places, Goto(th, place)
        PROVE  /\ thread'[th].at = place /\ thread'[th].stage = thread[th].stage
               /\ thread'[th].result = thread[th].result
    BY <1>1, <1>8, GotoFacts
  <1>9. ASSUME NEW a, NEW b, <<a, b>> \in Results, Conclude(th, a, b)
        PROVE  thread'[th].at = "finish" /\ thread'[th].result[2] = b
    <2>1. thread'[th].at = "finish" /\ thread'[th].result = <<a, b>>
      BY <1>1, <1>9, ConcludeFacts
    <2> QED
      BY <2>1
  <1>10. /\ FailureStatus(t) \in {"Failed", "Cancelled"}
         /\ \A f \in {"Failed", "Cancelled"} :
               <<f, "None">> \in Results /\ <<f, "RolledBack">> \in Results
         /\ <<"OutcomeUnknown", "Unknown">> \in Results
    BY DEF FailureStatus, Results
  <1>11. CASE Preflight(t)
    <2>1. thread[th].at = "preflight" /\ UNCHANGED <<registryVars, history, target>>
      BY <1>0, <1>11 DEF Preflight, ExecutorAt
    <2>2. target[t] = "clean"
      BY <1>4, <2>1 DEF Situated
    <2>3. \/ thread'[th].at = "open"
          \/ thread'[th].at = "finish" /\ thread'[th].result[2] = "None"
      BY <1>0, <1>8, <1>9, <1>10, <1>11 DEF Preflight, Places
    <2>4. Situated(thread'[th], target[t], rec[t].status)
      BY <2>2, <2>3 DEF Situated, Honest
    <2> QED
      BY <1>7, <2>1, <2>3, <2>4
  <1>12. CASE OpenTransaction(t)
    <2>1. thread[th].at = "open" /\ UNCHANGED <<registryVars, history>>
      BY <1>0, <1>12 DEF OpenTransaction, ExecutorAt
    <2>2. target[t] = "clean"
      BY <1>4, <2>1 DEF Situated
    <2>3. CASE target' = [target EXCEPT ![t] = "open"]
               /\ (Goto(th, "check") \/ Goto(th, "rollback"))
      <3>1. thread'[th].at \in {"check", "rollback"}
        BY <1>8, <2>3 DEF Places
      <3>2. Situated(thread'[th], "open", rec[t].status)
        BY <3>1 DEF Situated
      <3> QED
        BY <1>6, <2>1, <2>3, <3>1, <3>2
    <2>4. CASE UNCHANGED target /\ Conclude(th, FailureStatus(t), "None")
      <3>1. thread'[th].at = "finish" /\ thread'[th].result[2] = "None"
        BY <1>9, <1>10, <2>4
      <3>2. Situated(thread'[th], target[t], rec[t].status)
        BY <2>2, <3>1 DEF Situated, Honest
      <3> QED
        BY <1>7, <2>1, <2>4, <3>1, <3>2
    <2>5. CASE target' = [target EXCEPT ![t] = "lost"] /\ Conclude(th, "Failed", "None")
      <3>1. thread'[th].at = "finish" /\ thread'[th].result[2] = "None"
        BY <1>9, <1>10, <2>5
      <3>2. Situated(thread'[th], "lost", rec[t].status)
        BY <3>1 DEF Situated, Honest
      <3> QED
        BY <1>6, <2>1, <2>5, <3>1, <3>2
    <2> QED
      BY <1>0, <1>12, <2>3, <2>4, <2>5 DEF OpenTransaction
  <1>13. ASSUME InTransaction(t)
         PROVE  /\ thread[th].at \in {"check", "work"} /\ target[t] = "open"
                /\ thread[th].at = "work" => thread[th].stage \in {"Reading", "Executing", "Verifying"}
    <2>1. /\ thread[th].at \in {"check", "work"}
          /\ thread[th].at = "work" => thread[th].stage \in {"Reading", "Executing", "Verifying"}
      BY <1>0, <1>13 DEF InTransaction, ExecutorAt
    <2>2. Situated(thread[th], target[t], rec[t].status)
      BY <1>4, <2>1
    <2> QED
      BY <2>1, <2>2 DEF Situated
  <1>14. CASE TransactionWork(t)
    <2> DEFINE stage == ExecutionStage(t)
    <2>1. /\ thread[th].at \in {"check", "work"} /\ target[t] = "open"
          /\ UNCHANGED <<registryVars, history, target>>
      BY <1>13, <1>14 DEF TransactionWork
    <2>2. stage # "Succeeded"
      BY <1>0, <1>14 DEF TransactionWork, InTransaction, ExecutorAt, ExecutionStage
    <2>3. thread' = [thread EXCEPT ![th].at = "emit", ![th].stage = stage]
      BY <1>0, <1>14 DEF TransactionWork
    <2> HIDE DEF stage
    <2>4. thread'[th].at = "emit" /\ thread'[th].stage = stage
      BY <1>1, <2>3 DEF ThreadState
    <2>5. Situated(thread'[th], target[t], rec[t].status)
      BY <2>1, <2>2, <2>4 DEF Situated
    <2> QED
      BY <1>7, <2>1, <2>4, <2>5
  <1>15. CASE TransactionFails(t)
    <2>1. /\ thread[th].at \in {"check", "work"} /\ target[t] = "open"
          /\ UNCHANGED <<registryVars, history, target>>
      BY <1>13, <1>15 DEF TransactionFails
    <2>2. thread'[th].at = "rollback"
      BY <1>0, <1>8, <1>15 DEF TransactionFails, Places
    <2>3. Situated(thread'[th], target[t], rec[t].status)
      BY <2>1, <2>2 DEF Situated
    <2> QED
      BY <1>7, <2>1, <2>2, <2>3
  <1>16. CASE SendCommit(t)
    <2>1. /\ thread[th].at = "work" /\ thread[th].stage = "Committing"
          /\ UNCHANGED <<registryVars, history>>
      BY <1>0, <1>16 DEF SendCommit, ExecutorAt
    <2>2. target[t] = "open" /\ rec[t].status \in {"Committing", "Cancelling"}
      BY <1>4, <2>1 DEF Situated
    <2>3. CASE CancelSeen(t)
      <3>1. thread'[th].at = "rollback" /\ UNCHANGED target
        BY <1>0, <1>8, <1>16, <2>3 DEF SendCommit, Places
      <3>2. Situated(thread'[th], target[t], rec[t].status)
        BY <2>2, <3>1 DEF Situated
      <3> QED
        BY <1>7, <2>1, <3>1, <3>2
    <2>4. CASE ~CancelSeen(t)
      <3>1. thread'[th].at = "commit" /\ target' = [target EXCEPT ![t] = "inflight"]
        BY <1>0, <1>8, <1>16, <2>4 DEF SendCommit, Places
      <3>2. Situated(thread'[th], "inflight", rec[t].status)
        BY <3>1 DEF Situated
      <3>3. rec[t].status = "Committing"
        BY <2>2, <2>4 DEF CancelSeen, RuntimeInv, RecordsSound, Sound
      <3> QED
        BY <1>6, <2>1, <3>1, <3>2, <3>3
    <2> QED
      BY <2>3, <2>4
  <1>17. CASE CommitConfirmed(t)
    <2> DEFINE res == <<"Succeeded", "Committed">>
    <2>1. /\ thread[th].at = "commit" /\ target[t] = "committed"
          /\ UNCHANGED <<registryVars, history, target>>
      BY <1>0, <1>17 DEF CommitConfirmed, ExecutorAt
    <2>2. thread' = [thread EXCEPT ![th].at = "emit", ![th].stage = "Succeeded",
                                   ![th].result = res]
      BY <1>0, <1>17 DEF CommitConfirmed
    <2> HIDE DEF res
    <2>3. thread'[th].at = "emit" /\ thread'[th].stage = "Succeeded"
      BY <1>1, <2>2 DEF ThreadState
    <2>4. Situated(thread'[th], target[t], rec[t].status)
      BY <2>1, <2>3 DEF Situated
    <2> QED
      BY <1>7, <2>1, <2>3, <2>4
  <1>18. CASE CommitUnconfirmed(t)
    <2>1. thread[th].at = "commit" /\ UNCHANGED <<registryVars, history>>
      BY <1>0, <1>18 DEF CommitUnconfirmed, ExecutorAt
    <2>2. target[t] # "open"
      BY <1>4, <2>1 DEF Situated
    <2>3. CASE target' = [target EXCEPT ![t] = "clean"] /\ Conclude(th, "Failed", "RolledBack")
      <3>1. thread'[th].at = "finish" /\ thread'[th].result[2] = "RolledBack"
        BY <1>9, <1>10, <2>3
      <3>2. Situated(thread'[th], "clean", rec[t].status)
        BY <3>1 DEF Situated, Honest
      <3> QED
        BY <1>6, <2>1, <2>3, <3>1, <3>2
    <2>4. CASE Conclude(th, "OutcomeUnknown", "Unknown") /\ UNCHANGED target
      <3>1. thread'[th].at = "finish" /\ thread'[th].result[2] = "Unknown"
        BY <1>9, <1>10, <2>4
      <3>2. Situated(thread'[th], target[t], rec[t].status)
        BY <2>2, <3>1 DEF Situated, Honest
      <3> QED
        BY <1>7, <2>1, <2>4, <3>1, <3>2
    <2> QED
      BY <1>0, <1>18, <2>3, <2>4 DEF CommitUnconfirmed
  <1>19. CASE CommitReported(t)
    <2>1. /\ thread[th].at = "work" /\ thread[th].stage = "Succeeded"
          /\ UNCHANGED <<registryVars, history, target>>
      BY <1>0, <1>19 DEF CommitReported, ExecutorAt
    <2>2. target[t] = "committed" /\ thread[th].result = <<"Succeeded", "Committed">>
      BY <1>1, <1>4, <2>1 DEF Situated, ExecutorShape
    <2>3. thread'[th].at = "finish" /\ thread'[th].result[2] = "Committed"
      BY <1>0, <1>8, <1>19, <2>2 DEF CommitReported, Places
    <2>4. Situated(thread'[th], target[t], rec[t].status)
      BY <2>2, <2>3 DEF Situated, Honest
    <2> QED
      BY <1>7, <2>1, <2>3, <2>4
  <1>20. CASE Rollback(t)
    <2>1. thread[th].at = "rollback" /\ UNCHANGED <<registryVars, history>>
      BY <1>0, <1>20 DEF Rollback, ExecutorAt
    <2>2. CASE /\ target' = [target EXCEPT ![t] = "clean"]
               /\ Conclude(th, FailureStatus(t), "RolledBack")
      <3>1. thread'[th].at = "finish" /\ thread'[th].result[2] = "RolledBack"
        BY <1>9, <1>10, <2>2
      <3>2. Situated(thread'[th], "clean", rec[t].status)
        BY <3>1 DEF Situated, Honest
      <3> QED
        BY <1>6, <2>1, <2>2, <3>1, <3>2
    <2>3. CASE /\ target' = [target EXCEPT ![t] = "lost"]
               /\ Conclude(th, "OutcomeUnknown", "Unknown")
      <3>1. thread'[th].at = "finish" /\ thread'[th].result[2] = "Unknown"
        BY <1>9, <1>10, <2>3
      <3>2. Situated(thread'[th], "lost", rec[t].status)
        BY <3>1 DEF Situated, Honest
      <3> QED
        BY <1>6, <2>1, <2>3, <3>1, <3>2
    <2> QED
      BY <1>0, <1>20, <2>2, <2>3 DEF Rollback
  <1>21. CASE ExecutorPanics(t)
    <2>1. thread[th].at \notin {"idle", "tail"} /\ UNCHANGED <<registryVars, history>>
      BY <1>0, <1>21 DEF ExecutorPanics
    <2>2. thread'[th].at = "finish" /\ thread'[th].result[2] = "Unknown"
      BY <1>0, <1>9, <1>10, <1>21 DEF ExecutorPanics
    <2>3. PICK v : v = IF target[t] = "open" THEN "lost" ELSE target[t]
      OBVIOUS
    <2>4. target' = [target EXCEPT ![t] = v]
      BY <1>1, <1>21, <2>3 DEF ExecutorPanics
    <2>5. Situated(thread'[th], v, rec[t].status)
      BY <2>2, <2>3 DEF Situated, Honest
    <2>6. v \in {"inflight", "committed"} => rec[t].status = "Committing"
      BY <1>4, <2>1, <2>3 DEF MayBeCommitted
    <2> QED
      BY <1>6, <2>1, <2>2, <2>4, <2>5, <2>6
  <1>22. CASE FinishExecution(t)
    <2>1. thread[th].at = "finish" /\ UNCHANGED <<history, target>>
      BY <1>0, <1>22 DEF FinishExecution
    <2>2. PICK a, b : <<a, b>> \in Results /\ thread[th].result = <<a, b>>
      BY <1>1, <2>1 DEF ExecutorShape, Results
    <2>3. FinishTask(t, a, b)
      BY <1>0, <1>22, <2>2 DEF FinishExecution
    <2>4. Owns(th, t) /\ target[t] # "open" /\ Honest(thread[th].result[2], target[t])
      BY <1>4, <2>1 DEF Situated
    <2>5. Honest(b, target[t])
      BY <2>2, <2>4
    <2>6. thread'[th].at = "tail" /\ thread'[th].task = Nil
      BY <1>0, <1>1, <1>22, CallLists, WindFacts DEF FinishExecution
    <2> QED
      BY <1>1, <2>1, <2>2, <2>3, <2>4, <2>5, <2>6, FreePlaces, OwnerFinishes
  <1>23. CASE Emit(th)
    <2>1. /\ thread[th].at = "emit" /\ UNCHANGED <<history, target>>
          /\ Progress(thread[th].task, thread[th].stage)
          /\ thread'[th].at = "journal" /\ thread'[th].stage = thread[th].stage
      BY <1>8, <1>23 DEF Emit, Places
    <2>2. Owns(th, t) /\ thread[th].task = t /\ thread[th].stage \in ExecutionStages
      BY <1>1, <1>4, <2>1 DEF ExecutorShape
    <2>3. Progress(t, thread[th].stage) /\ Owns(th, t)'
      BY <1>5, <2>1, <2>2
    <2> QED
      BY <1>0, <1>1, <2>1, <2>2, <2>3, ExecutorEmits
  <1>24. CASE Journal(th)
    <2>1. /\ thread[th].at = "journal" /\ thread'[th].at = "work" /\ UNCHANGED target
          /\ thread'[th].stage = thread[th].stage
      BY <1>8, <1>24 DEF Journal, Places
    <2>2. \A u \in Tasks : Calm(u) /\ Saves(u)
      BY <1>4, <1>24, <2>1, ObserveCalm, PersistSaves, RaiseCalm
         DEF Journal, PersistOk, PersistFails, Saves
    <2>3. PICK s : s = thread'[th]
      OBVIOUS
    <2>4. Owns(th, t) /\ Owns(th, t)' /\ Situated(thread[th], target[t], rec[t].status)
      BY <1>4, <1>5, <2>1
    <2>5. writer = t /\ Unsettled(t)
      BY <1>1, <2>4 DEF TasksOK, TaskOK, OwnersOK, Holds, ExecutorHolds
    <2>6. Holds(th, t, s)
      BY <1>1, <2>1, <2>3, <2>4, <2>5 DEF Holds, ExecutorHolds, Situated
    <2> QED
      BY <1>1, <2>1, <2>2, <2>3, <2>4, <2>6, OwnerMoves
  <1>25. CASE TailStep(th)
    BY <1>1, <1>25, TailKeeps
  <1> QED
    BY <1>0, <1>11, <1>12, <1>14, <1>15, <1>16, <1>17, <1>18, <1>19, <1>20, <1>21,
       <1>22, <1>23, <1>24, <1>25 DEF ExecutorStep

-----------------------------------------------------------------------------
(* The database, a crash, and the theorems *)

\* The database applies or rejects a COMMIT: nobody has claimed anything yet.
LEMMA DecisionKeeps ==
    ASSUME RuntimeInv, RuntimeInv', TasksOK, NEW t \in Tasks, DatabaseDecides(t)
    PROVE  TasksOK'
  <1>1. /\ target[t] = "inflight" /\ UNCHANGED <<rec, writer, thread, history>>
        /\ target'[t] \in {"committed", "lost"}
        /\ \A u \in Tasks : u # t => target'[u] = target[u]
    BY Context DEF DatabaseDecides, registryVars
  <1>2. ASSUME NEW u \in Tasks, u # t
        PROVE  TaskOK(u)'
    <2>1. Quiet(u)
      BY <1>1, <1>2, SameCalm DEF Quiet, Saves
    <2> QED
      BY <2>1, QuietTask DEF TasksOK
  <1>3. TaskOK(t)
    BY DEF TasksOK
  <1>4. RecordOK(t)'
    BY <1>1, <1>3 DEF TaskOK, RecordOK, Honest, MayBeCommitted
  <1>5. HistoryOK(t)'
    BY <1>1, <1>3 DEF TaskOK, HistoryOK, Honest, MayBeCommitted
  <1>6. \A th \in Threads : Owns(th, t)' <=> Owns(th, t)
    BY <1>1 DEF Owns
  <1>7. ASSUME NEW th \in Threads, Owns(th, t)
        PROVE  Holds(th, t, thread[th])'
    <2>1. PICK s : s = thread[th]
      OBVIOUS
    <2>2. Holds(th, t, s)
      BY <1>3, <1>7, <2>1 DEF TaskOK, OwnersOK
    <2>3. KindOf(th) = "execute" /\ ExecutorHolds(t, s)
      BY <1>1, <2>2 DEF Holds, OtherHolds
    <2>4. Situated(s, target'[t], rec[t].status)
      BY <1>1, <2>3 DEF ExecutorHolds, Situated, Honest
    <2> QED
      BY <1>1, <2>1, <2>3, <2>4 DEF Holds, ExecutorHolds, Unsettled, Situated, Honest
  <1>8. OwnersOK(t)'
    BY <1>3, <1>6, <1>7 DEF TaskOK, OwnersOK
  <1>9. TaskOK(t)'
    BY <1>1, <1>3, <1>4, <1>5, <1>6, <1>8 DEF TaskOK
  <1> QED
    BY <1>2, <1>9 DEF TasksOK

\* A crash: what the history restores is true of what the database kept.
LEMMA RestartKeeps ==
    ASSUME RuntimeInv, RuntimeInv', TasksOK, Restart
    PROVE  TasksOK'
  <1> SUFFICES ASSUME NEW t \in Tasks
               PROVE  TaskOK(t)'
    BY DEF TasksOK
  <1> DEFINE h == history[t]
  <1>1. /\ h \in HistoryEntry /\ (h.status \in Terminal => h.commit # Nil)
        /\ target'[t] = IF target[t] = "open" THEN "lost" ELSE target[t]
        /\ rec'[t] = Restored(h) /\ history' = history /\ writer' = Nil
    BY DEF RuntimeInv, RuntimeTypeOK, HistorySound, Restart
  <1>2. HistoryOK(t)
    BY DEF TasksOK, TaskOK
  <1>3. HistoryOK(t)'
    BY <1>1, <1>2 DEF HistoryOK, Honest, MayBeCommitted
  <1>4. /\ ~Live(rec'[t])
        /\ h.status = "Absent" => rec'[t] = NoRecord
        /\ h.status = "Open" /\ h.execution_id = Nil =>
              rec'[t].status = "Interrupted" /\ rec'[t].commit = "None"
        /\ h.status = "Open" /\ h.execution_id # Nil =>
              rec'[t].status = "OutcomeUnknown" /\ rec'[t].commit = "Unknown"
        /\ h.status \in Terminal => rec'[t].status = h.status /\ rec'[t].commit = h.commit
    BY <1>1, RestoredFacts
  <1>5. RecordOK(t)'
    <2>1. CASE h.status = "Absent"
      <3>1. rec'[t].status = "Absent" /\ rec'[t].commit = Nil
        BY <1>4, <2>1 DEF NoRecord
      <3> QED
        BY <1>4, <3>1, CommitNotNil DEF RecordOK, IsTerminal, Terminal, Honest, CommitState
    <2>2. CASE h.status = "Open" /\ h.execution_id = Nil
      BY <1>1, <1>2, <1>4, <2>2
         DEF RecordOK, HistoryOK, IsTerminal, Terminal, Honest, Endings, MayBeCommitted
    <2>3. CASE h.status = "Open" /\ h.execution_id # Nil
      BY <1>4, <2>3 DEF RecordOK, IsTerminal, Terminal, Honest, Endings, Results
    <2>4. CASE h.status \in Terminal
      BY <1>1, <1>2, <1>4, <2>4 DEF RecordOK, HistoryOK, IsTerminal, Honest
    <2> QED
      BY <1>1, <2>1, <2>2, <2>3, <2>4 DEF HistoryEntry
  <1>6. \A th \in Threads : ~Owns(th, t)'
    BY IdleFacts, NilAssumption DEF Restart, Owns
  <1>7. OwnersOK(t)' /\ target'[t] # "open" /\ writer' # t
    BY <1>1, <1>6, NilAssumption DEF OwnersOK
  <1> QED
    BY <1>3, <1>5, <1>7 DEF TaskOK

\* A fresh installation.
LEMMA InitTasks ==
    ASSUME Init
    PROVE  TasksOK
  <1> SUFFICES ASSUME NEW t \in Tasks
               PROVE  TaskOK(t)
    BY DEF TasksOK
  <1>1. /\ rec[t].status = "Absent" /\ rec[t].commit = Nil /\ history[t].status = "Absent"
        /\ target[t] = "clean" /\ writer = Nil
    BY DEF Init, RegistryInit, NoRecord, NoTask
  <1>2. \A th \in Threads : ~Owns(th, t)
    BY IdleFacts, NilAssumption DEF Init, Owns
  <1>3. RecordOK(t)
    BY <1>1, CommitNotNil
       DEF RecordOK, IsTerminal, Terminal, Live, Known, Honest, CommitState
  <1>4. HistoryOK(t)
    BY <1>1 DEF HistoryOK, Terminal
  <1> QED
    BY <1>1, <1>2, <1>3, <1>4, NilAssumption DEF TaskOK, OwnersOK

\* Every step keeps what is known of every task.
LEMMA NextKeeps ==
    ASSUME RuntimeInv, RuntimeInv', TasksOK, [Next]_vars
    PROVE  TasksOK'
  <1>1. ASSUME UNCHANGED <<rec, writer, history, target, thread>>
        PROVE  TasksOK'
    <2>1. \A u \in Tasks : Quiet(u)
      BY <1>1, SameCalm DEF Quiet, Saves
    <2> QED
      BY <2>1, QuietTask DEF TasksOK
  <1>2. ASSUME NEW m \in Timers, Maintenance(m)
        PROVE  TasksOK'
    <2>1. Timer(m) \in Threads /\ thread \in [Threads -> ThreadState]
      BY Kinds, Context
    <2>2. OnlyThread(Timer(m)) /\ thread'[Timer(m)].at = "tail"
      BY <1>2, <2>1, CallLists, WindFacts DEF Maintenance
    <2>3. thread[Timer(m)].at = "idle" /\ UNCHANGED <<rec, writer, history, target>>
      BY <1>2, IdleFacts DEF Maintenance, registryVars
    <2>4. \A u \in Tasks : Calm(u) /\ Saves(u)
      BY <2>3, SameCalm DEF Saves
    <2> QED
      BY <2>1, <2>2, <2>3, <2>4, FreePlaces, FreeStep
  <1>3. ASSUME NEW m \in Timers, TailStep(Timer(m))
        PROVE  TasksOK'
    BY <1>3, Kinds, TailKeeps
  <1>4. CASE Tick /\ UNCHANGED runtimeVars
    BY <1>1, <1>4 DEF Tick, runtimeVars
  <1>5. CASE UNCHANGED vars
    BY <1>1, <1>5 DEF vars, registryVars, runtimeVars
  <1>6. CASE RunningStep
    BY <1>2, <1>3, <1>4, <1>6, CommandKeeps, CallerKeeps, PreviewerKeeps, ExecutorKeeps,
       DecisionKeeps DEF RunningStep
  <1> QED
    BY <1>5, <1>6, RestartKeeps DEF Next

\* Ownership, records and history tell the truth about every target in every
\* reachable state, across crashes.
THEOREM TasksInvariance == Spec => [](RuntimeInv /\ TasksOK)
  <1>1. Init => TasksOK
    BY InitTasks
  <1>2. RuntimeInv /\ RuntimeInv' /\ TasksOK /\ [Next]_vars => TasksOK'
    BY NextKeeps
  <1> QED
    BY <1>1, <1>2, RuntimeInvariance, PTL DEF Spec

\* No finished task lies about its target: "not executed" and "rolled back" mean
\* that nothing was or will be committed and "committed" that it was, however
\* worker, database, cancellations, failing persists and crashes interleave.
THEOREM ResultsHonest == Spec => []HonestResult
  <1>1. TasksOK => HonestResult
    BY DEF TasksOK, TaskOK, RecordOK, Honest, HonestResult, MayBeCommitted
  <1> QED
    BY <1>1, TasksInvariance, PTL

\* A cancel that was accepted is honoured: no COMMIT is sent for a task that
\* shows Cancelling or Cancelled, although one thread sets the flag and another
\* reads it on its way to the COMMIT.
THEOREM CancellationHonoured == Spec => []CancelHonoured
  <1>1. TasksOK => CancelHonoured
    <2> SUFFICES ASSUME TasksOK, NEW t \in Tasks, rec[t].status \in {"Cancelling", "Cancelled"}
                 PROVE  ~MayBeCommitted(t)
      BY DEF CancelHonoured
    <2>1. RecordOK(t)
      BY DEF TasksOK, TaskOK
    <2>2. CASE rec[t].status = "Cancelling"
      BY <2>1, <2>2 DEF RecordOK, Live, Known, IsTerminal, Terminal
    <2>3. CASE rec[t].status = "Cancelled"
      <3>1. <<rec[t].status, rec[t].commit>> \in Endings
        BY <2>1, <2>3 DEF RecordOK, IsTerminal, Terminal
      <3>2. rec[t].commit \in {"None", "RolledBack"}
        BY <2>3, <3>1 DEF Endings, Results
      <3> QED
        BY <2>1, <3>2 DEF RecordOK, Honest, MayBeCommitted
    <2> QED
      BY <2>2, <2>3
  <1> QED
    BY <1>1, TasksInvariance, PTL

\* The single writer slot of the registry means a single open transaction.
THEOREM OneOpenTransaction == Spec => []OneTransaction
  <1>1. TasksOK => OneTransaction
    <2> SUFFICES ASSUME TasksOK, NEW t \in Tasks, target[t] = "open"
                 PROVE  writer = t
      BY DEF OneTransaction
    <2>1. Owns(Executor(t), t) /\ KindOf(Executor(t)) = "execute" /\ Executor(t) \in Threads
      BY Kinds DEF TasksOK, TaskOK
    <2> QED
      BY <2>1 DEF TasksOK, TaskOK, OwnersOK, Holds, ExecutorHolds
  <1> QED
    BY <1>1, TasksInvariance, PTL

\* A taken writer slot has a thread that will give it back: the command between
\* begin_execution and spawn, or the execution worker before its finish().
THEOREM SlotHasThread == Spec => []WriterHasThread
  <1>1. RuntimeInv /\ TasksOK => WriterHasThread
    <2> SUFFICES ASSUME RuntimeInv, TasksOK, NEW t \in Tasks, writer = t
                 PROVE  \/ thread[Executor(t)].at \notin {"idle", "tail"}
                        \/ \E th \in Commands :
                              /\ thread[th].task = t
                              /\ thread[th].at \in {"recordExecution", "spawnExecution",
                                                    "abandon"}
      BY DEF WriterHasThread
    <2>1. PICK th \in Threads : Owns(th, t)
      BY DEF TasksOK, TaskOK
    <2>2. Shape(th, thread[th]) /\ thread[th].at \notin {"idle", "tail"}
      BY <2>1, Context, FreePlaces DEF Owns
    <2>3. CASE KindOf(th) = "execute"
      <3>1. IdOf(th) = t
        BY <2>1, <2>2, <2>3 DEF Shape, ExecutorShape, Owns, Owning
      <3>2. th = Executor(t)
        BY <2>3, <3>1, Kinds
      <3> QED
        BY <2>2, <3>2
    <2>4. CASE KindOf(th) # "execute"
      <3>1. OtherHolds(t, thread[th]) /\ rec[t].execution # Nil
        BY <2>1, <2>4, WriterRuns DEF TasksOK, TaskOK, OwnersOK, Holds, RuntimeInv
      <3>2. thread[th].at \in {"recordExecution", "spawnExecution", "abandon"}
        BY <3>1 DEF OtherHolds
      <3>3. th \in Commands
        BY <2>2, <2>4, <3>2, Kinds
           DEF Shape, PreviewShape, TimerShape, PreviewPlaces
      <3> QED
        BY <2>1, <3>2, <3>3 DEF Owns
    <2> QED
      BY <2>3, <2>4
  <1> QED
    BY <1>1, TasksInvariance, PTL

\* However often the user clicks, one command at most gets past begin_execution
\* for a task, and none while its execution worker runs.
THEOREM StartedOnce == Spec => []ExecutionStartedOnce
  <1>1. RuntimeInv /\ TasksOK => ExecutionStartedOnce
    <2> SUFFICES ASSUME RuntimeInv, TasksOK, NEW t \in Tasks
                 PROVE  Cardinality(
                           {th \in Commands :
                              /\ thread[th].task = t
                              /\ thread[th].at \in {"recordExecution", "spawnExecution"}}
                           \cup {th \in {Executor(t)} : thread[th].at \notin {"idle", "tail"}})
                           <= 1
      BY DEF ExecutionStartedOnce
    <2> DEFINE S == {th \in Commands :
                       /\ thread[th].task = t
                       /\ thread[th].at \in {"recordExecution", "spawnExecution"}}
                    \cup {th \in {Executor(t)} : thread[th].at \notin {"idle", "tail"}}
    <2>1. ASSUME NEW th \in S
          PROVE  th \in Threads /\ Owns(th, t)
      <3>1. CASE th \in Commands /\ thread[th].task = t
                 /\ thread[th].at \in {"recordExecution", "spawnExecution"}
        BY <3>1 DEF Threads, Owns, Owning, Working, Places
      <3>2. CASE th = Executor(t) /\ thread[th].at \notin {"idle", "tail"}
        <4>1. th \in Threads /\ ExecutorShape(t, thread[th])
          BY <3>2, Kinds, Context DEF Shape
        <4> QED
          BY <3>2, <4>1 DEF ExecutorShape, ExecutorPlaces, Owns, Owning, Working, Places
      <3> QED
        BY <2>1, <3>1, <3>2
    <2>2. \A th, o \in S : th = o
      BY <2>1 DEF TasksOK, TaskOK, OwnersOK
    <2> HIDE DEF S
    <2>3. Cardinality(S) <= 1
      <3>1. CASE S = {}
        BY <3>1, FS_EmptySet
      <3>2. CASE S # {}
        <4>1. PICK th : S = {th}
          BY <2>2, <3>2
        <4> QED
          BY <4>1, FS_Singleton
      <3> QED
        BY <3>1, <3>2
    <2> QED
      BY <2>3 DEF S
  <1> QED
    BY <1>1, TasksInvariance, PTL

-----------------------------------------------------------------------------
(* The intent is on file before the effect *)

\* The listed tasks fit into the history file.  The code keeps 100 records and
\* lists up to 100 finished tasks beside the open previews and the running task,
\* so a full list may lose its least recently updated entries.
FitsHistory == Cardinality({t \in Tasks : Known(rec[t])}) <= HistoryLimit

\* A thread that has recorded the execution of t.
Recorded(th, t) ==
    /\ Owns(th, t)
    /\ KindOf(th) = "execute" \/ thread[th].at = "spawnExecution"

\* A task whose execution was recorded or whose COMMIT was sent is on file.
OnFile(t) ==
    \/ MayBeCommitted(t) /\ Known(rec[t])
    \/ \E th \in Threads : Recorded(th, t)
    => history[t].status # "Absent"

\* Only register_preview lists a task that was not listed.
LEMMA NothingNew ==
    ASSUME RuntimeInv, NEW u \in Tasks, Known(rec'[u]),
           \/ Calm(u)
           \/ \E t \in Tasks, s \in Reported : Progress(t, s)
           \/ \E t \in Tasks, p \in Plans : \E d : SetReady(t, p, d)
           \/ \E t \in Tasks, input \in Input : BeginExecution(t, input)
           \/ \E t \in Tasks : \E a, b : <<a, b>> \in Results /\ FinishTask(t, a, b)
    PROVE  Known(rec[u])
  <1>1. Calm(u) => Known(rec[u])
    BY DEF Calm, CalmRecord, Known, Live, IsTerminal, Terminal, NoRecord
  <1>2. ASSUME NEW t \in Tasks, NEW s \in Reported, Progress(t, s)
        PROVE  Known(rec[u])
    BY <1>1, <1>2, ProgressTask DEF ProgressApplies, Live, Known
  <1>3. ASSUME NEW t \in Tasks, NEW p \in Plans, NEW d, SetReady(t, p, d)
        PROVE  Known(rec[u])
    BY <1>1, <1>3, SetReadyTask DEF Live
  <1>4. ASSUME NEW t \in Tasks, NEW input \in Input, BeginExecution(t, input)
        PROVE  Known(rec[u])
    BY <1>1, <1>4, BeginTaskFacts DEF Known
  <1>5. ASSUME NEW t \in Tasks, NEW a, NEW b, <<a, b>> \in Results, FinishTask(t, a, b)
        PROVE  Known(rec[u])
    <2>1. /\ u # t => Calm(u)
          /\ Live(rec[t]) \/ rec' = rec
      BY <1>5, FinishTaskFacts DEF FinishTask, registryVars
    <2> QED
      BY <1>1, <2>1 DEF Live
  <1> QED
    BY <1>1, <1>2, <1>3, <1>4, <1>5

\* What keeps a task on file: a persist that succeeds writes every listed task.
LEMMA FileKept ==
    ASSUME RuntimeInv, RuntimeInv', TasksOK', FitsHistory', NEW t \in Tasks, OnFile(t),
           UNCHANGED history \/ PersistOk,
           MayBeCommitted(t)' /\ Known(rec'[t]) =>
               \/ MayBeCommitted(t) /\ Known(rec[t])
               \/ \E th \in Threads : Recorded(th, t),
           \A th \in Threads : Recorded(th, t)' =>
               PersistOk \/ \E o \in Threads : Recorded(o, t)
    PROVE  OnFile(t)'
  <1>1. ASSUME NEW th \in Threads, Recorded(th, t)'
        PROVE  Known(rec'[t])
    <2>1. writer' = t
      BY <1>1 DEF Recorded, TasksOK, TaskOK, OwnersOK, Holds, ExecutorHolds, OtherHolds
    <2> QED
      BY <2>1, NextWriterRuns DEF RuntimeInv, Live
  <1>2. CASE PersistOk
    <2>1. Known(rec'[t]) => history'[t] = Summary(rec'[t])
      BY <1>2, PersistOkFacts DEF FitsHistory
    <2>2. Known(rec'[t]) => history'[t].status # "Absent"
      BY <2>1 DEF Summary, IsTerminal, Terminal
    <2> QED
      BY <1>1, <2>2 DEF OnFile
  <1>3. CASE UNCHANGED history /\ ~PersistOk
    BY <1>3 DEF OnFile
  <1> QED
    BY <1>2, <1>3

\* A step of one thread that leaves the targets alone.
LEMMA ThreadFile ==
    ASSUME RuntimeInv, RuntimeInv', TasksOK', FitsHistory', NEW t \in Tasks, OnFile(t),
           UNCHANGED history \/ PersistOk,
           target'[t] = target[t],
           MayBeCommitted(t) /\ Known(rec'[t]) => Known(rec[t]),
           NEW th \in Threads, OnlyThread(th),
           Recorded(th, t)' => PersistOk \/ Recorded(th, t)
    PROVE  OnFile(t)'
  <1>1. \A o \in Threads : o # th /\ Recorded(o, t)' => Recorded(o, t)
    BY DEF Recorded, Owns, OnlyThread
  <1>2. MayBeCommitted(t)' <=> MayBeCommitted(t)
    BY DEF MayBeCommitted
  <1> QED
    BY <1>1, <1>2, FileKept

\* The clean-up calls.
LEMMA TailFile ==
    ASSUME RuntimeInv, RuntimeInv', TasksOK', FitsHistory', NEW t \in Tasks, OnFile(t),
           NEW th \in Threads, TailStep(th)
    PROVE  OnFile(t)'
  <1>1. ~Recorded(th, t)'
    BY TailPlaces DEF Recorded, Owns
  <1>2. UNCHANGED history \/ PersistOk
    BY DEF TailStep, TailPersist, PruneList, PruneRemove, PruneDelete, Persist,
           PersistFails, Publish, Report
  <1>3. MayBeCommitted(t) /\ Known(rec'[t]) => Known(rec[t])
    BY TailCalm, NothingNew
  <1> QED
    BY <1>1, <1>2, <1>3, TailPlaces, ThreadFile

\* The commands of the front end record no execution.
LEMMA CommandFile ==
    ASSUME RuntimeInv, RuntimeInv', TasksOK', FitsHistory', NEW t \in Tasks, OnFile(t),
           NEW c \in Callers, CallerCommand(c)
    PROVE  OnFile(t)'
  <1>0. PICK me : me = Caller(c)
    OBVIOUS
  <1>1. /\ me \in Threads /\ KindOf(me) = "caller" /\ OnlyThread(me)
        /\ thread \in [Threads -> ThreadState] /\ UNCHANGED <<history, target>>
    BY <1>0, Kinds, Context, CommandTyped
       DEF CallerCommand, Poll, StartPreview, Execute, CancelTask, Discard
  <1>2. thread'[me].at # "spawnExecution"
    <2>1. thread[me].at = "idle"
      BY <1>0, IdleFacts DEF CallerCommand, Poll, StartPreview, Execute, CancelTask, Discard
    <2>2. \A todo : Wind(me, todo) => thread'[me].at = "tail"
      BY <1>1, IdleFacts DEF Wind, Become, ThreadState
    <2>3. ASSUME NEW u, NEW place \in {"record", "discard"},
                 Become(me, [Idle EXCEPT !.at = place, !.task = u])
          PROVE  thread'[me].at = place
      BY <1>1, <2>3, IdleFacts DEF Become, ThreadState
    <2>4. ASSUME NEW u, NEW todo, NEW p,
                 Become(me, [Idle EXCEPT !.at = "tail", !.todo = todo, !.task = u, !.plan = p])
          PROVE  thread'[me].at = "tail"
      BY <1>1, <2>4, IdleFacts DEF Become, ThreadState
    <2>5. CASE Poll(c)
      BY <1>0, <2>2, <2>5 DEF Poll
    <2>6. ASSUME NEW u \in Tasks, StartPreview(c, u)
          PROVE  thread'[me].at # "spawnExecution"
      BY <1>0, <2>1, <2>3, <2>6 DEF StartPreview
    <2>7. ASSUME NEW u \in Tasks, Execute(c, u)
          PROVE  thread'[me].at # "spawnExecution"
      BY <1>0, <2>1, <2>4, <2>7 DEF Execute
    <2>8. ASSUME NEW u \in Tasks, CancelTask(c, u)
          PROVE  thread'[me].at # "spawnExecution"
      BY <1>0, <2>1, <2>2, <2>8 DEF CancelTask
    <2>9. ASSUME NEW p \in Plans, Discard(c, p)
          PROVE  thread'[me].at # "spawnExecution"
      BY <1>0, <2>1, <2>2, <2>3, <2>9 DEF Discard
    <2> QED
      BY <2>5, <2>6, <2>7, <2>8, <2>9 DEF CallerCommand
  <1>3. MayBeCommitted(t) /\ Known(rec'[t]) => Known(rec[t])
    <2>1. CASE \E u \in Tasks : StartPreview(c, u) /\ RegisterPreview(u)
      BY <2>1, RegisterTask, NothingNew DEF StartPreview, MayBeCommitted
    <2>2. CASE Calm(t)
      BY <2>2, NothingNew
    <2>3. (\E u \in Tasks : StartPreview(c, u) /\ RegisterPreview(u)) \/ Calm(t)
      BY ObserveCalm, CancelCalm, SameCalm
         DEF CallerCommand, Poll, StartPreview, Execute, CancelTask, Discard, CancelUnknown,
             registryVars
    <2> QED
      BY <2>1, <2>2, <2>3
  <1> QED
    BY <1>1, <1>2, <1>3, ThreadFile DEF Recorded

\* A command that is under way: it records an execution by a persist that
\* succeeds, and only a recorded execution gets a worker.
LEMMA CallerFile ==
    ASSUME RuntimeInv, RuntimeInv', TasksOK', FitsHistory', NEW t \in Tasks, OnFile(t),
           NEW c \in Callers, CallerStep(c)
    PROVE  OnFile(t)'
  <1>0. PICK me : me = Caller(c)
    OBVIOUS
  <1>1. PICK u : u = thread[me].task
    OBVIOUS
  <1>2. /\ me \in Threads /\ KindOf(me) = "caller" /\ thread \in [Threads -> ThreadState]
        /\ thread[me] \in ThreadState /\ Shape(me, thread[me])
    BY <1>0, Kinds, Context
  <1>3. thread[me].at \in Working => u \in Tasks
    BY <1>1, <1>2 DEF Shape
  <1>4. ASSUME NEW place \in Places, Goto(me, place)
        PROVE  OnlyThread(me) /\ thread'[me].at = place /\ thread'[me].task = u
    BY <1>1, <1>2, <1>4, GotoFacts
  <1>5. Become(me, Idle) => OnlyThread(me) /\ thread'[me].at = "idle"
    BY <1>2, IdleFacts, BecomeFacts
  <1>6. ASSUME OnlyThread(me), UNCHANGED target, UNCHANGED history \/ PersistOk,
               Known(rec'[t]) => Known(rec[t]),
               thread'[me].at # "spawnExecution" \/ PersistOk
        PROVE  OnFile(t)'
    BY <1>2, <1>6, ThreadFile DEF Recorded
  <1>7. Calm(t) /\ Known(rec'[t]) => Known(rec[t])
    BY NothingNew
  <1>8. CASE RecordPreview(c)
    <2>1. OnlyThread(me) /\ thread'[me].at \in {"spawn", "abandon"}
      BY <1>0, <1>4, <1>8 DEF RecordPreview, Places
    <2>2. Calm(t)
      BY <1>8, ObserveCalm DEF RecordPreview, PersistOk, PersistFails
    <2> QED
      BY <1>6, <1>7, <1>8, <2>1, <2>2 DEF RecordPreview, PersistFails
  <1>9. CASE Abandon(c)
    <2>1. /\ u \in Tasks /\ FinishTask(u, "Failed", "None") /\ OnlyThread(me)
          /\ thread'[me].at = "idle" /\ <<"Failed", "None">> \in Results
      BY <1>0, <1>1, <1>3, <1>5, <1>9 DEF Abandon, Working, Places, Results
    <2>2. Known(rec'[t]) => Known(rec[t])
      BY <2>1, NothingNew
    <2> QED
      BY <1>6, <1>9, <2>1, <2>2 DEF Abandon
  <1>10. CASE SpawnPreview(c)
    <2>1. /\ u \in Tasks /\ Publish(u)
          /\ thread'[me] = Idle
          /\ thread'[Previewer(u)].at = "emit"
          /\ \A o \in Threads : o # me /\ o # Previewer(u) => thread'[o] = thread[o]
      BY <1>0, <1>1, <1>10, SpawnPreviewMoves
    <2>2. \A o \in Threads : Recorded(o, t)' => Recorded(o, t)
      BY <1>2, <2>1, Kinds, IdleFacts DEF Recorded, Owns
    <2>3. Known(rec'[t]) => Known(rec[t])
      BY <1>7, <2>1, PublishCalm
    <2>4. UNCHANGED history \/ PersistOk
      BY <2>1 DEF Publish
    <2>5. MayBeCommitted(t)' <=> MayBeCommitted(t)
      BY <1>10 DEF SpawnPreview, MayBeCommitted
    <2> QED
      BY <2>2, <2>3, <2>4, <2>5, FileKept
  <1>11. CASE LookupPlan(c)
    <2>1. OnlyThread(me) /\ thread'[me].at \in {"begin", "idle"}
      BY <1>0, <1>4, <1>5, <1>11 DEF LookupPlan, Places
    <2> QED
      BY <1>6, <1>7, <1>11, <2>1, SameCalm DEF LookupPlan, registryVars
  <1>12. CASE BeginTask(c)
    <2>1. u \in Tasks /\ thread[me].plan \in Plans
      BY <1>0, <1>2, <1>3, <1>12 DEF BeginTask, Shape, CallerShape, Working, Places
    <2>2. InputOf(u, thread[me].plan) \in Input
      BY <2>1, RuntimeAssumption DEF InputOf, Input
    <2>3. OnlyThread(me) /\ thread'[me].at \in {"recordExecution", "idle"}
      BY <1>0, <1>4, <1>5, <1>12 DEF BeginTask, Places
    <2>4. BeginExecution(u, InputOf(u, thread[me].plan)) \/ Calm(t)
      BY <1>0, <1>1, <1>12, ObserveCalm, SameCalm DEF BeginTask, registryVars
    <2>5. Known(rec'[t]) => Known(rec[t])
      BY <2>1, <2>2, <2>4, NothingNew
    <2> QED
      BY <1>6, <1>12, <2>3, <2>5 DEF BeginTask
  <1>13. CASE RecordExecution(c)
    <2>1. /\ OnlyThread(me)
          /\ thread'[me].at = "abandon" \/ PersistOk
      BY <1>0, <1>4, <1>13 DEF RecordExecution, Places
    <2>2. Calm(t)
      BY <1>13, ObserveCalm DEF RecordExecution, PersistOk, PersistFails
    <2> QED
      BY <1>6, <1>7, <1>13, <2>1, <2>2 DEF RecordExecution, PersistFails
  <1>14. CASE SpawnExecution(c)
    <2>1. /\ u \in Tasks /\ Publish(u)
          /\ thread'[me] = Idle
          /\ thread'[Executor(u)].task = u
          /\ \A o \in Threads : o # me /\ o # Executor(u) => thread'[o] = thread[o]
      BY <1>0, <1>1, <1>14, SpawnExecutionMoves
    <2>2. Recorded(me, u)
      BY <1>0, <1>1, <1>14 DEF SpawnExecution, Recorded, Owns, Owning, Working, Places
    <2>3. \A o \in Threads : Recorded(o, t)' => \E a \in Threads : Recorded(a, t)
      BY <1>2, <2>1, <2>2, IdleFacts, NilAssumption DEF Recorded, Owns
    <2>4. Known(rec'[t]) => Known(rec[t])
      BY <1>7, <2>1, PublishCalm
    <2>5. UNCHANGED history \/ PersistOk
      BY <2>1 DEF Publish
    <2>6. MayBeCommitted(t)' <=> MayBeCommitted(t)
      BY <1>14 DEF SpawnExecution, MayBeCommitted
    <2> QED
      BY <2>3, <2>4, <2>5, <2>6, FileKept
  <1>15. CASE DiscardCancels(c)
    <2>1. u \in Tasks
      BY <1>0, <1>3, <1>15 DEF DiscardCancels, Working, Places
    <2>2. OnlyThread(me) /\ thread'[me].at \in {"idle", "tail"}
      BY <1>0, <1>1, <1>2, <1>5, <1>15, <2>1, CallLists, WindFacts DEF DiscardCancels
    <2>3. Calm(t)
      BY <1>0, <1>1, <1>15, <2>1, CancelCalm, SameCalm
         DEF DiscardCancels, CancelUnknown, registryVars
    <2> QED
      BY <1>6, <1>7, <1>15, <2>2, <2>3 DEF DiscardCancels
  <1>16. CASE TailStep(me)
    BY <1>2, <1>16, TailFile
  <1> QED
    BY <1>0, <1>8, <1>9, <1>10, <1>11, <1>12, <1>13, <1>14, <1>15, <1>16 DEF CallerStep

\* The preview worker.
LEMMA PreviewerFile ==
    ASSUME RuntimeInv, RuntimeInv', TasksOK', FitsHistory', NEW t \in Tasks, OnFile(t),
           NEW u \in Tasks, PreviewerStep(u)
    PROVE  OnFile(t)'
  <1>0. PICK th : th = Previewer(u)
    OBVIOUS
  <1>1. /\ th \in Threads /\ KindOf(th) = "preview" /\ IdOf(th) = u
        /\ PreviewShape(u, thread[th]) /\ OnlyThread(th)
    BY <1>0, Kinds, Context, PreviewerTyped DEF Shape
  <1>2. ~Recorded(th, t)'
    BY <1>1 DEF RuntimeInv, ThreadsOK, Shape, PreviewShape, PreviewPlaces, Recorded
  <1>3. ASSUME UNCHANGED history \/ PersistOk, UNCHANGED target,
               Known(rec'[t]) => Known(rec[t])
        PROVE  OnFile(t)'
    BY <1>1, <1>2, <1>3, ThreadFile
  <1>4. thread[th].at \in Working => thread[th].task = u /\ thread[th].stage \in Reported
    BY <1>1 DEF PreviewShape, PreviewStages, Reported, PreviewPhases
  <1>5. CASE Emit(th)
    <2>1. Progress(u, thread[th].stage) /\ thread[th].stage \in Reported
      BY <1>4, <1>5 DEF Emit, Working, Places
    <2>2. Known(rec'[t]) => Known(rec[t])
      BY <2>1, NothingNew
    <2> QED
      BY <1>3, <1>5, <2>2 DEF Emit
  <1>6. CASE Journal(th)
    <2>1. thread[th].task = u
      BY <1>4, <1>6 DEF Journal, Working, Places
    <2>2. Calm(t)
      BY <1>6, <2>1, ObserveCalm, RaiseCalm DEF Journal, PersistOk, PersistFails
    <2> QED
      BY <1>3, <1>6, <2>2, NothingNew DEF Journal, PersistFails
  <1>7. CASE UNCHANGED <<registryVars, history, target>>
    BY <1>3, <1>7, SameCalm, NothingNew DEF registryVars
  <1>8. CASE PublishPlan(u) /\ SetReady(u, thread[th].plan, thread[th].deadline)
    <2>1. thread[th].plan \in Plans
      BY <1>0, <1>1, <1>8 DEF PublishPlan, PreviewShape, Working, Places
    <2> QED
      BY <1>3, <1>8, <2>1, NothingNew DEF PublishPlan
  <1>9. CASE FinishPreview(u)
    <2>1. thread[th].at = "finish"
      BY <1>0, <1>9 DEF FinishPreview
    <2>2. PICK a \in {"Failed", "Cancelled"} : thread[th].result = <<a, "None">>
      BY <1>1, <2>1 DEF PreviewShape
    <2>3. FinishTask(u, a, "None") /\ <<a, "None">> \in Results
      BY <1>0, <1>9, <2>2 DEF FinishPreview, Results
    <2> QED
      BY <1>3, <1>9, <2>3, NothingNew DEF FinishPreview
  <1>10. CASE TailStep(th)
    BY <1>1, <1>10, TailFile
  <1> QED
    BY <1>0, <1>5, <1>6, <1>7, <1>8, <1>9, <1>10
       DEF PreviewerStep, PreviewWork, BuildPlan, InsertPlan, PublishPlan, WithdrawPlan,
           PreviewFails

\* The execution worker: its execution was on file before it started.
LEMMA ExecutorFile ==
    ASSUME RuntimeInv, RuntimeInv', TasksOK', FitsHistory', NEW t \in Tasks, OnFile(t),
           NEW u \in Tasks, ExecutorStep(u)
    PROVE  OnFile(t)'
  <1>0. PICK th : th = Executor(u)
    OBVIOUS
  <1>1. /\ th \in Threads /\ KindOf(th) = "execute" /\ IdOf(th) = u
        /\ ExecutorShape(u, thread[th]) /\ OnlyThread(th)
    BY <1>0, Kinds, Context, ExecutorTyped DEF Shape
  <1>2. t # u => ~Recorded(th, t)'
    BY <1>1 DEF RuntimeInv, ThreadsOK, Shape, ExecutorShape, Recorded, Owns, Owning
  <1>3. thread[th].at \notin {"idle", "tail"} => thread[th].task = u /\ Recorded(th, u)
    BY <1>1 DEF ExecutorShape, ExecutorPlaces, Recorded, Owns, Owning, Working, Places
  <1>4. \A o \in Threads : o # th /\ Recorded(o, t)' => Recorded(o, t)
    BY <1>1 DEF Recorded, Owns, OnlyThread
  <1>5. ASSUME thread[th].at \notin {"idle", "tail"}, UNCHANGED history \/ PersistOk,
               t # u => target'[t] = target[t],
               Known(rec'[t]) => Known(rec[t])
        PROVE  OnFile(t)'
    <2>1. CASE t = u
      BY <1>1, <1>3, <1>4, <1>5, <2>1, FileKept
    <2>2. CASE t # u
      BY <1>1, <1>2, <1>5, <2>2, ThreadFile
    <2> QED
      BY <2>1, <2>2
  <1>6. ASSUME thread[th].at \notin {"idle", "tail"}, UNCHANGED <<registryVars, history>>,
               UNCHANGED target \/ \E v : target' = [target EXCEPT ![u] = v]
        PROVE  OnFile(t)'
    <2>1. t # u => target'[t] = target[t]
      BY <1>6, Context
    <2>2. Known(rec'[t]) => Known(rec[t])
      BY <1>6 DEF registryVars
    <2> QED
      BY <1>5, <1>6, <2>1, <2>2
  <1>7. CASE \/ Preflight(u) \/ TransactionWork(u) \/ TransactionFails(u)
             \/ CommitConfirmed(u) \/ CommitReported(u)
    BY <1>0, <1>6, <1>7 DEF Preflight, TransactionWork, TransactionFails, InTransaction,
       CommitConfirmed, CommitReported, ExecutorAt
  <1>8. CASE OpenTransaction(u) \/ SendCommit(u) \/ CommitUnconfirmed(u) \/ Rollback(u)
    <2>1. /\ thread[th].at \in {"open", "work", "commit", "rollback"}
          /\ UNCHANGED <<registryVars, history>>
      BY <1>0, <1>8 DEF OpenTransaction, SendCommit, CommitUnconfirmed, Rollback, ExecutorAt
    <2>2. UNCHANGED target \/ \E v : target' = [target EXCEPT ![u] = v]
      BY <1>8 DEF OpenTransaction, SendCommit, CommitUnconfirmed, Rollback
    <2> QED
      BY <1>6, <2>1, <2>2
  <1>9. CASE ExecutorPanics(u)
    <2>1. thread[th].at \notin {"idle", "tail"} /\ UNCHANGED <<registryVars, history>>
      BY <1>0, <1>9 DEF ExecutorPanics
    <2>2. t # u => target'[t] = target[t]
      BY <1>9, Context DEF ExecutorPanics
    <2>3. Known(rec'[t]) => Known(rec[t])
      BY <2>1 DEF registryVars
    <2> QED
      BY <1>5, <2>1, <2>2, <2>3
  <1>10. CASE FinishExecution(u)
    <2>1. thread[th].at = "finish" /\ UNCHANGED <<history, target>>
      BY <1>0, <1>10 DEF FinishExecution
    <2>2. PICK a, b : <<a, b>> \in Results /\ thread[th].result = <<a, b>>
      BY <1>1, <2>1 DEF ExecutorShape, Results
    <2>3. FinishTask(u, a, b)
      BY <1>0, <1>10, <2>2 DEF FinishExecution
    <2>4. Known(rec'[t]) => Known(rec[t])
      BY <2>2, <2>3, NothingNew
    <2> QED
      BY <1>5, <2>1, <2>4
  <1>11. CASE Emit(th)
    <2>1. /\ thread[th].at = "emit" /\ UNCHANGED <<history, target>>
          /\ Progress(u, thread[th].stage)
      BY <1>3, <1>11 DEF Emit
    <2>2. thread[th].stage \in Reported
      BY <1>1, <2>1 DEF ExecutorShape, ExecutionStages, Reported, PreviewPhases,
                        ExecutionPhases
    <2>3. Known(rec'[t]) => Known(rec[t])
      BY <2>1, <2>2, NothingNew
    <2> QED
      BY <1>5, <2>1, <2>3
  <1>12. CASE Journal(th)
    <2>1. thread[th].at = "journal" /\ UNCHANGED target /\ thread[th].task = u
      BY <1>3, <1>12 DEF Journal
    <2>2. Calm(t)
      BY <1>12, <2>1, ObserveCalm, RaiseCalm DEF Journal, PersistOk, PersistFails
    <2>3. UNCHANGED history \/ PersistOk
      BY <1>12 DEF Journal, PersistFails
    <2> QED
      BY <1>5, <2>1, <2>2, <2>3, NothingNew
  <1>13. CASE TailStep(th)
    BY <1>1, <1>13, TailFile
  <1> QED
    BY <1>0, <1>7, <1>8, <1>9, <1>10, <1>11, <1>12, <1>13 DEF ExecutorStep

\* Every step keeps recorded executions on file.
LEMMA NextFile ==
    ASSUME RuntimeInv, RuntimeInv', TasksOK', FitsHistory', NEW t \in Tasks, OnFile(t),
           [Next]_vars
    PROVE  OnFile(t)'
  <1>1. ASSUME UNCHANGED <<rec, history, thread>>,
               MayBeCommitted(t)' => MayBeCommitted(t)
        PROVE  OnFile(t)'
    BY <1>1 DEF OnFile, Recorded, Owns
  <1>2. ASSUME NEW m \in Timers, Maintenance(m)
        PROVE  OnFile(t)'
    <2>1. Timer(m) \in Threads /\ thread \in [Threads -> ThreadState]
      BY Kinds, Context
    <2>2. OnlyThread(Timer(m)) /\ thread'[Timer(m)].at = "tail"
      BY <1>2, <2>1, CallLists, WindFacts DEF Maintenance
    <2>3. UNCHANGED <<rec, history, target>> /\ ~Recorded(Timer(m), t)'
      BY <1>2, <2>2, FreePlaces DEF Maintenance, registryVars, Recorded, Owns
    <2> QED
      BY <2>1, <2>2, <2>3, ThreadFile
  <1>3. ASSUME NEW m \in Timers, TailStep(Timer(m))
        PROVE  OnFile(t)'
    BY <1>3, Kinds, TailFile
  <1>4. ASSUME NEW u \in Tasks, DatabaseDecides(u)
        PROVE  OnFile(t)'
    <2>1. MayBeCommitted(t)' => MayBeCommitted(t)
      BY <1>4, Context DEF DatabaseDecides, MayBeCommitted
    <2> QED
      BY <1>1, <1>4, <2>1 DEF DatabaseDecides, registryVars
  <1>5. CASE Tick /\ UNCHANGED runtimeVars
    BY <1>1, <1>5 DEF Tick, runtimeVars, MayBeCommitted
  <1>6. CASE UNCHANGED vars
    BY <1>1, <1>6 DEF vars, registryVars, runtimeVars, MayBeCommitted
  <1>7. CASE Restart
    <2>1. \A th \in Threads : ~Recorded(th, t)'
      BY <1>7, IdleFacts, NilAssumption DEF Restart, Recorded, Owns
    <2>2. Known(rec'[t]) => history'[t].status # "Absent"
      BY <1>7 DEF Restart, Restored, NoRecord, Known
    <2> QED
      BY <2>1, <2>2 DEF OnFile
  <1>8. CASE RunningStep
    BY <1>2, <1>3, <1>4, <1>5, <1>8, CommandFile, CallerFile, PreviewerFile, ExecutorFile
       DEF RunningStep
  <1> QED
    BY <1>6, <1>7, <1>8 DEF Next

\* As long as the listed tasks fit into the history file, a crash after a COMMIT
\* was sent is restored as Succeeded or as an unknown outcome, never as
\* interrupted, failed or unheard of: the intent is durable before the effect.
THEOREM IntentDurable == Spec /\ []FitsHistory => []DurableIntent
  <1> DEFINE AllOnFile == \A t \in Tasks : OnFile(t)
  <1>1. Init => AllOnFile
    <2> SUFFICES ASSUME Init, NEW t \in Tasks
                 PROVE  OnFile(t)
      OBVIOUS
    <2>1. \A th \in Threads : ~Recorded(th, t)
      BY IdleFacts, NilAssumption DEF Init, Recorded, Owns
    <2>2. ~MayBeCommitted(t)
      BY DEF Init, MayBeCommitted
    <2> QED
      BY <2>1, <2>2 DEF OnFile
  <1>2. /\ RuntimeInv /\ (RuntimeInv /\ TasksOK)' /\ FitsHistory' /\ AllOnFile /\ [Next]_vars
        => AllOnFile'
    BY NextFile
  <1>3. RuntimeInv /\ TasksOK /\ AllOnFile => DurableIntent
    <2> SUFFICES ASSUME RuntimeInv, TasksOK, NEW t \in Tasks, OnFile(t), MayBeCommitted(t),
                        Known(rec[t])
                 PROVE  Restored(history[t]).status \in {"Succeeded", "OutcomeUnknown"}
      BY DEF DurableIntent
    <2> DEFINE h == history[t]
    <2>1. /\ h \in HistoryEntry /\ (h.status \in Terminal => h.commit # Nil)
          /\ h.status # "Absent" /\ HistoryOK(t)
      BY DEF RuntimeInv, RuntimeTypeOK, HistorySound, OnFile, TasksOK, TaskOK
    <2>2. CASE h.status = "Open"
      BY <2>1, <2>2, RestoredFacts DEF HistoryOK
    <2>3. CASE h.status \in Terminal
      <3>1. <<h.status, h.commit>> \in Endings /\ h.commit \notin {"None", "RolledBack"}
        BY <2>1, <2>3 DEF HistoryOK, Honest, MayBeCommitted
      <3>2. h.status \in {"Succeeded", "OutcomeUnknown"}
        BY <3>1 DEF Endings, Results
      <3> QED
        BY <2>1, <2>3, <3>2, RestoredFacts
    <2> QED
      BY <2>1, <2>2, <2>3 DEF HistoryEntry
  <1> HIDE DEF AllOnFile
  <1> QED
    BY <1>1, <1>2, <1>3, TasksInvariance, PTL DEF Spec
===============================================================================
