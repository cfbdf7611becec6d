-------------------------- MODULE DataTaskRegistry --------------------------
(***************************************************************************)
(* The in-memory registry of data tasks (db/data_tasks/registry.rs).       *)
(*                                                                         *)
(* The registry is one Mutex<RegistryInner>: every public method takes the *)
(* lock for its whole body, so every method is one action here.  The       *)
(* methods may be called by any command handler and any worker in any      *)
(* order; this module therefore constrains nothing about the callers.      *)
(*                                                                         *)
(* Left out of a record: row counters, the sequence number, the request    *)
(* and the text of clean-up messages, none of which a method decides on (a *)
(* repeat of an id with another request is refused exactly like one with   *)
(* the same request: the record is left as it is).                         *)
(***************************************************************************)
EXTENDS Naturals, FiniteSets

CONSTANTS
    Tasks,          \* task ids (chosen by the front end)
    Plans,          \* plan ids (fresh UUIDs, one per completed preview)
    Executions,     \* execution ids (UUIDs chosen by the front end)
    Nil,            \* Rust's None
    PreviewLimit,   \* previews that may be open at once      (3 in the code)
    TerminalLimit,  \* terminal records that are kept       (100 in the code)
    CancelLimit,    \* cancellations remembered ahead      (1000 in the code)
    PreviewLife,    \* life of a preview             (15 minutes in the code)
    MaxTime         \* bound on the clock (model checking only)

ASSUME LimitsAssumption ==
    /\ PreviewLimit \in Nat
    /\ TerminalLimit \in Nat
    /\ CancelLimit \in Nat
    /\ PreviewLife \in Nat
    /\ MaxTime \in Nat

ASSUME TasksFinite == IsFiniteSet(Tasks)

VARIABLES
    rec,              \* RegistryInner.records; an id without record has NoRecord
    cancelledBefore,  \* RegistryInner.cancelled_before_register
    writer,           \* RegistryInner.writer
    now               \* the system clock

registryVars == <<rec, cancelledBefore, writer, now>>

-----------------------------------------------------------------------------
(* Types *)

PreviewPhases == {"Created", "Validating", "Reading", "Comparing", "Ready"}
ExecutionPhases == {"Executing", "Verifying", "Committing"}
Terminal == {"Succeeded", "Failed", "Cancelled", "Expired", "Interrupted",
             "OutcomeUnknown"}
Status == PreviewPhases \cup ExecutionPhases \cup {"Cancelling"} \cup Terminal

CommitState == {"None", "Committed", "RolledBack", "Unknown"}

\* ExecuteDataTaskInput: "matches" says that the preview can be executed and that
\* the fingerprint is its own, "accepted" that every required risk is accepted.
Input == [execution_id : Executions, plan_id : Plans,
          matches : BOOLEAN, accepted : BOOLEAN]

ASSUME NilAssumption ==
    /\ Nil \notin Tasks
    /\ Nil \notin Plans
    /\ Nil \notin Executions
    /\ Nil \notin Input
    /\ Nil \notin CommitState

\* A Record and the parts of its snapshot that a method looks at.  "preview" is
\* the plan id inside snapshot.preview, "commit" the result's commit_state.
Record == [status       : Status \cup {"Absent"},
           cancel       : BOOLEAN,
           execution    : Input \cup {Nil},
           execution_id : Executions \cup {Nil},
           plan_id      : Plans \cup {Nil},
           preview      : Plans \cup {Nil},
           expires_at   : Nat,
           commit       : CommitState \cup {Nil},
           updated_at   : Nat]

NoRecord == [status |-> "Absent", cancel |-> FALSE, execution |-> Nil,
             execution_id |-> Nil, plan_id |-> Nil, preview |-> Nil,
             expires_at |-> 0, commit |-> Nil, updated_at |-> 0]

RegistryTypeOK ==
    /\ rec \in [Tasks -> Record]
    /\ cancelledBefore \in SUBSET Tasks
    /\ writer \in Tasks \cup {Nil}
    /\ now \in Nat

-----------------------------------------------------------------------------
(* Helpers *)

Known(r) == r.status # "Absent"
IsTerminal(r) == r.status \in Terminal
Live(r) == Known(r) /\ ~IsTerminal(r)

\* phase(): the order in which progress may move a status.
Phase(s) ==
    CASE s = "Created" -> 0
      [] s = "Validating" -> 1
      [] s = "Reading" -> 2
      [] s = "Comparing" -> 3
      [] s = "Ready" -> 4
      [] s = "Executing" -> 5
      [] s = "Verifying" -> 6
      [] s = "Committing" -> 7
      [] OTHER -> 8

\* A Ready record whose preview has outlived its deadline.
Lapsed(r) == r.status = "Ready" /\ r.preview # Nil /\ r.expires_at <= now

ExpireRecord(r) ==
    IF Lapsed(r)
    THEN [r EXCEPT !.status = "Expired", !.preview = Nil, !.commit = "None",
                   !.cancel = TRUE, !.updated_at = now]
    ELSE r

\* The records after expire(), which most methods run first.
Expired == [t \in Tasks |-> ExpireRecord(rec[t])]

TerminalIds(R) == {t \in Tasks : IsTerminal(R[t])}

\* The sets of ids trim() may remove: the excess over TerminalLimit, oldest
\* first.  Records of the same millisecond come in any order.
TrimChoices(R) ==
    {G \in SUBSET TerminalIds(R) :
        /\ Cardinality(G) = IF Cardinality(TerminalIds(R)) > TerminalLimit
                            THEN Cardinality(TerminalIds(R)) - TerminalLimit
                            ELSE 0
        /\ \A g \in G, k \in TerminalIds(R) \ G :
              R[g].updated_at <= R[k].updated_at}

Drop(R, G) == [t \in Tasks |-> IF t \in G THEN NoRecord ELSE R[t]]

\* What register_preview counts against PreviewLimit.
OpenPreviews(R) == {t \in Tasks : Live(R[t]) /\ R[t].execution_id = Nil}

-----------------------------------------------------------------------------
(* The methods *)

\* The record of a new task; one cancelled ahead of time is born Cancelled.
NewRecord(t) ==
    IF t \in cancelledBefore
    THEN [NoRecord EXCEPT !.status = "Cancelled", !.cancel = TRUE,
                          !.commit = "None", !.updated_at = now]
    ELSE [NoRecord EXCEPT !.status = "Created", !.updated_at = now]

\* Faulty: admits one preview too many.
RegisterOneTooMany(t) ==
    /\ ~Known(Expired[t])
    /\ Cardinality(OpenPreviews(Expired)) <= PreviewLimit
    /\ LET R == [Expired EXCEPT ![t] = NewRecord(t)]
       IN \E G \in TrimChoices(R) : rec' = Drop(R, G)
    /\ cancelledBefore' = cancelledBefore \ {t}
    /\ UNCHANGED <<writer, now>>

\* register_preview for an id without record, under the limit.  A cancellation
\* that arrived first is consumed.
RegisterPreview(t) ==
    /\ ~Known(Expired[t])
    /\ Cardinality(OpenPreviews(Expired)) < PreviewLimit
    /\ LET R == [Expired EXCEPT ![t] = NewRecord(t)]
       IN \E G \in TrimChoices(R) : rec' = Drop(R, G)
    /\ cancelledBefore' = cancelledBefore \ {t}
    /\ UNCHANGED <<writer, now>>

\* list, snapshot, has_active, and every refused or repeated register_preview
\* or begin_execution: they expire previews and change nothing else.
Observe ==
    /\ rec' = Expired
    /\ UNCHANGED <<cancelledBefore, writer, now>>

CanSetReady(t) ==
    /\ Live(rec[t])
    /\ ~rec[t].cancel
    /\ rec[t].execution_id = Nil

\* set_ready: publishes plan p as the preview of t.  Plan ids are fresh UUIDs.
SetReady(t, p, deadline) ==
    /\ CanSetReady(t)
    /\ \A u \in Tasks : rec[u].plan_id # p
    /\ rec' = [rec EXCEPT ![t].status = "Ready", ![t].plan_id = p,
                          ![t].preview = p, ![t].expires_at = deadline,
                          ![t].updated_at = now]
    /\ UNCHANGED <<cancelledBefore, writer, now>>

\* The record that already carries this execution id.
Started(R, e) == {t \in Tasks : R[t].execution # Nil
                                /\ R[t].execution.execution_id = e}

\* Faulty: does not look for an earlier run of the execution id.
BeginRepeats(R, t, input) ==
    /\ R[t].plan_id = input.plan_id
    /\ R[t].execution = Nil
    /\ R[t].preview # Nil
    /\ R[t].status = "Ready"
    /\ input.matches
    /\ input.accepted
    /\ writer = Nil

\* Faulty: does not look at the writer slot.
BeginBesideWriter(R, t, input) ==
    /\ Started(R, input.execution_id) = {}
    /\ R[t].plan_id = input.plan_id
    /\ R[t].execution = Nil
    /\ R[t].preview # Nil
    /\ R[t].status = "Ready"
    /\ input.matches
    /\ input.accepted

\* begin_execution's tests for a new execution of task t.
MayBegin(R, t, input) ==
    /\ Started(R, input.execution_id) = {}
    /\ R[t].plan_id = input.plan_id
    /\ R[t].execution = Nil
    /\ R[t].preview # Nil
    /\ R[t].status = "Ready"
    /\ input.matches
    /\ input.accepted
    /\ writer = Nil

BeginExecution(t, input) ==
    /\ MayBegin(Expired, t, input)
    /\ rec' = [Expired EXCEPT ![t].execution = input,
                              ![t].execution_id = input.execution_id,
                              ![t].status = "Executing",
                              ![t].updated_at = now]
    /\ writer' = t
    /\ UNCHANGED <<cancelledBefore, now>>

\* cancel of an id that is not registered (yet): remembered, up to CancelLimit.
CancelUnknown(t) ==
    /\ ~Known(rec[t])
    /\ Cardinality(cancelledBefore) < CancelLimit
    /\ cancelledBefore' = cancelledBefore \cup {t}
    /\ UNCHANGED <<rec, writer, now>>

\* cancel refuses to touch a terminal or a committing task.
CancelAccepted(r) == Live(r) /\ r.status # "Committing"

\* Faulty: the status changes but the flag is not raised.
CancelWithoutFlag(r) ==
    IF r.status \in {"Ready", "Created"}
    THEN [r EXCEPT !.status = "Cancelled", !.preview = Nil, !.commit = "None",
                   !.updated_at = now]
    ELSE [r EXCEPT !.status = "Cancelling", !.updated_at = now]

\* The record after an accepted cancel.
CancelRecord(r) ==
    IF r.status \in {"Ready", "Created"}
    THEN [r EXCEPT !.cancel = TRUE, !.status = "Cancelled", !.preview = Nil,
                   !.commit = "None", !.updated_at = now]
    ELSE [r EXCEPT !.cancel = TRUE, !.status = "Cancelling",
                   !.updated_at = now]

Cancel(t) ==
    /\ CancelAccepted(rec[t])
    /\ rec' = [rec EXCEPT ![t] = CancelRecord(rec[t])]
    /\ UNCHANGED <<cancelledBefore, writer, now>>

\* The statuses the workers report through the progress callback.
Reported == (PreviewPhases \ {"Created"}) \cup ExecutionPhases \cup {"Succeeded"}

\* Faulty: lets a late report move a status backwards.
ProgressBackwards(r, s) ==
    /\ Live(r)
    /\ r.status # "Cancelling"
    /\ s \notin Terminal

ProgressApplies(r, s) ==
    /\ Live(r)
    /\ r.status # "Cancelling"
    /\ s \notin Terminal
    /\ Phase(s) >= Phase(r.status)

\* progress: late, terminal and backward updates are ignored.
ProgressRecord(r, s) ==
    IF ProgressApplies(r, s)
    THEN [r EXCEPT !.status = s, !.updated_at = now]
    ELSE r

Progress(t, s) ==
    /\ rec' = [rec EXCEPT ![t] = ProgressRecord(rec[t], s)]
    /\ UNCHANGED <<cancelledBefore, writer, now>>

\* Faulty: status and commit state swapped.
FinishSwapped(r, status, commit) ==
    [r EXCEPT !.status = commit, !.commit = status, !.preview = Nil,
              !.updated_at = now]

\* finish: the first terminal result wins; the writer slot is released, trim runs.
FinishRecord(r, status, commit) ==
    [r EXCEPT !.status = status, !.commit = commit, !.preview = Nil,
              !.updated_at = now]

\* Faulty: keeps the writer slot.
FinishKeepsWriter(t, status, commit) ==
    /\ Live(rec[t])
    /\ LET R == [rec EXCEPT ![t] = FinishRecord(rec[t], status, commit)]
       IN \E G \in TrimChoices(R) : rec' = Drop(R, G)
    /\ UNCHANGED <<cancelledBefore, writer, now>>

\* Faulty: the last result wins.
FinishAgain(t, status, commit) ==
    /\ Known(rec[t])
    /\ LET R == [rec EXCEPT ![t] = FinishRecord(rec[t], status, commit)]
       IN \E G \in TrimChoices(R) : rec' = Drop(R, G)
    /\ writer' = IF writer = t THEN Nil ELSE writer
    /\ UNCHANGED <<cancelledBefore, now>>

Finish(t, status, commit) ==
    /\ Live(rec[t])
    /\ LET R == [rec EXCEPT ![t] = FinishRecord(rec[t], status, commit)]
       IN \E G \in TrimChoices(R) : rec' = Drop(R, G)
    /\ writer' = IF writer = t THEN Nil ELSE writer
    /\ UNCHANGED <<cancelledBefore, now>>

\* A failed persist() in the progress callback: the records were listed, then
\* the flag that the record and its worker share is set.
RaiseCancelFlag(t) ==
    /\ Known(rec[t])
    /\ rec' = [Expired EXCEPT ![t].cancel = TRUE]
    /\ UNCHANGED <<cancelledBefore, writer, now>>

\* The record after append_cleanup_error: a terminal one gets a result if it has
\* none, and is touched.
CleanupNoted(r) ==
    IF IsTerminal(r)
    THEN [r EXCEPT !.commit = IF @ = Nil THEN "None" ELSE @, !.updated_at = now]
    ELSE r

\* append_cleanup_error for the tasks S on the records R: R is Expired when a
\* failed persist() has listed them, otherwise rec.
AppendCleanupError(R, S) ==
    /\ rec' = [t \in Tasks |-> IF t \in S THEN CleanupNoted(R[t]) ELSE R[t]]
    /\ UNCHANGED <<cancelledBefore, writer, now>>

Tick ==
    /\ now < MaxTime
    /\ now' = now + 1
    /\ UNCHANGED <<rec, cancelledBefore, writer>>

\* The results the workers report: see DataTaskRuntime for which one when.
Results == {<<"Succeeded", "Committed">>, <<"Failed", "None">>,
            <<"Failed", "RolledBack">>, <<"Cancelled", "None">>,
            <<"Cancelled", "RolledBack">>, <<"OutcomeUnknown", "Unknown">>}

-----------------------------------------------------------------------------

RegistryInit ==
    /\ rec = [t \in Tasks |-> NoRecord]
    /\ cancelledBefore = {}
    /\ writer = Nil
    /\ now = 0

RegistryNext ==
    \/ \E t \in Tasks : RegisterPreview(t)
    \/ Observe
    \/ \E t \in Tasks, p \in Plans, d \in 0 .. now + PreviewLife :
          SetReady(t, p, d)
    \/ \E t \in Tasks, input \in Input : BeginExecution(t, input)
    \/ \E t \in Tasks : CancelUnknown(t)
    \/ \E t \in Tasks : Cancel(t)
    \/ \E t \in Tasks, s \in Reported : Progress(t, s)
    \/ \E t \in Tasks, r \in Results : Finish(t, r[1], r[2])
    \/ \E t \in Tasks : RaiseCancelFlag(t)
    \/ \E S \in SUBSET Tasks, R \in {rec, Expired} : AppendCleanupError(R, S)
    \/ Tick

RegistrySpec == RegistryInit /\ [][RegistryNext]_registryVars

-----------------------------------------------------------------------------
(* Properties *)

\* The single writer slot and the records agree: the slot names a task exactly
\* while that task has a begun execution without a result.  So at most one
\* execution runs, and a slot is never leaked: begin_execution takes it and
\* only finish gives it back, while cancel, progress, expire and trim must not
\* end an execution behind its back.
WriterOwns ==
    \A t \in Tasks : writer = t <=> rec[t].execution # Nil /\ Live(rec[t])

\* While an execution runs its status stays in the execution phases: a late
\* report of the preview worker never moves a running task back to Ready, where
\* cancel and expire would end it without releasing the writer slot.
RunningPhase ==
    \A t \in Tasks :
        rec[t].execution # Nil /\ Live(rec[t])
            => rec[t].status \in ExecutionPhases \cup {"Cancelling"}

\* The snapshot shows the execution id of the execution that was begun.
ExecutionIdShown ==
    \A t \in Tasks :
        rec[t].execution # Nil => rec[t].execution_id = rec[t].execution.execution_id

\* An execution id starts at most one task and a plan belongs to at most one
\* record: begin_execution called again with the id finds the first run, and
\* no retry writes the same plan twice.
ExecutedOnce ==
    \A t, u \in Tasks :
        t # u => /\ rec[t].execution # Nil /\ rec[u].execution # Nil
                      => rec[t].execution.execution_id # rec[u].execution.execution_id
                 /\ rec[t].plan_id # Nil => rec[t].plan_id # rec[u].plan_id

\* Never more than PreviewLimit previews hold spool files at a time, whatever
\* mixture of cancellations, expiries and executions happened before.
PreviewsBounded == Cardinality(OpenPreviews(rec)) <= PreviewLimit

\* A task that shows Cancelling only ever leaves that status for a terminal
\* one: progress must ignore later phases, so a cancelled execution never
\* reaches Committing, the status in which cancel is refused.
CancellingEnds ==
    [][\A t \in Tasks :
         rec[t].status = "Cancelling"
            => rec'[t].status \in Terminal \cup {"Cancelling", "Absent"}]_registryVars

\* The first terminal result is final: late results, progress reports, cancels
\* and expiry never replace a terminal status or its commit state; the record
\* can only be trimmed.
TerminalIsFinal ==
    [][\A t \in Tasks :
         IsTerminal(rec[t])
            => \/ rec'[t] = NoRecord
               \/ /\ rec'[t].status = rec[t].status
                  /\ rec'[t].commit = rec[t].commit]_registryVars

=============================================================================
