----------------------------- MODULE MCRuntimes -----------------------------
(* The runtime on three small instances, and a behaviour is one of one of them:
   one task from its registration on, with the maintenance timer and a crash
   ("one"); two tasks whose previews are ready ("two"); and two commands in
   flight for one ready task beside as many finished ones as are kept, so that any
   of them may be trimmed while threads still run for it ("callers"). *)
EXTENDS DataTaskRuntime

CONSTANTS t1, t2, t3, p1, p2, c1, c2

VARIABLE part

\* The first task is on a network database, the second on SQLite.
TasksOf == [one |-> {t1}, two |-> {t1, t2}, callers |-> {t2}][part]
PlansOf == [one |-> {p1}, two |-> {p1, p2}, callers |-> {p2}][part]
CallersOf == [one |-> {c1}, two |-> {c1}, callers |-> {c1, c2}][part]

\* Previews that are published and recorded, and previews that were cancelled.
ReadyRecord(p) == [NoRecord EXCEPT !.status = "Ready", !.plan_id = p, !.preview = p,
                                   !.expires_at = PreviewLife]
CancelledRecord == [NoRecord EXCEPT !.status = "Cancelled", !.commit = "None", !.cancel = TRUE]

InitWith(records) ==
    /\ rec = records
    /\ plans = {rec[t].plan_id : t \in {u \in Tasks : rec[u].status = "Ready"}}
    /\ spools = plans
    /\ cancelledBefore = {}
    /\ writer = Nil
    /\ now = 0
    /\ thread = [th \in Threads |-> Idle]
    /\ history = [t \in Tasks |-> IF Known(rec[t]) THEN Summary(rec[t]) ELSE NoTask]
    /\ target = [t \in Tasks |-> "clean"]
    /\ crashes = 0

MCInit ==
    \/ part = "one" /\ Init
    \/ part = "two" /\ InitWith([t \in Tasks |-> CASE t = t1 -> ReadyRecord(p1)
                                                   [] t = t2 -> ReadyRecord(p2)
                                                   [] OTHER -> NoRecord])
    \/ part = "callers" /\ InitWith([t \in Tasks |-> IF t = t2 THEN ReadyRecord(p2)
                                                    ELSE CancelledRecord])

\* The steps for the tasks of the instance.
Command(c) ==
    \/ Poll(c)
    \/ \E t \in TasksOf : StartPreview(c, t) \/ Execute(c, t) \/ CancelTask(c, t)
    \/ \E p \in PlansOf : Discard(c, p)
Step ==
    \/ \E c \in CallersOf : Command(c) \/ CallerStep(c)
    \/ \E t \in TasksOf : PreviewerStep(t) \/ ExecutorStep(t) \/ DatabaseDecides(t)
Clockwork ==
    \/ \E m \in Timers : Maintenance(m) \/ TailStep(Timer(m))
    \/ Tick /\ UNCHANGED runtimeVars
    \/ Restart

MCNext == /\ Step \/ (part = "one" /\ Clockwork)
          /\ spools' \subseteq PlansOf
          /\ UNCHANGED part
MCSpec == MCInit /\ [][MCNext]_<<vars, part>>
=============================================================================
