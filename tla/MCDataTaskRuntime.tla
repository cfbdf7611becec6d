-------------------------- MODULE MCDataTaskRuntime -------------------------
(* DataTaskRuntime on small instances. *)
EXTENDS DataTaskRuntime

\* Every task has been previewed, its preview is published, recorded in the
\* history and waits for the user; the preview workers are done.
InitReady ==
    /\ \E plan \in [Tasks -> Plans] :
          /\ \A t, u \in Tasks : plan[t] = plan[u] => t = u
          /\ rec = [t \in Tasks |->
                      [NoRecord EXCEPT !.status = "Ready", !.plan_id = plan[t],
                                       !.preview = plan[t],
                                       !.expires_at = PreviewLife]]
          /\ plans = {plan[t] : t \in Tasks}
          /\ spools = plans
    /\ cancelledBefore = {}
    /\ writer = Nil
    /\ now = 0
    /\ thread = [th \in Threads |-> Idle]
    /\ history = [t \in Tasks |-> Summary(rec[t])]
    /\ target = [t \in Tasks |-> "clean"]
    /\ crashes = 0

ReadySpec == InitReady /\ [][Next]_vars
=============================================================================
