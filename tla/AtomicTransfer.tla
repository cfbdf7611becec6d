--------------------------- MODULE AtomicTransfer ---------------------------
(***************************************************************************)
(* What a data task promises (README.md, "数据同步与数据传输"): the source   *)
(* is frozen when the preview is made, and the target changes in one step, *)
(* by the rule of the mode applied to what the target holds at that        *)
(* moment, or not at all.  Only an outcome reported as unknown leaves the  *)
(* question open.  A row is <<table, key, value>>.                         *)
(***************************************************************************)
CONSTANTS Databases   \* what source and target may hold

VARIABLES mode, frozen, target, outcome, applied

vars == <<mode, frozen, target, outcome, applied>>

SameKey(r, q) == r[1] = q[1] /\ r[2] = q[2]

Desired(t) ==
    CASE mode = "merge"  -> frozen \cup {r \in t : \A q \in frozen : ~SameKey(r, q)}
      [] mode = "append" -> frozen \cup t
      [] OTHER           -> frozen

Init ==
    /\ mode \in {"merge", "mirror", "append", "replace"}
    /\ frozen = {} /\ target \in Databases /\ outcome = "none" /\ applied = FALSE

\* The preview; a task that is prepared again would be a new one.
Freeze ==
    /\ ~applied /\ outcome = "none" /\ frozen = {} /\ frozen' \in Databases
    /\ UNCHANGED <<mode, target, outcome, applied>>

Others == target' \in Databases /\ UNCHANGED <<mode, frozen, outcome, applied>>

\* An append that meets a key of the target is refused, not applied.
Apply ==
    /\ ~applied /\ outcome \in {"none", "unknown"}
    /\ mode = "append" => \A r \in target, q \in frozen : ~SameKey(r, q)
    /\ target' = Desired(target) /\ applied' = TRUE
    /\ UNCHANGED <<mode, frozen, outcome>>

Report ==
    /\ outcome = "none"
    /\ \/ outcome' = "committed" /\ applied
       \/ outcome' = "failed" /\ ~applied
       \/ outcome' = "unknown"
    /\ UNCHANGED <<mode, frozen, target, applied>>

Next == Freeze \/ Others \/ Apply \/ Report
Spec == Init /\ [][Next]_vars
=============================================================================
