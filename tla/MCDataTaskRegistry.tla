------------------------- MODULE MCDataTaskRegistry -------------------------
(* DataTaskRegistry on a small instance. *)
EXTENDS DataTaskRegistry, TLC

IdSymmetry == Permutations(Tasks) \cup Permutations(Plans)
                \cup Permutations(Executions)
=============================================================================
