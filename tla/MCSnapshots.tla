----------------------------- MODULE MCSnapshots -----------------------------
(* The snapshot of one endpoint, its external sort and the execution that
   compares it with the target, on small instances.  They run one after the
   other and share only the task's budget, which each starts with what the
   earlier ones left, so a behaviour moves one part and leaves the others where
   they start. *)
EXTENDS SnapshotStream, ExternalSort

CONSTANTS Tables, Rows, ForeignKeys, Modes, Engines, Batch, MaxDrift, MaxFaults

VARIABLES part
VARIABLES mode, engine, fks, src, tgt, at, plan, stage, sent, tx, session, link, outcome, withdrawn, late,
          drifts, faults

Transfer == INSTANCE DataTransfer WITH cancelled <- withdrawn

transferVars == <<mode, engine, fks, src, tgt, at, plan, stage, sent, tx, session, link, outcome, withdrawn,
                  late, drifts, faults>>
MCVars == <<vars, part, sortVars, transferVars>>

-----------------------------------------------------------------------------
\* Two tables with at most two keys; the first refers to the second.
TwoTables == {1, 2}
FewRows == {<<1, 1, 1>>, <<1, 1, 2>>, <<2, 1, 1>>, <<2, 2, 1>>}
ChildFirst == {{<<1, 2>>}}

\* Snapshots of at most four rows over two keys, and three longer ones; a unit
\* is 4 MiB.
Row(k, v, n) == [key |-> k, value |-> v, size |-> n]
FewKeys == {Row(1, 1, 1), Row(2, 1, 2), Row(2, 2, 1)}
SortInputs == UNION {[1 .. n -> FewKeys] : n \in 0 .. 4}
              \cup {[i \in 1 .. n |-> Row(n - i, 1, 1)] : n \in {7, 9}}
              \cup {[i \in 1 .. 5 |-> Row(i % 3, 1, 2)]}

\* Endpoints of at most three rows; one of size 9 exceeds the limit of 3.
Mixed == UNION {[1 .. n -> {1, 2, 3, 9}] : n \in 0 .. 2} \cup {<<1, 1, 1>>, <<2, 1, 3>>, <<3, 3, 2>>}
AllAdapters == {"payload", "held", "direct"}

-----------------------------------------------------------------------------
MCInit ==
  /\ part \in {"transfer", "sort", "stream"}
  /\ Transfer!Init /\ (part # "transfer" => mode = "replace" /\ engine = "sqlite" /\ src = {} /\ tgt = {})
  /\ SortInit /\ (part # "sort" => input = <<>>)
  /\ Init /\ (part # "stream" => source = <<>> /\ adapter = "direct" /\ ~projected)

MCNext ==
  \/ part = "transfer" /\ Transfer!Next /\ UNCHANGED <<part, sortVars, vars>>
  \/ part = "sort" /\ SortNext /\ UNCHANGED <<part, vars, transferVars>>
  \/ part = "stream" /\ Next /\ UNCHANGED <<part, transferVars, sortVars>>

\* The fairness of the three specifications, each for the part that moves.
MCSpec ==
  /\ MCInit /\ [][MCNext]_MCVars
  /\ WF_transferVars(part = "transfer" /\ Transfer!Work)
  /\ WF_transferVars(part = "transfer" /\ Transfer!Server)
  /\ WF_sortVars(part = "sort" /\ SortStep)
  /\ WF_vars(part = "stream" /\ Reader)
  /\ WF_vars(part = "stream" /\ Writer)

-----------------------------------------------------------------------------
\* Reading and sorting end, whatever fails and whoever waits for whom, and an
\* execution gives back its locks: SnapshotStream, ExternalSort, DataTransfer.
StagesEnd == /\ part = "stream" => SnapshotEnds
             /\ part = "sort" => SortEnds
             /\ Transfer!LocksReleased
=============================================================================
