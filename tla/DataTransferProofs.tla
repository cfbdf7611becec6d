-------------------------- MODULE DataTransferProofs --------------------------
(***************************************************************************)
(* Proofs about DataTransfer for any tables, rows, foreign keys, batch     *)
(* size, drift and faults: it implements AtomicTransfer, and what it       *)
(* commits is what its preview showed.                                     *)
(*                                                                         *)
(* The place of the task tells the state of its transaction at the server; *)
(* while that holds the locks nobody else writes, so the target is still   *)
(* the one of the preview once it was compared, and the comparison before  *)
(* the COMMIT is with the rows the mode asks for.  That an append meets no *)
(* key of the target needs the order of the statements: every table has    *)
(* its stage, a stage ends only when nothing is pending, and the server    *)
(* refuses a row whose key exists.                                         *)
(*                                                                         *)
(* The gate in front of the transaction: what may be written to was read   *)
(* under the locks, and what an account cannot see is never taken for what *)
(* is not there (TransferGate).  The pages of the preview: a client that   *)
(* asks to the end has seen every operation (DiffPages).                   *)
(***************************************************************************)
EXTENDS DataTransfer, TransferGate, DiffPages, Induction, FiniteSetTheorems, TLAPS

-----------------------------------------------------------------------------
(* The order of the tables *)

\* The order of the tables is a strict total one.
LEMMA EarlierIsTotal ==
    /\ \A t \in Tables : Round(t) \in Nat
    /\ \A t \in Tables : ~Earlier(t, t)
    /\ \A t, u \in Tables : t # u => Earlier(t, u) \/ Earlier(u, t)
    /\ \A t, u, v \in Tables : Earlier(t, u) /\ Earlier(u, v) => Earlier(t, v)
  <1>1. Cardinality(Tables) \in Nat
    BY TransferConstants, FS_CardinalityType
  <1>2. ASSUME NEW t \in Tables
        PROVE  Round(t) \in Nat
    <2>1. IsFiniteSet(1 .. Cardinality(Tables))
      BY <1>1, FS_Interval
    <2>2. IsFiniteSet({n \in 1 .. Cardinality(Tables) : t \notin Placed[n]})
      BY <2>1, FS_Subset
    <2> QED
      BY <2>2, FS_CardinalityType DEF Round
  <1> QED
    BY <1>2, TransferConstants DEF Earlier

\* Every table has its place in the order of a preview.
LEMMA OrderCovers ==
    /\ insert_order \in Seq(Tables)
    /\ \A t \in Tables : \E n \in 1 .. Len(insert_order) : insert_order[n] = t
  <1> DEFINE N == Cardinality(Tables)
             rank == [t \in Tables |-> Cardinality(Before(t))]
  <1>1. N \in Nat /\ IsFiniteSet(0 .. N - 1) /\ Cardinality(0 .. N - 1) = N
    <2>1. N \in Nat
      BY TransferConstants, FS_CardinalityType
    <2>2. 0 \in Int /\ N - 1 \in Int /\ (0 > N - 1 => N = 0)
      BY <2>1
    <2>3. /\ IsFiniteSet(0 .. N - 1)
          /\ Cardinality(0 .. N - 1) = IF 0 > N - 1 THEN 0 ELSE (N - 1) - 0 + 1
      BY <2>2, FS_Interval
    <2> HIDE DEF N
    <2> QED
      BY <2>1, <2>3
  <1>2. ASSUME NEW t \in Tables
        PROVE  IsFiniteSet(Before(t)) /\ rank[t] \in 0 .. N - 1
    <2>1. Before(t) \in SUBSET (Tables \ {t})
      BY EarlierIsTotal DEF Before
    <2>2. IsFiniteSet(Tables \ {t}) /\ Cardinality(Tables \ {t}) = N - 1
      BY TransferConstants, FS_RemoveElement
    <2>3. IsFiniteSet(Before(t)) /\ Cardinality(Before(t)) <= N - 1
      BY <2>1, <2>2, FS_Subset
    <2>4. Cardinality(Before(t)) \in Nat
      BY <2>3, FS_CardinalityType
    <2> QED
      BY <1>1, <2>3, <2>4
  <1>3. ASSUME NEW t \in Tables, NEW u \in Tables, Earlier(u, t)
        PROVE  rank[u] # rank[t]
    <2>1. Before(u) \in SUBSET Before(t) /\ u \in Before(t) /\ u \notin Before(u)
      BY <1>3, EarlierIsTotal DEF Before
    <2> QED
      BY <1>2, <2>1, FS_Subset
  <1>4. rank \in [Tables -> 0 .. N - 1]
    BY <1>2
  <1>5. \A t, u \in Tables : rank[t] = rank[u] => t = u
    BY <1>3, EarlierIsTotal
  <1> HIDE DEF rank
  <1>6. rank \in Surjection(Tables, 0 .. N - 1)
    <2>1. rank \in Injection(Tables, 0 .. N - 1)
      BY <1>4, <1>5 DEF Injection, IsInjective
    <2> QED
      BY <1>1, <2>1, FS_Injection
  <1>7. \A i \in 1 .. N : \E t \in Tables : rank[t] = i - 1
    BY <1>1, <1>6 DEF Surjection
  <1>8. \A i \in 1 .. N : insert_order[i] \in Tables /\ rank[insert_order[i]] = i - 1
    BY <1>7 DEF insert_order, rank
  <1>9. insert_order \in [1 .. N -> Tables]
    BY <1>8 DEF insert_order
  <1>10. insert_order \in Seq(Tables) /\ Len(insert_order) = N
    BY <1>1, <1>9
  <1>11. \A t \in Tables : rank[t] + 1 \in 1 .. N /\ insert_order[rank[t] + 1] = t
    BY <1>1, <1>4, <1>5, <1>8
  <1> QED
    BY <1>10, <1>11

-----------------------------------------------------------------------------
(* Batches and stages *)

\* Every nonempty set of naturals has a least element (the smallest key of the rows
\* that are pending).
LEMMA NatMin ==
    ASSUME NEW T \in SUBSET Nat, T # {}
    PROVE  \E x \in T : \A y \in T : x <= y
  <1>1. PICK x \in T : \A y \in T : <<y, x>> \notin OpToRel(<, Nat)
    BY NatLessThanWellFounded, WFMin
  <1>2. \A y \in T : ~(y < x)
    BY <1>1 DEF OpToRel
  <1> QED
    BY <1>2

\* As long as rows are pending a batch has rows.
LEMMA BatchMoves ==
    ASSUME Pending \subseteq Rows, Pending # {}
    PROVE  next_batch # {}
  <1>1. {r[2] : r \in Pending} \in SUBSET Nat /\ {r[2] : r \in Pending} # {}
    BY TransferConstants
  <1>2. PICK k \in {r[2] : r \in Pending} : \A y \in {r[2] : r \in Pending} : k <= y
    BY <1>1, NatMin
  <1>3. PICK r \in Pending : r[2] = k
    BY <1>2
  <1>4. ASSUME NEW q \in Pending
        PROVE  ~(q[2] < r[2])
    <2>1. q[2] \in {p[2] : p \in Pending}
      OBVIOUS
    <2>2. q[2] \in Nat /\ r[2] \in Nat /\ r[2] <= q[2]
      BY <1>1, <1>2, <1>3, <2>1
    <2> QED
      BY <2>2
  <1>5. PICK smaller : smaller = {q \in Pending : q[2] < r[2]}
    OBVIOUS
  <1>6. smaller = {}
    BY <1>4, <1>5
  <1>7. Cardinality(smaller) < Batch
    BY <1>6, FS_EmptySet, TransferConstants
  <1> QED
    BY <1>5, <1>7 DEF next_batch

\* The stages end with the inserts of every table of the order.
LEMMA StageFacts ==
    ASSUME plan.order \in Seq(Tables)
    PROVE  /\ Stages \in Seq({"delete", "update", "insert"} \X Tables)
           /\ \A n \in 1 .. Len(plan.order) :
                 \E i \in 1 .. Len(Stages) : Stages[i] = <<"insert", plan.order[n]>>
  <1> DEFINE K == {"delete", "update", "insert"} \X Tables
  <1>1. ASSUME NEW kind \in {"delete", "update", "insert"}, NEW order \in Seq(Tables)
        PROVE  /\ StagesOf(kind, order) \in Seq(K)
               /\ Len(StagesOf(kind, order)) = Len(order)
               /\ \A n \in 1 .. Len(order) : StagesOf(kind, order)[n] = <<kind, order[n]>>
    BY DEF StagesOf
  <1>2. delete_order \in Seq(Tables)
    BY DEF delete_order, Reverse
  <1>3. PICK a, b, c : /\ a = StagesOf("delete", delete_order)
                       /\ b = StagesOf("update", plan.order)
                       /\ c = StagesOf("insert", plan.order)
    OBVIOUS
  <1>4. a \in Seq(K) /\ b \in Seq(K) /\ c \in Seq(K) /\ Stages = a \o b \o c
    BY <1>1, <1>2, <1>3 DEF Stages
  <1>5. /\ Len(c) = Len(plan.order)
         /\ \A n \in 1 .. Len(plan.order) : c[n] = <<"insert", plan.order[n]>>
    BY <1>1, <1>3
  <1> HIDE DEF K
  <1>6. /\ Stages \in Seq(K)
        /\ \A n \in 1 .. Len(c) : /\ Len(a) + Len(b) + n \in 1 .. Len(Stages)
                                  /\ Stages[Len(a) + Len(b) + n] = c[n]
    BY <1>4
  <1> QED
    BY <1>5, <1>6 DEF K

-----------------------------------------------------------------------------
(* The inductive invariant *)

Databases == {c \in SUBSET Rows : Keyed(c)}
Holding == {"recheck", "write", "generators", "verify", "verified", "rollback"}

TypesOK ==
    /\ mode \in {"merge", "mirror", "append", "replace"}
    /\ cancelled \in BOOLEAN /\ late \in BOOLEAN /\ link \in {"up", "down"}
    /\ src \in Databases /\ tgt \in Databases /\ tx \in Databases /\ Closed(tx, fks)
    /\ plan.source \in Databases /\ plan.target \in Databases
    /\ plan.order \in Seq(Tables) /\ stage \in Nat \ {0}

\* What the place of the task says about its transaction at the server.
SessionOK ==
    /\ at \in {"idle", "ready"} => session = "none"
    /\ at \in Holding => session = "open" \/ (session = "ended" /\ link = "down")
    /\ at = "commit" => session \in {"committing", "committed"} \/ link = "down"
    /\ outcome = "committed" => session = "ended"
    /\ outcome = "failed" => session \in {"none", "ended"}
    /\ session \in {"committing", "committed"} => at = "commit" \/ outcome = "unknown"

PlanOK ==
    /\ at = "idle" => plan.source = {}
    /\ at \notin {"idle", "done"} =>
          /\ plan.ops = operations(plan.source, plan.target)
          /\ plan.expected = expected_rows(plan.source, plan.target)
          /\ \A t \in Tables : \E n \in 1 .. Len(plan.order) : plan.order[n] = t

\* No row of the source has a key of the target.
NoCommonKey == \A q \in plan.source : Missing(q, plan.target)

\* The locks keep the target as the task last read it.
TxOK ==
    /\ at = "recheck" /\ session = "open" => tx = tgt
    /\ at \in {"write", "generators", "verify", "verified"} /\ session = "open" =>
          tgt = plan.target
    /\ at = "verified" => tx = plan.expected
    /\ session = "committing" =>
          tgt = plan.target /\ tx = expected_rows(plan.source, plan.target)
    /\ (at \in {"generators", "verify", "verified"} \/ session = "committing")
          /\ mode = "append" => NoCommonKey

\* An append has met no key of the target in the stages behind it.
AppendOK ==
    at = "write" /\ mode = "append" =>
        /\ plan.target \subseteq tx
        /\ \A i \in 1 .. Len(Stages) :
              Stages[i][1] = "insert" /\ i < stage =>
                  \A q \in plan.source : q[1] = Stages[i][2] => Missing(q, plan.target)
        /\ stage <= Len(Stages) /\ Kind = "insert" =>
              \A q \in sent : Missing(q, plan.target)

CancelOK ==
    (at = "commit" \/ outcome = "committed") /\ cancelled => late

TransferInv ==
    TypeOK /\ TypesOK /\ SessionOK /\ PlanOK /\ TxOK /\ AppendOK /\ CancelOK

-----------------------------------------------------------------------------
(* The steps *)

\* What depends on the plan alone does not change with the plan.
LEMMA PlanStays ==
    ASSUME UNCHANGED <<mode, plan>>
    PROVE  /\ operations(plan.source, plan.target)' = operations(plan.source, plan.target)
           /\ expected_rows(plan.source, plan.target)' = expected_rows(plan.source, plan.target)
           /\ Stages' = Stages /\ (NoCommonKey' <=> NoCommonKey)
  <1>1. Stages' = Stages
    BY DEF Stages, StagesOf, delete_order
  <1> QED
    BY <1>1 DEF operations, expected_rows, NoCommonKey, Missing

\* The invariant holds before the transaction.
LEMMA InitInv ==
    ASSUME Init
    PROVE  TransferInv
  <1>1. {} \in Databases /\ Closed({}, fks)
    BY DEF Databases, Keyed, Closed
  <1>2. TypesOK
    <2>1. /\ plan.source = {} /\ plan.target = {} /\ plan.order = <<>>
          /\ <<>> \in Seq(Tables)
      BY DEF Init, NoPlan
    <2>2. src \in Databases /\ tgt \in Databases
      BY DEF Init, Contents, Databases
    <2>3. mode \in {"merge", "mirror", "append", "replace"}
      BY TransferConstants DEF Init
    <2>4. stage \in Nat \ {0} /\ tx = {} /\ link = "up" /\ cancelled = FALSE /\ late = FALSE
      BY DEF Init
    <2> QED
      BY <1>1, <2>1, <2>2, <2>3, <2>4 DEF TypesOK
  <1> QED
    BY <1>2 DEF Init, TransferInv, TypeOK, SessionOK, PlanOK, TxOK, AppendOK, CancelOK, NoPlan,
          Contents, Holding

\* The preview is made.
LEMMA PrepareKeeps ==
    ASSUME TransferInv, Prepare
    PROVE  TransferInv'
  <1>0. /\ UNCHANGED <<given, src, tgt, stage, sent, tx, session, link, cancelled, late>>
        /\ at = "idle"
    BY DEF Prepare
  <1> USE <1>0 DEF given
  <1>1. CASE Cyclic
    <2>1. at' = "done" /\ outcome' = "failed" /\ plan' = plan
      BY <1>1 DEF Prepare
    <2> QED
      BY <2>1 DEF TransferInv, TypeOK, TypesOK, SessionOK, PlanOK, TxOK, AppendOK, CancelOK,
            Holding, Databases, Keyed, Closed
  <1>2. CASE ~Cyclic
    <2>1. /\ at' = "ready" /\ outcome' = outcome
          /\ plan' = [source |-> src, target |-> tgt, ops |-> operations(src, tgt),
                      expected |-> expected_rows(src, tgt), order |-> insert_order]
      BY <1>2 DEF Prepare
    <2>2. /\ plan'.source = src /\ plan'.target = tgt /\ plan'.order = insert_order
          /\ plan'.ops = operations(src, tgt) /\ plan'.expected = expected_rows(src, tgt)
      BY <2>1
    <2>3. TypesOK'
      BY <2>1, <2>2, OrderCovers DEF TransferInv, TypesOK, Databases, Keyed, Closed
    <2>4. /\ operations(plan.source, plan.target)' = operations(src, tgt)
          /\ expected_rows(plan.source, plan.target)' = expected_rows(src, tgt)
      BY <2>2 DEF operations, expected_rows, Missing
    <2>5. PlanOK'
      BY <2>1, <2>2, <2>4, OrderCovers DEF PlanOK
    <2> QED
      BY <2>1, <2>3, <2>5 DEF TransferInv, TypeOK, SessionOK, TxOK, AppendOK, CancelOK,
            Holding, Keyed, Closed
  <1> QED
    BY <1>1, <1>2

\* Most steps move the task or its session and leave all rows alone.
LEMMA RowsStay ==
    ASSUME TransferInv, UNCHANGED <<given, src, tgt, plan, stage, sent, tx>>,
           cancelled' \in BOOLEAN, late' \in BOOLEAN, link' \in {"up", "down"},
           TypeOK', SessionOK', CancelOK',
           \/ at' = at \/ at' \in {"rollback", "commit", "done"}
           \/ at = "generators" /\ at' = "verify"
           \/ at = "verify" /\ at' = "verified" /\ tx = plan.expected,
           at # "idle" \/ at' \in {"idle", "done"},
           at = "done" => at' = "done",
           \/ session' = session \/ session' \in {"committed", "ended"}
           \/ session' = "committing" /\ session = "open" /\ at = "verified"
    PROVE  TransferInv'
  <1> USE DEF given
  <1>1. TypesOK'
    BY DEF TransferInv, TypesOK, Databases, Keyed, Closed
  <1>2. PlanOK'
    BY PlanStays DEF TransferInv, PlanOK
  <1>3. TxOK'
    BY PlanStays DEF TransferInv, TxOK, PlanOK
  <1>4. AppendOK'
    <2>1. SUFFICES ASSUME at' = "write"
                   PROVE  AppendOK'
      BY DEF AppendOK
    <2>2. at = "write"
      BY <2>1
    <2>3. Kind' = Kind /\ Stages' = Stages
      BY PlanStays DEF Kind
    <2> QED
      BY <2>2, <2>3 DEF TransferInv, AppendOK, Missing, SameKey
  <1> QED
    BY <1>1, <1>2, <1>3, <1>4 DEF TransferInv

\* Whatever goes wrong under the locks leads to the rollback.
LEMMA RefuseKeeps ==
    ASSUME TransferInv, at \in Holding, at' = "rollback", link' \in {link, "down"},
           UNCHANGED <<given, src, tgt, plan, stage, sent, tx, session, outcome, cancelled, late>>
    PROVE  TransferInv'
  <1> USE DEF given
  <1>1. TypeOK'
    BY DEF TransferInv, TypeOK, Holding, Keyed, Closed
  <1>2. SessionOK' /\ CancelOK' /\ cancelled' \in BOOLEAN /\ late' \in BOOLEAN /\ link' \in {"up", "down"}
    BY DEF TransferInv, TypesOK, SessionOK, CancelOK, Holding, TypeOK
  <1> QED
    BY <1>1, <1>2, RowsStay DEF Holding

\* The steps that end the task.
LEMMA EndKeeps ==
    ASSUME TransferInv,
           BeginFails \/ CommitConfirmed \/ CommitLost \/ Rollback \/ CancelledEarly
    PROVE  TransferInv'
  <1>0. /\ UNCHANGED <<given, src, tgt, plan, stage, sent, tx, cancelled, late>>
        /\ at' = "done" /\ outcome' \in {"committed", "failed", "unknown"}
        /\ link' \in {link, "down"} /\ session' \in {session, "ended"}
    BY DEF BeginFails, CommitConfirmed, CommitLost, Rollback, CancelledEarly, Ends, Unconfirmed
  <1>1. TypeOK'
    BY <1>0 DEF TransferInv, TypeOK, given, Keyed, Closed
  <1>2. SessionOK'
    BY <1>0 DEF TransferInv, TypeOK, SessionOK, Holding, BeginFails, CommitConfirmed, CommitLost, Rollback,
          CancelledEarly, Ends, Unconfirmed
  <1>3. CancelOK'
    BY <1>0 DEF TransferInv, CancelOK, BeginFails, CommitConfirmed, CommitLost, Rollback,
          CancelledEarly, Ends, Unconfirmed
  <1> QED
    BY <1>0, <1>1, <1>2, <1>3, RowsStay DEF TransferInv, TypesOK

\* The connection breaks, somebody cancels, the server gives a session up.
LEMMA EventKeeps ==
    ASSUME TransferInv, Break \/ Cancel \/ ServerRollback
    PROVE  TransferInv'
  <1>0. /\ UNCHANGED <<given, src, tgt, plan, stage, sent, tx, at, outcome>>
        /\ link' \in {link, "down"} /\ session' \in {session, "ended"}
        /\ cancelled' \in BOOLEAN /\ late' \in BOOLEAN
    BY DEF TransferInv, TypesOK, Break, Cancel, ServerRollback
  <1>1. TypeOK'
    BY <1>0 DEF TransferInv, TypeOK, given, Keyed, Closed
  <1>2. SessionOK'
    BY <1>0 DEF TransferInv, SessionOK, Holding, Break, Cancel, ServerRollback
  <1>3. CancelOK'
    BY <1>0 DEF TransferInv, TypeOK, CancelOK, Break, Cancel, ServerRollback
  <1> QED
    BY <1>0, <1>1, <1>2, <1>3, RowsStay DEF TransferInv, TypesOK

\* The steps of a task that goes well and writes no row.
LEMMA AdvanceKeeps ==
    ASSUME TransferInv, maintain_generators \/ Verify \/ SendCommit
    PROVE  TransferInv'
  <1>1. CASE UNCHANGED <<given, src, tgt, plan, stage, sent, tx, session, link, outcome, cancelled,
                         late, drifts, faults>> /\ at' = "rollback"
    BY <1>1, RefuseKeeps DEF maintain_generators, Verify, SendCommit, Holding
  <1>2. CASE at' # "rollback"
    <2>0. /\ UNCHANGED <<given, src, tgt, plan, stage, sent, tx, link, outcome, cancelled, late>>
          /\ \/ at = "generators" /\ at' = "verify" /\ session' = session
             \/ at = "verify" /\ at' = "verified" /\ tx = plan.expected /\ session' = session
             \/ /\ at = "verified" /\ at' = "commit" /\ ~cancelled
                /\ session' = IF link = "up" THEN "committing" ELSE session
      BY <1>2 DEF maintain_generators, Verify, SendCommit, Refuse, equal_sorted, LastCheck
    <2>1. TypeOK'
      BY <2>0 DEF TransferInv, TypeOK, given, Keyed, Closed
    <2>2. SessionOK' /\ CancelOK'
      BY <2>0 DEF TransferInv, TypeOK, TypesOK, SessionOK, CancelOK, Holding
    <2>3. session' = "committing" => session' = session \/ session = "open"
      BY <2>0 DEF TransferInv, SessionOK, Holding
    <2> QED
      BY <2>0, <2>1, <2>2, <2>3, RowsStay DEF TransferInv, TypesOK
  <1> QED
    BY <1>1, <1>2 DEF maintain_generators, Verify, SendCommit, Refuse

\* Steps that only lead to the rollback.
LEMMA FailKeeps ==
    ASSUME TransferInv, Broken \/ StreamCancelled \/ StatementFails
    PROVE  TransferInv'
  BY RefuseKeeps DEF Broken, StreamCancelled, StatementFails, Refuse, Holding

\* The locks are granted, and the target is compared with the preview.
LEMMA LockKeeps ==
    ASSUME TransferInv, begin_protected_write
    PROVE  TransferInv'
  <1>0. /\ UNCHANGED <<given, src, tgt, plan, stage, sent, link, outcome, cancelled, late>>
        /\ at = "ready" /\ at' = "recheck" /\ session' = "open" /\ tx' = tgt
    BY DEF begin_protected_write, Lock
  <1> USE <1>0 DEF given
  <1>1. TypeOK' /\ SessionOK' /\ AppendOK' /\ CancelOK'
    BY DEF TransferInv, TypeOK, SessionOK, Holding, AppendOK, CancelOK, Keyed, Closed
  <1>2. TypesOK'
    BY DEF TransferInv, TypeOK, TypesOK, Databases, Keyed, Closed
  <1>3. PlanOK' /\ TxOK'
    BY PlanStays DEF TransferInv, PlanOK, TxOK
  <1> QED
    BY <1>1, <1>2, <1>3 DEF TransferInv

\* Rechecking the target inside the transaction keeps the invariant.
LEMMA RecheckKeeps ==
    ASSUME TransferInv, Recheck
    PROVE  TransferInv'
  <1>1. CASE cancelled \/ Stale
    BY <1>1, RefuseKeeps DEF Recheck, Refuse, Holding
  <1>2. CASE ~(cancelled \/ Stale)
    <2>0. /\ UNCHANGED <<given, src, tgt, plan, tx, session, link, outcome, cancelled, late>>
          /\ at = "recheck" /\ at' = "write" /\ stage' = 1 /\ sent' = {} /\ tx = plan.target
          /\ link = "up"
      BY <1>2 DEF Recheck, Stale
    <2> USE <2>0 DEF given
    <2>1. TypeOK' /\ SessionOK' /\ CancelOK'
      BY DEF TransferInv, TypeOK, SessionOK, Holding, CancelOK, Keyed, Closed
    <2>2. TypesOK'
      BY DEF TransferInv, TypesOK, Databases, Keyed, Closed
    <2>3. PlanOK' /\ TxOK'
      BY PlanStays DEF TransferInv, PlanOK, TxOK
    <2>4. Stages \in Seq({"delete", "update", "insert"} \X Tables) /\ Stages' = Stages
      BY StageFacts, PlanStays DEF TransferInv, TypesOK
    <2>5. AppendOK'
      BY <2>4 DEF AppendOK
    <2> QED
      BY <2>1, <2>2, <2>3, <2>5 DEF TransferInv
  <1> QED
    BY <1>1, <1>2

\* What a stage has to write.
LEMMA PendingFacts ==
    ASSUME TransferInv, at = "write"
    PROVE  /\ Pending \subseteq Rows /\ next_batch \subseteq Pending
           /\ mode = "append" /\ Kind # "insert" => Pending = {}
           /\ mode = "append" /\ Kind = "insert" =>
                 Pending = {q \in plan.source : q[1] = Table} \ sent
  <1>1. plan.ops = operations(plan.source, plan.target)
    BY DEF TransferInv, PlanOK
  <1>2. \A o \in plan.ops : o[2] \in plan.source \cup plan.target
    BY <1>1 DEF operations
  <1>3. plan.source \subseteq Rows /\ plan.target \subseteq Rows
    BY DEF TransferInv, TypesOK, Databases
  <1>4. Pending \subseteq Rows /\ next_batch \subseteq Pending
    BY <1>2, <1>3 DEF Pending, next_batch
  <1>5. mode = "append" => plan.ops = {<<"insert", r>> : r \in plan.source}
    BY <1>1 DEF operations
  <1>6. mode = "append" /\ Kind # "insert" => Pending = {}
    BY <1>5 DEF Pending
  <1>7. mode = "append" /\ Kind = "insert" =>
           Pending = {q \in plan.source : q[1] = Table} \ sent
    <2>1. SUFFICES ASSUME mode = "append", Kind = "insert"
                   PROVE  Pending = {q \in plan.source : q[1] = Table} \ sent
      OBVIOUS
    <2>2. ASSUME NEW q \in plan.source, q[1] = Table, q \notin sent
          PROVE  q \in Pending
      <3>1. PICK o \in plan.ops : o = <<"insert", q>>
        BY <1>5, <2>1
      <3>2. o[1] = Kind /\ o[2] = q
        BY <2>1, <3>1
      <3> QED
        BY <2>2, <3>2 DEF Pending
    <2>3. ASSUME NEW q \in Pending
          PROVE  q \in plan.source /\ q[1] = Table /\ q \notin sent
      <3>1. PICK o \in plan.ops : o[2] = q /\ o[2][1] = Table /\ q \notin sent
        BY DEF Pending
      <3> QED
        BY <1>5, <2>1, <3>1
    <2> QED
      BY <2>2, <2>3
  <1> QED
    BY <1>4, <1>6, <1>7

\* Writing a batch keeps the invariant.
LEMMA WriteKeeps ==
    ASSUME TransferInv, Write
    PROVE  TransferInv'
  <1>1. CASE cancelled \/ ~Accepted(Rest)
    BY <1>1, RefuseKeeps DEF Write, Refuse, Holding
  <1>2. CASE ~(cancelled \/ ~Accepted(Rest))
    <2>0. /\ UNCHANGED <<given, src, tgt, at, plan, stage, session, link, outcome, cancelled, late>>
          /\ at = "write" /\ tx' = Written(Rest) /\ sent' = sent \cup Rest /\ Rest # {}
          /\ stage <= Len(Stages) /\ Accepted(Rest)
      BY <1>2 DEF Write
    <2> USE <2>0 DEF given
    <2>1. TypeOK' /\ SessionOK' /\ CancelOK'
      BY DEF TransferInv, TypeOK, SessionOK, Holding, CancelOK, Keyed, Closed
    <2>2. Rest \subseteq Rows
      BY PendingFacts DEF Rest, TransferInv, TypesOK, Databases
    <2>3. Written(Rest) \in Databases /\ Closed(Written(Rest), fks)
      <3>1. Written(Rest) \subseteq tx \cup Rest
        BY DEF Written
      <3>2. Written(Rest) \subseteq Rows
        BY <2>2, <3>1 DEF TransferInv, TypesOK, Databases
      <3> QED
        BY <3>2 DEF Accepted, Databases
    <2>4. TypesOK'
      BY <2>3 DEF TransferInv, TypesOK, Databases, Keyed, Closed
    <2>5. PlanOK' /\ TxOK'
      BY PlanStays DEF TransferInv, TypeOK, PlanOK, TxOK, SessionOK
    <2>6. AppendOK'
      <3>1. SUFFICES ASSUME mode = "append"
                     PROVE  AppendOK'
        BY DEF AppendOK
      <3>2. Rest \subseteq Pending /\ Kind = "insert"
        BY <3>1, PendingFacts DEF Rest
      <3>3. Written(Rest) = tx \cup Rest /\ Keyed(tx \cup Rest) /\ Rest \cap tx = {}
        BY <3>2 DEF Written, Accepted
      <3>4. /\ plan.target \subseteq tx /\ \A q \in sent : Missing(q, plan.target)
            /\ \A i \in 1 .. Len(Stages) :
                  Stages[i][1] = "insert" /\ i < stage =>
                      \A q \in plan.source : q[1] = Stages[i][2] => Missing(q, plan.target)
        BY <3>1, <3>2 DEF TransferInv, AppendOK
      <3>5. \A q \in Rest : Missing(q, plan.target)
        BY <3>3, <3>4 DEF Missing, Keyed
      <3>6. Stages' = Stages /\ plan' = plan
        BY PlanStays
      <3>7. \A q : Missing(q, plan.target)' <=> Missing(q, plan.target)
        BY DEF Missing, SameKey
      <3> QED
        BY <3>3, <3>4, <3>5, <3>6, <3>7 DEF AppendOK
    <2> QED
      BY <2>1, <2>4, <2>5, <2>6 DEF TransferInv
  <1> QED
    BY <1>1, <1>2

\* Going to the next stage keeps the invariant.
LEMMA NextStageKeeps ==
    ASSUME TransferInv, NextStage
    PROVE  TransferInv'
  <1>0. /\ UNCHANGED <<given, src, tgt, plan, tx, session, link, outcome, cancelled, late>>
        /\ at = "write" /\ sent' = {} /\ (stage <= Len(Stages) => Rest = {})
    BY DEF NextStage
  <1> USE <1>0 DEF given
  <1>1. /\ Stages \in Seq({"delete", "update", "insert"} \X Tables) /\ Stages' = Stages
        /\ Len(Stages) \in Nat /\ stage \in Nat \ {0}
    BY StageFacts, PlanStays DEF TransferInv, TypesOK
  <1>2. \A q : Missing(q, plan.target)' <=> Missing(q, plan.target)
    BY DEF Missing, SameKey
  <1>3. CASE stage <= Len(Stages)
    <2>0. at' = at /\ stage' = stage + 1
      BY <1>3 DEF NextStage
    <2>1. TypeOK' /\ SessionOK' /\ CancelOK'
      BY <2>0 DEF TransferInv, TypeOK, SessionOK, Holding, CancelOK, Keyed, Closed
    <2>2. TypesOK'
      BY <2>0 DEF TransferInv, TypesOK, Databases, Keyed, Closed
    <2>3. PlanOK' /\ TxOK'
      BY <2>0, PlanStays DEF TransferInv, PlanOK, TxOK
    <2>4. ASSUME mode = "append", Kind = "insert", NEW q \in plan.source, q[1] = Table
          PROVE  Missing(q, plan.target)
      <3>1. Pending = {}
        BY <1>3, <2>4, PendingFacts, BatchMoves DEF Rest
      <3>2. q \in sent
        BY <2>4, <3>1, PendingFacts
      <3> QED
        BY <1>3, <2>4, <3>2 DEF TransferInv, AppendOK
    <2>5. AppendOK'
      <3>1. SUFFICES ASSUME mode = "append"
                     PROVE  AppendOK'
        BY DEF AppendOK
      <3>2. ASSUME NEW i \in 1 .. Len(Stages), Stages[i][1] = "insert", i < stage + 1,
                   NEW q \in plan.source, q[1] = Stages[i][2]
            PROVE  Missing(q, plan.target)
        <4>1. i \in Nat /\ (i < stage \/ i = stage)
          BY <1>1, <3>2
        <4>2. CASE i < stage
          BY <3>1, <3>2, <4>2 DEF TransferInv, AppendOK
        <4>3. CASE i = stage
          BY <2>4, <3>1, <3>2, <4>3 DEF Kind, Table
        <4> QED
          BY <4>1, <4>2, <4>3
      <3>3. plan.target \subseteq tx
        BY <3>1 DEF TransferInv, AppendOK
      <3> QED
        BY <1>1, <1>2, <2>0, <3>2, <3>3 DEF AppendOK
    <2> QED
      BY <2>1, <2>2, <2>3, <2>5 DEF TransferInv
  <1>4. CASE ~(stage <= Len(Stages))
    <2>0. at' = "generators" /\ stage' = stage
      BY <1>4 DEF NextStage
    <2>1. TypeOK' /\ SessionOK' /\ CancelOK' /\ AppendOK'
      BY <2>0 DEF TransferInv, TypeOK, SessionOK, Holding, CancelOK, AppendOK, Keyed, Closed
    <2>2. TypesOK'
      BY <2>0 DEF TransferInv, TypesOK, Databases, Keyed, Closed
    <2>3. PlanOK'
      BY <2>0, PlanStays DEF TransferInv, PlanOK
    <2>4. mode = "append" => NoCommonKey
      <3>1. SUFFICES ASSUME mode = "append", NEW q \in plan.source
                     PROVE  Missing(q, plan.target)
        BY DEF NoCommonKey
      <3>2. q[1] \in Tables
        BY TransferConstants DEF TransferInv, TypesOK, Databases
      <3>3. PICK n \in 1 .. Len(plan.order) : plan.order[n] = q[1]
        BY <3>2 DEF TransferInv, PlanOK
      <3>4. PICK i \in 1 .. Len(Stages) : Stages[i] = <<"insert", q[1]>>
        BY <3>3, StageFacts DEF TransferInv, TypesOK
      <3>5. i < stage /\ Stages[i][1] = "insert" /\ Stages[i][2] = q[1]
        BY <1>1, <1>4, <3>4
      <3> QED
        BY <3>1, <3>5 DEF TransferInv, AppendOK
    <2>5. TxOK'
      BY <2>0, <2>4, PlanStays DEF TransferInv, TxOK
    <2> QED
      BY <2>1, <2>2, <2>3, <2>5 DEF TransferInv
  <1> QED
    BY <1>3, <1>4

\* What a statement stored differently shows in the verification only.
LEMMA CoercedKeeps ==
    ASSUME TransferInv, Coerced
    PROVE  TransferInv'
  <1>0. /\ UNCHANGED <<given, src, tgt, at, plan, stage, sent, session, link, outcome, cancelled, late>>
        /\ at = "write" /\ stage > Len(Stages) /\ Closed(tx', fks)
    BY DEF Coerced
  <1> USE <1>0 DEF given
  <1>1. PICK r \in tx, q \in Rows : /\ r \notin plan.target /\ SameKey(r, q)
                                    /\ tx' = (tx \ {r}) \cup {q}
    BY DEF Coerced
  <1>2. tx' \in Databases
    BY <1>1 DEF TransferInv, TypesOK, Databases, Keyed, SameKey
  <1>3. TypeOK' /\ SessionOK' /\ CancelOK'
    BY DEF TransferInv, TypeOK, SessionOK, Holding, CancelOK, Keyed, Closed
  <1>4. TypesOK'
    BY <1>2 DEF TransferInv, TypesOK, Databases, Keyed, Closed
  <1>5. PlanOK' /\ TxOK'
    BY PlanStays DEF TransferInv, TypeOK, SessionOK, PlanOK, TxOK
  <1>6. Stages' = Stages /\ Kind' = Kind
    BY PlanStays DEF Kind
  <1>7. \A o : Missing(o, plan.target)' <=> Missing(o, plan.target)
    BY DEF Missing, SameKey
  <1>8. AppendOK'
    BY <1>1, <1>6, <1>7 DEF TransferInv, AppendOK
  <1> QED
    BY <1>3, <1>4, <1>5, <1>8 DEF TransferInv

\* The COMMIT takes effect.
LEMMA ServerCommitKeeps ==
    ASSUME TransferInv, ServerCommit
    PROVE  TransferInv'
  <1>0. /\ UNCHANGED <<given, src, at, plan, stage, sent, tx, link, outcome, cancelled, late>>
        /\ session = "committing" /\ session' = "committed" /\ tgt' = tx
    BY DEF ServerCommit
  <1> USE <1>0 DEF given
  <1>1. at \in {"commit", "done"}
    BY DEF TransferInv, TypeOK, SessionOK
  <1>2. TypeOK' /\ SessionOK' /\ CancelOK' /\ AppendOK'
    BY <1>1 DEF TransferInv, TypeOK, TypesOK, SessionOK, Holding, CancelOK, AppendOK, Databases,
          Keyed, Closed
  <1>3. TypesOK'
    BY DEF TransferInv, TypesOK, Databases, Keyed, Closed
  <1>4. PlanOK' /\ TxOK'
    BY <1>1, PlanStays DEF TransferInv, PlanOK, TxOK
  <1> QED
    BY <1>2, <1>3, <1>4 DEF TransferInv

\* Other clients write to the target only while it is not locked.
LEMMA OthersKeep ==
    ASSUME TransferInv, OthersWrite
    PROVE  TransferInv'
  <1>0. UNCHANGED <<given, at, plan, stage, sent, tx, session, link, outcome, cancelled, late>>
    BY DEF OthersWrite
  <1> USE <1>0 DEF given
  <1>1. /\ src' \in Databases /\ tgt' \in Databases /\ Closed(tgt', fks)
        /\ session \in {"open", "committing"} => tgt' = tgt
    BY DEF OthersWrite, Unlocked, Contents, TransferInv, TypeOK, TypesOK, Databases
  <1>2. TypeOK' /\ SessionOK' /\ CancelOK'
    BY <1>1 DEF TransferInv, TypeOK, SessionOK, Holding, CancelOK, Databases, Keyed, Closed
  <1>3. TypesOK'
    BY <1>1 DEF TransferInv, TypesOK, Databases, Keyed, Closed
  <1>4. PlanOK' /\ TxOK'
    BY <1>1, PlanStays DEF TransferInv, PlanOK, TxOK
  <1>5. Stages' = Stages /\ Kind' = Kind
    BY PlanStays DEF Kind
  <1>6. AppendOK'
    BY <1>5 DEF TransferInv, AppendOK, Missing, SameKey
  <1> QED
    BY <1>2, <1>3, <1>4, <1>6 DEF TransferInv

\* Every step of the transaction keeps the invariant.
LEMMA NextInv ==
    ASSUME TransferInv, [Next]_vars
    PROVE  TransferInv'
  <1>1. CASE UNCHANGED vars
    <2>1. TypeOK' /\ SessionOK' /\ CancelOK'
      BY <1>1 DEF vars, given, TransferInv, TypeOK, SessionOK, CancelOK, Holding, Keyed, Closed
    <2> QED
      BY <1>1, <2>1, RowsStay DEF vars, TransferInv, TypesOK
  <1> QED
    BY <1>1, PrepareKeeps, LockKeeps, RecheckKeeps, WriteKeeps, NextStageKeeps, AdvanceKeeps,
       EndKeeps, FailKeeps, EventKeeps, ServerCommitKeeps, CoercedKeeps, OthersKeep
       DEF Next, Work, Server

-----------------------------------------------------------------------------
(* Refinement *)

Applied == session = "committed" \/ (session = "ended" /\ outcome = "committed")

\* The step of the server that makes the COMMIT effective is the abstract change.
LEMMA CommitApplies ==
    ASSUME TransferInv, ServerCommit
    PROVE  Abstract!Apply
  <1>0. /\ UNCHANGED <<mode, plan, outcome>>
        /\ session = "committing" /\ session' = "committed" /\ tgt' = tx
    BY DEF ServerCommit, given
  <1>1. /\ tgt = plan.target /\ tx = expected_rows(plan.source, plan.target)
        /\ mode = "append" => NoCommonKey
        /\ outcome \in {"none", "unknown"} /\ mode \in {"merge", "mirror", "append", "replace"}
    BY <1>0 DEF TransferInv, TypeOK, TypesOK, SessionOK, TxOK
  <1>2. tx = Abstract!Desired(tgt)
    <2>1. CASE mode = "merge"
      BY <1>1, <2>1 DEF Abstract!Desired, Abstract!SameKey, expected_rows, Missing, SameKey
    <2>2. CASE mode = "append"
      BY <1>1, <2>2 DEF Abstract!Desired, expected_rows
    <2>3. CASE mode \in {"mirror", "replace"}
      BY <1>1, <2>3 DEF Abstract!Desired, expected_rows
    <2> QED
      BY <1>1, <2>1, <2>2, <2>3
  <1>3. mode = "append" => \A r \in tgt, q \in plan.source : ~Abstract!SameKey(r, q)
    BY <1>1 DEF NoCommonKey, Missing, SameKey, Abstract!SameKey
  <1> QED
    BY <1>0, <1>1, <1>2, <1>3 DEF Abstract!Apply

\* A task that ends reports what happened, or that it does not know.
LEMMA EndReports ==
    ASSUME TransferInv,
           BeginFails \/ CommitConfirmed \/ CommitLost \/ Rollback \/ CancelledEarly
    PROVE  Abstract!Report
  <1>1. UNCHANGED <<mode, plan, tgt>> /\ outcome = "none"
    BY DEF BeginFails, CommitConfirmed, CommitLost, Rollback, CancelledEarly, given, TransferInv,
          TypeOK
  <1>2. /\ Applied' = Applied
        /\ outcome' \in {"committed", "failed", "unknown"}
        /\ outcome' = "committed" => Applied
        /\ outcome' = "failed" => ~Applied
    BY <1>1 DEF BeginFails, CommitConfirmed, CommitLost, Rollback, CancelledEarly, Ends, Unconfirmed,
          TransferInv, TypeOK, SessionOK, Holding, Applied
  <1> QED
    BY <1>1, <1>2 DEF Abstract!Report, Applied

\* Every step is a step of the abstract transfer or changes nothing it knows.
LEMMA StepRefines ==
    ASSUME TransferInv, [Next]_vars
    PROVE  [Abstract!Next]_(Abstract!vars)
  <1>1. CASE Prepare
    <2>0. /\ UNCHANGED <<mode, tgt, session>> /\ session = "none" /\ outcome = "none"
          /\ plan.source = {} /\ src \in Databases
      BY <1>1 DEF Prepare, given, TransferInv, TypeOK, TypesOK, SessionOK, PlanOK
    <2>1. CASE Cyclic
      <3>1. outcome' = "failed" /\ plan' = plan
        BY <1>1, <2>1 DEF Prepare
      <3>2. Abstract!Report
        BY <2>0, <3>1 DEF Abstract!Report
      <3> QED
        BY <3>2 DEF Abstract!Next
    <2>2. CASE ~Cyclic
      <3>1. outcome' = outcome /\ plan'.source = src
        BY <1>1, <2>2 DEF Prepare
      <3>2. Abstract!Freeze
        BY <2>0, <3>1 DEF Abstract!Freeze, Databases
      <3> QED
        BY <3>2 DEF Abstract!Next
    <2> QED
      BY <2>1, <2>2
  <1>2. CASE OthersWrite
    <2>1. UNCHANGED <<mode, plan, outcome, session>> /\ tgt' \in Databases
      BY <1>2 DEF OthersWrite, given, Contents, TransferInv, TypesOK, Databases
    <2>2. Abstract!Others
      BY <2>1 DEF Abstract!Others, Databases
    <2> QED
      BY <2>2 DEF Abstract!Next
  <1>3. CASE BeginFails \/ CommitConfirmed \/ CommitLost \/ Rollback \/ CancelledEarly
    BY <1>3, EndReports DEF Abstract!Next
  <1>4. CASE ServerCommit
    BY <1>4, CommitApplies DEF Abstract!Next
  <1>5. CASE \/ begin_protected_write \/ Recheck \/ Write \/ NextStage \/ maintain_generators
             \/ Verify \/ SendCommit \/ Broken \/ StreamCancelled \/ ServerRollback \/ Coerced
             \/ Break \/ StatementFails \/ Cancel \/ UNCHANGED vars
    <2>1. UNCHANGED <<mode, plan, tgt, outcome>>
      BY <1>5 DEF begin_protected_write, Recheck, Write, NextStage, maintain_generators, Verify,
            SendCommit, Broken, StreamCancelled, ServerRollback, Coerced, Break, StatementFails,
            Cancel, Refuse, given, vars
    <2>2. Applied' = Applied
      BY <1>5, <2>1 DEF begin_protected_write, Recheck, Write, NextStage, maintain_generators,
            Verify, SendCommit, Broken, StreamCancelled, ServerRollback, Coerced, Break,
            StatementFails, Cancel, Refuse, Lock, vars, Applied, TransferInv, TypeOK, SessionOK,
            Holding
    <2> QED
      BY <2>1, <2>2 DEF Abstract!vars, Applied
  <1> QED
    BY <1>1, <1>2, <1>3, <1>4, <1>5 DEF Next, Work, Server

-----------------------------------------------------------------------------
(* The theorems *)

\* The place of a task, its transaction at the server and the rows of its plan
\* stay in step, whatever fails (executor.rs:1203-1464).
THEOREM TransferInvariance == Spec => []TransferInv
  <1>1. Init => TransferInv
    BY InitInv
  <1>2. TransferInv /\ [Next]_vars => TransferInv'
    BY NextInv
  <1> QED
    BY <1>1, <1>2, PTL DEF Spec

\* A data task implements the abstract transfer: it changes the target in one step,
\* by the rule of its mode, or not at all, and reports no outcome that is not so
\* (execute_network, executor.rs:1338; execute_sqlite, executor.rs:604).
THEOREM TransferIsAtomic == Spec => Atomic
  <1>1. Init => Abstract!Init
    <2>1. Init => TransferInv
      BY InitInv
    <2>2. Init => plan.source = {} /\ session = "none" /\ outcome = "none"
      BY DEF Init, NoPlan
    <2> QED
      BY <2>1, <2>2 DEF Abstract!Init, TransferInv, TypesOK, Databases
  <1>2. TransferInv /\ [Next]_vars => [Abstract!Next]_(Abstract!vars)
    BY StepRefines
  <1> QED
    BY <1>1, <1>2, TransferInvariance, PTL DEF Spec, Atomic, Abstract!Spec

\* What is committed is what the preview showed, and no task that was cancelled
\* before its COMMIT reports success (executor.rs:1239, 1437).
THEOREM CommitsWhatWasShown == Spec => CommitsPreview
  <1>1. TransferInv => CancelBeforeCommit /\ TypeOK
    BY DEF TransferInv, CancelOK, CancelBeforeCommit
  <1>2. ASSUME TransferInv, [Next]_vars
        PROVE  [session' = "committed" /\ session # "committed" => tgt = plan.target]_vars
    <2>1. session' = "committed" /\ session # "committed" => ServerCommit
      BY <1>2 DEF Next, Work, Server, vars, Prepare, begin_protected_write, Recheck, Write,
            NextStage, maintain_generators, Verify, SendCommit, CommitConfirmed, CommitLost,
            Rollback, Broken, StreamCancelled, CancelledEarly, ServerRollback, BeginFails, Coerced,
            Break, StatementFails, Cancel, OthersWrite, Refuse, Lock
    <2>2. ServerCommit => tgt = plan.target
      BY <1>2 DEF ServerCommit, TransferInv, TxOK
    <2> QED
      BY <2>1, <2>2
  <1>3. TransferInv /\ [Next]_vars
           => [session' = "committed" /\ session # "committed" => tgt = plan.target]_vars
    BY <1>2
  <1> QED
    BY <1>1, <1>3, TransferInvariance, PTL DEF Spec, CommitsPreview, PreviewHolds

-------------------------------------------------------------------------------
(* TransferGate: the metadata reads and checks before the transaction. *)

-----------------------------------------------------------------------------
(* The inductive invariant *)

\* The locks freeze the target, so the last view shows it as it is.
GateInv ==
  /\ GateConstantsOK
  /\ world \in World /\ ask \in Ask
  /\ gate \in {"locked", "writing"} => view = load_metadata(world, TRUE) /\ view.ok
  /\ gate = "writing" => /\ resolve_endpoints(ask, world)
                         /\ validate_mapping(ask, world.engine, view)

\* A change of one field leaves a world, with its engine.
LEMMA ChangedWorld ==
  ASSUME NEW w \in World, NEW f \in DOMAIN FieldValues, NEW c \in Changed(w, f)
  PROVE  c \in World /\ c.engine = w.engine
  <1>1. PICK x \in FieldValues[f] : c = [w EXCEPT ![f] = x]
    BY DEF Changed
  <1>2. f \in {"version", "known", "readonly", "same", "rights", "fk", "trigger", "policy", "physical",
               "locks", "column"}
    BY DEF FieldValues
  <1>3. CASE f \in {"version", "known", "readonly", "same"}
    BY <1>1, <1>3 DEF FieldValues, World
  <1>4. CASE f \in {"policy", "physical", "locks"}
    BY <1>1, <1>4 DEF FieldValues, World
  <1>5. CASE f = "rights"
    BY <1>1, <1>5 DEF FieldValues, World
  <1>6. CASE f = "fk"
    BY <1>1, <1>6 DEF FieldValues, World
  <1>7. CASE f = "trigger"
    BY <1>1, <1>7 DEF FieldValues, World
  <1>8. CASE f = "column"
    BY <1>1, <1>8 DEF FieldValues, World
  <1> QED
    BY <1>2, <1>3, <1>4, <1>5, <1>6, <1>7, <1>8

\* So do the worlds a task may start in.
LEMMA StartWorld == Worlds \subseteq World
  <1>1. ASSUME NEW e \in TargetEngines
        PROVE  Good(e) \in World
    BY DEF Good, World, Rights, AllRights
  <1>2. UNION {Changed(Good(e), f) : e \in TargetEngines, f \in DOMAIN FieldValues} \subseteq World
    BY <1>1, ChangedWorld
  <1> QED
    BY <1>2, ChangedWorld DEF Worlds

\* The invariant of the gate holds when a plan is asked for.
LEMMA StartOK ==
  ASSUME GateConstantsOK, GateInit
  PROVE  GateInv
  BY StartWorld DEF GateInit, GateInv

\* Every step of the gate, and of the clients around it, keeps its invariant.
LEMMA StepOK ==
  ASSUME GateInv, [GateNext]_gateVars
  PROVE  GateInv'
  <1>1. CASE Load
    BY <1>1 DEF Load, GateInv, GateConstantsOK, World, Ask, Rights, AllRights
  <1>2. CASE Validate
    BY <1>2 DEF Validate, GateInv, GateConstantsOK, World, Ask, Rights, AllRights
  <1>3. CASE Alter
    <2>1. PICK f \in DOMAIN FieldValues : \E w \in Changed(world, f) : world' = w
      BY <1>3 DEF Alter, FieldValues
    <2>2. world' \in World
      BY <2>1, ChangedWorld DEF GateInv
    <2> QED
      BY <1>3, <2>2 DEF Alter, GateInv, GateConstantsOK
  <1>4. CASE LockTables
    <2>1. /\ UNCHANGED <<world, ask>> /\ gate' \in {"locked", "refused"}
          /\ view' = load_metadata(world, TRUE) /\ (gate' = "locked" => view'.ok)
      BY <1>4 DEF LockTables
    <2>2. load_metadata(world, TRUE)' = load_metadata(world, TRUE)
      BY <2>1
    <2> QED
      BY <2>1, <2>2 DEF GateInv, GateConstantsOK
  <1>5. CASE RecheckMetadata
    <2>1. /\ UNCHANGED <<world, ask, view>> /\ gate = "locked" /\ gate' \in {"writing", "refused"}
          /\ gate' = "writing" => /\ resolve_endpoints(ask, world)
                                  /\ validate_mapping(ask, world.engine, view)
      BY <1>5 DEF RecheckMetadata
    <2>2. load_metadata(world, TRUE)' = load_metadata(world, TRUE)
      BY <2>1
    <2> QED
      BY <2>1, <2>2 DEF GateInv, GateConstantsOK
  <1>6. CASE UNCHANGED gateVars
    BY <1>6 DEF gateVars, GateInv, GateConstantsOK
  <1> QED
    BY <1>1, <1>2, <1>3, <1>4, <1>5, <1>6 DEF GateNext

-----------------------------------------------------------------------------
(* What a view that passes says about the target *)

\* MySQL: the grants that are demanded leave no foreign key or trigger hidden.
LEMMA MysqlSees ==
  ASSUME NEW w \in World, mysql_metadata(w).ok, mysql_metadata(w).permissions_verified
  PROVE  /\ mysql_metadata(w).fk = w.fk /\ mysql_metadata(w).physical = w.physical
         /\ mysql_metadata(w).read_only = w.readonly
         /\ mysql_metadata(w).trigger # "enabled" => w.trigger # "enabled"
  <1>1. w.version
    BY DEF mysql_metadata, NoView
  <1>2. mysql_metadata(w) = Seen(w, verify_grants(w), w.locks, TRUE, mysql_foreign_keys(w), mysql_triggers(w))
    BY <1>1 DEF mysql_metadata
  <1>3. verify_grants(w)
    BY <1>2 DEF Seen
  <1> QED
    BY <1>2, <1>3 DEF Seen, verify_grants, mysql_foreign_keys, mysql_triggers

\* PostgreSQL: its catalogue hides nothing, and a policy that hides rows is refused.
LEMMA PostgresSees ==
  ASSUME NEW w \in World, NEW locked, NEW v, v = postgres_metadata(w, locked), v.ok, v.permissions_verified
  PROVE  /\ v.fk = w.fk /\ v.physical = w.physical /\ v.read_only = w.readonly
         /\ v.trigger = w.trigger /\ ~w.policy
  <1>1. ~(~w.version \/ ~w.known \/ postgres_sequences(w, locked))
    BY DEF postgres_metadata, NoView
  <1>2. PICK p \in BOOLEAN, q \in BOOLEAN : /\ p = ("select" \in w.rights /\ ~w.policy)
                                           /\ q = ("write" \in w.rights /\ ~w.policy)
    OBVIOUS
  <1>3. v = Seen(w, p, q, TRUE, postgres_foreign_keys(w), postgres_triggers(w))
    BY <1>1, <1>2 DEF postgres_metadata
  <1>4. /\ v.permissions_verified = p /\ v.fk = postgres_foreign_keys(w) /\ v.physical = w.physical
        /\ v.read_only = w.readonly /\ v.trigger = postgres_triggers(w)
    BY <1>3 DEF Seen
  <1>5. ~w.policy
    BY <1>2, <1>4
  <1> QED
    BY <1>4, <1>5 DEF postgres_foreign_keys, postgres_triggers

\* SQL Server: without the right to see every definition nothing is read.
LEMMA SqlserverSees ==
  ASSUME NEW w \in World, sqlserver_metadata(w).ok, sqlserver_metadata(w).permissions_verified
  PROVE  /\ sqlserver_metadata(w).fk = w.fk /\ sqlserver_metadata(w).physical = w.physical
         /\ sqlserver_metadata(w).read_only = w.readonly
         /\ sqlserver_metadata(w).trigger = w.trigger /\ ~w.policy
  <1>1. w.version /\ sqlserver_visible(w)
    BY DEF sqlserver_metadata, NoView
  <1>2. PICK p \in BOOLEAN, q \in BOOLEAN : /\ p = ("select" \in w.rights /\ ~sqlserver_policies(w))
                                           /\ q = ("write" \in w.rights /\ ~w.readonly)
    OBVIOUS
  <1>3. sqlserver_metadata(w)
           = Seen(w, p, q, w.locks, sqlserver_foreign_keys(w), sqlserver_triggers(w))
    BY <1>1, <1>2 DEF sqlserver_metadata
  <1>4. p
    BY <1>3 DEF Seen
  <1>5. ~w.policy
    BY <1>2, <1>4 DEF sqlserver_policies
  <1> QED
    BY <1>1, <1>3, <1>5 DEF Seen, sqlserver_foreign_keys, sqlserver_triggers

\* On every engine a verified view shows what could touch other rows.
LEMMA ViewTrue ==
  ASSUME GateConstantsOK, NEW w \in World, NEW locked, NEW v,
         v = load_metadata(w, locked), v.ok, v.permissions_verified
  PROVE  /\ v.fk = w.fk /\ v.physical = w.physical /\ v.read_only = w.readonly
         /\ v.trigger # "enabled" => w.trigger # "enabled"
         /\ w.policy => w.engine \in {"mysql", "sqlite"}
  <1>1. w.engine \in {"mysql", "postgres", "sqlserver", "sqlite"}
    BY DEF GateConstantsOK, World
  <1>2. CASE w.engine = "mysql"
    <2>1. v = mysql_metadata(w)
      BY <1>2 DEF load_metadata
    <2> QED
      BY <1>2, <2>1, MysqlSees
  <1>3. CASE w.engine = "postgres"
    <2>1. v = postgres_metadata(w, locked)
      BY <1>3 DEF load_metadata
    <2> QED
      BY <1>3, <2>1, PostgresSees
  <1>4. CASE w.engine = "sqlserver"
    <2>1. v = sqlserver_metadata(w)
      BY <1>4 DEF load_metadata
    <2> QED
      BY <1>4, <2>1, SqlserverSees
  <1>5. CASE w.engine = "sqlite"
    BY <1>5 DEF load_metadata, sqlite_metadata, Seen
  <1> QED
    BY <1>1, <1>2, <1>3, <1>4, <1>5

-----------------------------------------------------------------------------
(* The theorems *)

\* When the first statement is sent, no row outside the preview can be touched or
\* hidden, however the target was altered since and whatever the account can see
\* (metadata.rs:200-354, executor.rs:1203-1239).
THEOREM PreviewRowsOnly ==
  ASSUME GateConstantsOK
  PROVE  GateSpec => []OnlyPreviewRows
  <1>1. GateInit => GateInv
    BY StartOK
  <1>2. GateInv /\ [GateNext]_gateVars => GateInv'
    BY StepOK
  <1>3. GateInv => OnlyPreviewRows
    <2>1. SUFFICES ASSUME GateInv, gate = "writing"
                   PROVE  /\ world.fk \in {"none", "inside"} /\ world.trigger # "enabled"
                          /\ world.policy => world.engine \in {"mysql", "sqlite"}
                          /\ world.physical /\ ~world.readonly
                          /\ ask.from = world.engine => ~world.same
      BY DEF OnlyPreviewRows
    <2>2. EndpointsAllow(ask, world.engine, view) /\ TablesAllow(view) /\ dependencies(view)
      BY <2>1 DEF GateInv, validate_mapping
    <2>3. /\ view.permissions_verified /\ ~view.read_only /\ view.physical
          /\ view.trigger # "enabled" /\ view.fk \in {"none", "inside"}
      BY <2>2 DEF EndpointsAllow, TablesAllow, dependencies
    <2>4. /\ view.fk = world.fk /\ view.physical = world.physical /\ view.read_only = world.readonly
          /\ view.trigger # "enabled" => world.trigger # "enabled"
          /\ world.policy => world.engine \in {"mysql", "sqlite"}
      BY <2>1, <2>3, ViewTrue DEF GateInv
    <2>5. ask.from = world.engine => ~world.same
      BY <2>1 DEF GateInv, resolve_endpoints
    <2> QED
      BY <2>3, <2>4, <2>5
  <1> QED
    BY <1>1, <1>2, <1>3, PTL DEF GateSpec

\* The dialog offers a mode exactly when the preview accepts it (get_capabilities
\* and validate_mapping decide it separately, metadata.rs).
THEOREM DialogAgrees ==
  ASSUME GateConstantsOK
  PROVE  GateSpec => []ModesAgree
  <1>1. GateInit => GateInv
    BY StartOK
  <1>2. GateInv /\ [GateNext]_gateVars => GateInv'
    BY StepOK
  <1>3. GateInv => ModesAgree
    <2>1. SUFFICES ASSUME GateInv
                   PROVE  EndpointsAllow(ask, world.engine, view)
                            <=> /\ request_validate(ask)
                                /\ ask.mode \in get_capabilities(ask, world.engine, view)
      BY DEF ModesAgree
    <2>2. /\ world.engine # "clickhouse" /\ ask.kind \in {"row_sync", "transfer"}
          /\ ask.mode \in {"merge", "mirror", "append", "replace"}
      BY <2>1 DEF GateInv, GateConstantsOK, World, Ask
    <2> DEFINE safe == /\ source_readable(ask) /\ view.consistent_snapshot
                       /\ view.protected_write /\ view.permissions_verified
    <2>3. CASE ~safe \/ view.read_only
      <3>1. get_capabilities(ask, world.engine, view) = {}
        BY <2>3 DEF get_capabilities, capabilities
      <3> QED
        BY <2>3, <3>1 DEF EndpointsAllow
    <2>4. CASE safe /\ ~view.read_only
      <3>1. CASE ask.from = "clickhouse"
        <4>1. get_capabilities(ask, world.engine, view) = {"append"}
          BY <2>2, <2>4, <3>1 DEF get_capabilities, capabilities
        <4> QED
          BY <2>2, <2>4, <3>1, <4>1 DEF EndpointsAllow, request_validate
      <3>2. CASE ask.from # "clickhouse" /\ ask.from = world.engine
        <4>1. get_capabilities(ask, world.engine, view) = {"merge", "mirror", "append", "replace"}
          BY <2>4, <3>2 DEF get_capabilities, capabilities
        <4> QED
          BY <2>2, <2>4, <3>2, <4>1 DEF EndpointsAllow, request_validate
      <3>3. CASE ask.from # "clickhouse" /\ ask.from # world.engine
        <4>1. get_capabilities(ask, world.engine, view) = {"append", "replace"}
          BY <2>4, <3>3 DEF get_capabilities, capabilities
        <4> QED
          BY <2>2, <2>4, <3>3, <4>1 DEF EndpointsAllow, request_validate
      <3> QED
        BY <3>1, <3>2, <3>3
    <2> QED
      BY <2>3, <2>4
  <1> QED
    BY <1>1, <1>2, <1>3, PTL DEF GateSpec

\* For every target, account and history of alterations: nothing outside the
\* preview is written or missed, and the dialog offers what the preview accepts
\* (metadata.rs:121-354, executor.rs:1203-1239).
THEOREM GateHolds ==
  ASSUME GateConstantsOK
  PROVE  GateSpec => []WritesOnlyPreview
  BY PreviewRowsOnly, DialogAgrees, PTL DEF WritesOnlyPreview

-------------------------------------------------------------------------------
(* DiffPages: the pages of a preview. *)

Spool == Seq([table : Nat, size : Nat])

\* The recursive definition of Mine holds: the operations of the page's table up to a
\* place are those before it and that place if it is one.
LEMMA MineDef ==
  ASSUME NEW ops \in Spool, NEW from \in Nat, NEW to \in 0..Len(ops)
  PROVE  /\ Mine(ops, from, to) \in Seq(Nat)
         /\ to <= from => Mine(ops, from, to) = <<>>
         /\ to > from => Mine(ops, from, to) = IF ops[to].table = PageTable
                                              THEN Append(Mine(ops, from, to - 1), to)
                                              ELSE Mine(ops, from, to - 1)
<1> DEFINE S == 0..Len(ops)
           V == Seq(Nat)
           F(g) == [n \in S |-> IF n <= from THEN <<>>
                                ELSE IF ops[n].table = PageTable THEN Append(g[n - 1], n) ELSE g[n - 1]]
           step == [n \in 1..Len(ops) |-> [v \in V |->
                      IF n <= from THEN <<>>
                      ELSE IF ops[n].table = PageTable THEN Append(v, n) ELSE v]]
           items == CHOOSE g : g = F(g)
<1>1. Len(ops) \in Nat
  BY DEF Spool
<1>2. step \in Steps(1..Len(ops), V) /\ <<>> \in V
  BY DEF Steps
<1>3. PICK h \in IteratesUpTo(Len(ops), V, <<>>, step) : TRUE
  <2> HIDE DEF step, V
  <2> QED BY <1>1, <1>2, RecursionUpTo
<1>4. h \in [S -> V] /\ h[0] = <<>> /\ \A n \in 1..Len(ops) : h[n] = step[n][h[n - 1]]
  <2> HIDE DEF step, V
  <2> QED BY <1>3 DEF IteratesUpTo
<1>5. \A v \in V, n \in Nat : Append(v, n) \in V
  OBVIOUS
<1> HIDE DEF V
<1>6. ASSUME NEW n \in S PROVE h[n] = F(h)[n]
  <2>1. CASE n = 0
    BY <2>1, <1>4
  <2>2. CASE n # 0
    <3>1. n \in 1..Len(ops) /\ n - 1 \in S
      BY <1>1, <2>2
    <3>2. h[n] = step[n][h[n - 1]] /\ h[n - 1] \in V
      BY <1>4, <3>1
    <3> QED BY <3>1, <3>2
  <2> QED BY <2>1, <2>2
<1>7. h = F(h)
  <2>1. h = [n \in S |-> h[n]]
    BY <1>4
  <2>2. F(h) = [n \in S |-> F(h)[n]]
    OBVIOUS
  <2> HIDE DEF F
  <2> QED BY <2>1, <2>2, <1>6
<1>8. items = F(items)
  <2> HIDE DEF F
  <2> QED BY <1>7
<1>9. \A k : k \in S => Mine(ops, from, k) = items[k]
  BY DEF Mine
<1> HIDE DEF items
<1>10. \A k \in S : items[k] = IF k <= from THEN <<>>
                  ELSE IF ops[k].table = PageTable THEN Append(items[k - 1], k) ELSE items[k - 1]
  BY <1>8
<1> HIDE DEF F
<1>11. \A k \in S : items[k] \in V
  <2> DEFINE T == {n \in S : items[n] \in V}
  <2>1. 0 \in T
    BY <1>1, <1>2, <1>10
  <2>2. ASSUME NEW n \in 1..Len(ops), n - 1 \in T PROVE n \in T
    <3>1. n \in S /\ n \in Nat /\ items[n - 1] \in V
      BY <1>1, <2>2
    <3>2. Append(items[n - 1], n) \in V
      BY <1>5, <3>1
    <3> QED BY <1>2, <1>10, <3>1, <3>2
  <2>3. S \subseteq T
    <3> HIDE DEF T
    <3> QED BY <1>1, <2>1, <2>2, InductionUpTo
  <2> QED BY <2>3
<1>12. to \in S /\ (to > from => to - 1 \in S)
  BY <1>1
<1>13. Mine(ops, from, to) \in V
  BY <1>9, <1>11, <1>12
<1>14. to <= from => Mine(ops, from, to) = <<>>
  BY <1>9, <1>10, <1>12
<1>15. ASSUME to > from
       PROVE  Mine(ops, from, to) = IF ops[to].table = PageTable
                                    THEN Append(Mine(ops, from, to - 1), to)
                                    ELSE Mine(ops, from, to - 1)
  <2>1. Mine(ops, from, to - 1) = items[to - 1]
    BY <1>9, <1>12, <1>15
  <2>2. ~(to <= from)
    BY <1>15
  <2> QED BY <1>9, <1>10, <1>12, <2>1, <2>2
<1> QED BY <1>13, <1>14, <1>15 DEF V

\* Two stretches of the spool that meet show what the whole stretch shows.
LEMMA MineConcat ==
  ASSUME NEW ops \in Spool, NEW a \in 0..Len(ops), NEW b \in a..Len(ops), NEW c \in b..Len(ops)
  PROVE  Mine(ops, a, b) \o Mine(ops, b, c) = Mine(ops, a, c)
<1> DEFINE T == {k \in 0..Len(ops) : k >= b => Mine(ops, a, b) \o Mine(ops, b, k) = Mine(ops, a, k)}
<1>1. Len(ops) \in Nat /\ a \in Nat /\ b \in Nat
  BY DEF Spool
<1>2. 0 \in T
  <2>1. CASE b = 0
    <3>1. a = 0 /\ 0 \in 0..Len(ops)
      BY <1>1, <2>1
    <3>2. Mine(ops, 0, 0) = <<>> /\ Mine(ops, 0, 0) \in Seq(Nat)
      BY <1>1, <3>1, MineDef
    <3>3. Mine(ops, 0, 0) \o Mine(ops, 0, 0) = Mine(ops, 0, 0)
      BY <3>2
    <3> QED BY <2>1, <3>1, <3>3
  <2>2. CASE b # 0
    BY <1>1, <2>2
  <2> QED BY <2>1, <2>2
<1>3. ASSUME NEW k \in 1..Len(ops), k - 1 \in T PROVE k \in T
  <2>1. k \in 0..Len(ops) /\ k - 1 \in 0..Len(ops) /\ k \in Nat /\ b \in 0..Len(ops)
    BY <1>1
  <2>2. CASE k < b
    BY <1>1, <2>1, <2>2
  <2>3. CASE k = b
    <3>1. Mine(ops, b, k) = <<>> /\ Mine(ops, a, b) \in Seq(Nat)
      BY <1>1, <2>1, <2>3, MineDef
    <3> QED BY <2>1, <2>3, <3>1
  <2>4. CASE k > b
    <3>1. k > a /\ k - 1 >= b
      BY <1>1, <2>1, <2>4
    <3>2. Mine(ops, a, b) \o Mine(ops, b, k - 1) = Mine(ops, a, k - 1)
      BY <1>3, <3>1
    <3>3. PICK x \in Seq(Nat), y \in Seq(Nat), z \in Seq(Nat) :
             x = Mine(ops, a, b) /\ y = Mine(ops, b, k - 1) /\ z = Mine(ops, a, k - 1)
      BY <1>1, <2>1, MineDef
    <3>4. Mine(ops, b, k) = (IF ops[k].table = PageTable THEN Append(y, k) ELSE y)
          /\ Mine(ops, a, k) = (IF ops[k].table = PageTable THEN Append(z, k) ELSE z)
      BY <1>1, <2>1, <2>4, <3>1, <3>3, MineDef
    <3>5. x \o y = z
      BY <3>2, <3>3
    <3>6. x \o Append(y, k) = Append(x \o y, k)
      BY <2>1
    <3> QED BY <2>1, <3>3, <3>4, <3>5, <3>6
  <2> QED BY <1>1, <2>1, <2>2, <2>3, <2>4
<1>4. 0..Len(ops) \subseteq T
  <2> HIDE DEF T
  <2> QED BY <1>1, <1>2, <1>3, InductionUpTo
<1> QED BY <1>1, <1>4

\* The inductive invariant: what was shown is what lies before the cursor.
PagesInv ==
  /\ spool \in Operations
  /\ cursor \in 0..Len(spool)
  /\ shown = Mine(spool, 0, cursor)
  /\ pages \in {"more", "end", "error"}
  /\ pages = "end" => cursor = Len(spool)
  /\ pages = "error" => \E i \in 1..Len(spool) : spool[i].table = PageTable /\ spool[i].size > PageBudget

\* A page ends at or behind the cursor, and not behind the spool.
LEMMA PageEndDef ==
  ASSUME PagesInv, NEW size, size \in 1..MaxPageSize
  PROVE  PageEnd(size) \in cursor..Len(spool)
<1>1. PICK ops \in Spool, c \in 0..Len(spool) : ops = spool /\ c = cursor
  BY PagesConstants DEF PagesInv, Spool
<1> DEFINE fits == {to \in c..Len(ops) :
                     /\ Bytes(ops, Mine(ops, c, to)) <= PageBudget
                     /\ \/ Len(Mine(ops, c, to)) < size
                        \/ Len(Mine(ops, c, to)) = size /\ (to = c \/ ops[to].table = PageTable)}
<1>2. Len(ops) \in Nat /\ c \in 0..Len(ops) /\ c \in Nat
  BY <1>1 DEF Spool
<1>3. c \in fits
  <2>1. Mine(ops, c, c) = <<>>
    BY <1>2, MineDef
  <2>2. Bytes(ops, <<>>) = 0
    <3>1. [i \in DOMAIN <<>> |-> ops[<<>>[i]].size] = <<>>
      OBVIOUS
    <3> QED BY <3>1, SumEmpty DEF Bytes
  <2>3. 0 < size
    OBVIOUS
  <2> QED BY <1>2, <2>1, <2>2, <2>3, PagesConstants
<1>4. fits \subseteq 0..Len(ops)
  BY <1>2
<1>5. \E m \in fits : \A n \in fits : n <= m
  <2> HIDE DEF fits
  <2> QED BY <1>2, <1>3, <1>4, LargestOf
<1>6. PageEnd(size) = CHOOSE to \in fits : \A n \in fits : n <= to
  BY <1>1 DEF PageEnd
<1>7. PageEnd(size) \in fits
  <2> HIDE DEF fits
  <2> QED BY <1>5, <1>6
<1> QED BY <1>1, <1>7

\* data_task_diff_page shows the next operations of its table and puts the cursor behind
\* them: what was shown is still what lies before the cursor.
LEMMA PageStep ==
  ASSUME PagesInv, NEW size, diff_page(size)
  PROVE  PagesInv'
<1> DEFINE end == PageEnd(size)
           blocked == end < Len(spool) /\ spool[end + 1].table = PageTable /\ spool[end + 1].size > PageBudget
                      /\ Len(Mine(spool, cursor, end)) < size
<1>1. spool \in Spool /\ spool \in Operations /\ Len(spool) \in Nat /\ spool' = spool
  BY PagesConstants DEF PagesInv, Spool, diff_page
<1>2. CASE size \notin 1..MaxPageSize
  <2>1. pages' = pages /\ cursor' = cursor /\ shown' = shown
    BY <1>2 DEF diff_page
  <2> QED BY <1>1, <2>1 DEF PagesInv
<1>3. CASE size \in 1..MaxPageSize /\ blocked
  <2>1. pages' = "error" /\ cursor' = cursor /\ shown' = shown
    BY <1>3 DEF diff_page
  <2>2. end \in cursor..Len(spool)
    BY <1>3, PageEndDef
  <2>3. end + 1 \in 1..Len(spool)
    BY <1>1, <1>3, <2>2 DEF PagesInv
  <2> QED BY <1>1, <1>3, <2>1, <2>3 DEF PagesInv
<1>4. CASE size \in 1..MaxPageSize /\ ~blocked
  <2>1. end \in cursor..Len(spool)
    BY <1>4, PageEndDef
  <2>2. shown' = shown \o Mine(spool, cursor, end) /\ cursor' = end
        /\ pages' = IF end < Len(spool) THEN "more" ELSE "end"
    BY <1>4 DEF diff_page, Position
  <2>3. PICK ops \in Spool, c \in Nat, e \in Nat : ops = spool /\ c = cursor /\ e = end
    BY <1>1, <2>1 DEF PagesInv
  <2>4. Mine(ops, 0, c) \o Mine(ops, c, e) = Mine(ops, 0, e)
    <3>1. 0 \in 0..Len(ops) /\ c \in 0..Len(ops) /\ e \in c..Len(ops)
      BY <1>1, <2>1, <2>3 DEF PagesInv
    <3> QED BY <2>3, <3>1, MineConcat
  <2>5. shown' = Mine(spool, 0, end)
    BY <2>2, <2>3, <2>4 DEF PagesInv
  <2>6. end \in 0..Len(spool)
    BY <1>1, <2>1 DEF PagesInv
  <2> HIDE DEF end
  <2>7. shown' = Mine(spool', 0, cursor')
    BY <1>1, <2>2, <2>5
  <2>8. pages' \in {"more", "end"} /\ (pages' = "end" => cursor' = Len(spool'))
    BY <1>1, <2>2, <2>6
  <2>9. cursor' \in 0..Len(spool') /\ spool' \in Operations
    BY <1>1, <2>2, <2>6
  <2> HIDE DEF blocked
  <2> QED BY <2>7, <2>8, <2>9 DEF PagesInv
<1> QED BY <1>2, <1>3, <1>4

\* What the pages have shown is at every moment what the spool holds before the cursor.
THEOREM PagesInvariance == PagesSpec => []PagesInv
<1>1. PagesInit => PagesInv
  <2> SUFFICES ASSUME PagesInit PROVE PagesInv
    OBVIOUS
  <2>1. PICK ops \in Spool : ops = spool
    BY PagesConstants DEF PagesInit, Spool
  <2>2. Len(ops) \in Nat /\ 0 \in 0..Len(ops)
    BY DEF Spool
  <2>3. Mine(ops, 0, 0) = <<>>
    BY <2>2, MineDef
  <2> QED BY <2>1, <2>2, <2>3 DEF PagesInit, PagesInv
<1>2. PagesInv /\ [PagesNext]_pageVars => PagesInv'
  <2>1. ASSUME PagesInv, UNCHANGED pageVars PROVE PagesInv'
    BY <2>1 DEF PagesInv, pageVars, Mine
  <2> QED BY <2>1, PageStep DEF PagesNext
<1> QED BY <1>1, <1>2, PTL DEF PagesSpec

\* A client that asks until there is no cursor has seen every operation of its table,
\* once and in order, for every spool, page size and budget (data_task_diff_page).
THEOREM EveryDifferenceShown == PagesSpec => []PagesComplete
<1>1. PagesInv => PagesComplete
  <2> SUFFICES ASSUME PagesInv PROVE PagesComplete
    OBVIOUS
  <2>1. PICK ops \in Spool, c \in 0..Len(spool) : ops = spool /\ c = cursor
    BY PagesConstants DEF PagesInv, Spool
  <2>2. Len(ops) \in Nat /\ 0 \in 0..Len(ops) /\ c \in 0..Len(ops) /\ Len(ops) \in c..Len(ops)
        /\ Len(ops) \in 0..Len(ops) /\ c \in Nat
    BY <2>1 DEF Spool
  <2>3. Mine(ops, 0, c) \o Mine(ops, c, Len(ops)) = Mine(ops, 0, Len(ops))
    BY <2>1, <2>2, MineConcat
  <2>4. Mine(ops, 0, c) \in Seq(Nat) /\ Mine(ops, c, Len(ops)) \in Seq(Nat)
    BY <2>2, MineDef
  <2>5. IsPrefix(Mine(ops, 0, c), Mine(ops, 0, Len(ops)))
    BY <2>3, <2>4 DEF IsPrefix
  <2> QED BY <2>1, <2>5 DEF PagesInv, PagesComplete
<1> QED BY <1>1, PagesInvariance, PTL
===============================================================================
