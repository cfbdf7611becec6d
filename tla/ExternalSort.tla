---------------------------- MODULE ExternalSort ----------------------------
(***************************************************************************)
(* Sorting a snapshot outside memory (db/data_tasks/spool.rs,              *)
(* external_sort).  The input is cut into runs that fit the sort buffer;   *)
(* each run is sorted, written to a spool file of its own and added to a   *)
(* binary counter of spools, where two runs of one level are merged into   *)
(* one of the next.  Every spool is charged to the task's disk quota until *)
(* its last handle is dropped, and any read or write may fail.             *)
(*                                                                         *)
(* A row is [key, value, size].  Files are written row by row; the         *)
(* encryption of a row is left out, a damaged file is a failing read.      *)
(***************************************************************************)
EXTENDS Sums, FiniteSets, Functions

CONSTANTS
    Inputs,        \* snapshots to sort: sequences of rows
    SortRow,        \* max_row_bytes
    SortMemory,        \* memory_bytes
    SortRun,       \* sort_run_bytes
    SortDisk,          \* disk_bytes
    EntryBytes,      \* length prefix, authentication tag and index entry of a row
    SortFaults     \* bound on failing reads and writes (model checking only)

SortRows == [key : Int, value : Int, size : Nat]

\* Keys and values are compared by their canonical bytes; sizes and limits are
\* numbers of bytes.
ASSUME SortConstants ==
    /\ Inputs \subseteq Seq(SortRows)
    /\ SortMemory \in Nat /\ SortRun \in Nat /\ SortDisk \in Nat /\ EntryBytes \in Nat

VARIABLES
    input,      \* rows of the spool that is sorted
    sorting,    \* "read", "write", "merge", "flatten", "digest", "done", "failed"
    pos,        \* rows the cursor over the input has delivered
    pending,    \* the row that did not fit the run, as a sequence
    rows,       \* the run in memory
    writer,     \* rows of the spool being written
    levels,     \* the counter: a level holds one spool or none
    run,        \* the finished run on its way into the counter
    level,      \* the level it is compared with
    left,       \* what is left to read of both sides of a merge
    merged,     \* the result of flattening, as a sequence of spools
    charged,    \* ResourceBudget.used
    stopped,    \* cancelled
    failures

sortVars == <<input, sorting, pos, pending, rows, writer, levels, run, level, left, merged,
          charged, stopped, failures>>

None == [is |-> FALSE, rows |-> <<>>]
Some(s) == [is |-> TRUE, rows |-> s]
Less(a, b) == a.key < b.key \/ (a.key = b.key /\ a.value <= b.value)
Ordered(s) == \A i \in 1 .. Len(s) - 1 : Less(s[i], s[i + 1])
memory_size(s) == Sum([i \in DOMAIN s |-> s[i].size])
Head1(s) == IF s = <<>> THEN <<>> ELSE <<s[1]>>
file_bytes(s) == Sum([i \in DOMAIN s |-> s[i].size + EntryBytes])

\* What sort_unstable_by may leave: the rows rearranged, in order.
sort_unstable_by(s) ==
    {t \in {[i \in DOMAIN s |-> s[p[i]]] : p \in Bijection(DOMAIN s, DOMAIN s)} : Ordered(t)}

\* spool.rs:221 - rows a spool accepts at all.
Fits(r) == r.size <= SortMemory \div 4 /\ r.size <= SortRow

SortTypeOK ==
    /\ input \in Inputs /\ pos \in 0 .. Len(input) /\ Len(pending) <= 1
    /\ sorting \in {"read", "write", "merge", "flatten", "digest", "done", "failed"}
    /\ \A s \in Range(levels) \cup {run, merged} : s.is \in BOOLEAN
    /\ level \in 0 .. Len(levels) /\ charged \in 0 .. SortDisk

SortInit ==
    /\ input \in {s \in Inputs : file_bytes(s) <= SortDisk /\ \A r \in Range(s) : Fits(r)}
    /\ sorting = "read" /\ pos = 0 /\ pending = <<>> /\ rows = <<>> /\ writer = None
    /\ levels = <<>> /\ run = None /\ level = 0 /\ left = <<None, None>>
    /\ merged = None /\ charged = file_bytes(input) /\ stopped = FALSE /\ failures = 0

\* spool.rs:107 - the quota is checked before a byte is written.
reserve(n) == charged + n <= SortDisk
Limit == IF SortRun < SortMemory \div 2 THEN SortRun ELSE SortMemory \div 2
Full(r) == rows # <<>> /\ memory_size(rows) + r.size > Limit

Live == {i \in DOMAIN levels : levels[i].is}
Charged(s) == IF s.is THEN file_bytes(s.rows) ELSE 0
Owned == Charged(run) + Charged(merged) + Charged(writer)
         + Sum([i \in DOMAIN levels |-> Charged(levels[i])])

\* spool.rs:260 - a row is charged to its file before it is written, so a write
\* that fails is given back with the file.
Counted(n) == n

\* An early return drops the spools that the sort still owns; "n" bytes were
\* reserved by the call that fails.
Fail(n) ==
    /\ sorting \notin {"done", "failed"}
    /\ sorting' = "failed" /\ charged' = charged + n - (Owned + Counted(n)) /\ levels' = <<>> /\ level' = 0
    /\ run' = None /\ merged' = None /\ writer' = None /\ left' = <<None, None>>
    /\ rows' = <<>> /\ pending' = <<>>
    /\ UNCHANGED <<input, pos, stopped>>

Stopped == stopped /\ Fail(0) /\ UNCHANGED failures
CancelSort == ~stopped /\ stopped' = TRUE /\ UNCHANGED <<input, sorting, pos, pending, rows, writer,
              levels, run, level, left, merged, charged, failures>>

Source == IF pending # <<>> THEN pending ELSE IF pos < Len(input) THEN <<input[pos + 1]>> ELSE <<>>

\* The inner loop: the next row joins the run, waits, or ends the input.
ReadRow ==
    /\ sorting = "read" /\ ~stopped
    /\ pos' = IF pending = <<>> /\ pos < Len(input) THEN pos + 1 ELSE pos
    /\ IF Source # <<>> /\ ~Full(Source[1])
       THEN rows' = Append(rows, Source[1]) /\ pending' = <<>> /\ UNCHANGED <<sorting, writer>>
       ELSE /\ pending' = Source
            /\ rows' \in sort_unstable_by(rows)
            /\ sorting' = IF rows = <<>> THEN "flatten" ELSE "write"
            /\ writer' = IF rows = <<>> THEN None ELSE Some(<<>>)
    /\ level' = 0
    /\ UNCHANGED <<input, levels, run, left, merged, charged, stopped, failures>>

\* push_inner: the row is checked, charged and written.
push_inner(r) == Fits(r) /\ reserve(r.size + EntryBytes)

WriteRow ==
    /\ sorting = "write" /\ rows # <<>> /\ ~stopped /\ push_inner(rows[1])
    /\ writer' = Some(Append(writer.rows, rows[1]))
    /\ charged' = charged + rows[1].size + EntryBytes
    /\ rows' = Tail(rows)
    /\ UNCHANGED <<input, sorting, pos, pending, levels, run, level, left, merged, stopped, failures>>

\* The run is finished and carried into the counter.
FinishRun ==
    /\ sorting = "write" /\ rows = <<>> /\ ~stopped
    /\ run' = writer /\ writer' = None /\ sorting' = "merge"
    /\ UNCHANGED <<input, pos, pending, rows, levels, level, left, merged, charged, stopped, failures>>

\* A free level, or a new one, takes the run.
Place ==
    /\ sorting = "merge" /\ ~writer.is
    /\ level < Len(levels) => ~levels[level + 1].is
    /\ levels' = IF level = Len(levels) THEN Append(levels, run) ELSE [levels EXCEPT ![level + 1] = run]
    /\ run' = None /\ sorting' = "read"
    /\ UNCHANGED <<input, pos, pending, rows, writer, level, left, merged, charged, stopped, failures>>

StartMerge(other, here) ==
    /\ left' = <<other, here>>
    /\ writer' = Some(<<>>)

Carry ==
    /\ sorting = "merge" /\ ~writer.is /\ ~stopped
    /\ level < Len(levels) /\ levels[level + 1].is
    /\ StartMerge(levels[level + 1], run)
    /\ UNCHANGED <<input, sorting, pos, pending, rows, levels, run, level, merged, charged, stopped, failures>>

\* Faulty: one side is emptied before the other is looked at.
take_first == left[1].rows # <<>>

take_a == left[1].rows # <<>> /\ (left[2].rows = <<>> \/ Less(left[1].rows[1], left[2].rows[1]))
Side == IF take_a THEN 1 ELSE 2

MergeRow ==
    /\ sorting \in {"merge", "flatten"} /\ writer.is /\ ~stopped
    /\ left[Side].rows # <<>> /\ push_inner(left[Side].rows[1])
    /\ writer' = Some(Append(writer.rows, left[Side].rows[1]))
    /\ charged' = charged + left[Side].rows[1].size + EntryBytes
    /\ left' = [left EXCEPT ![Side] = Some(Tail(@.rows))]
    /\ UNCHANGED <<input, sorting, pos, pending, rows, levels, run, level, merged, stopped, failures>>

\* Both sides are dropped when the merged spool replaces them.
MergedUsed(a, b) == charged - file_bytes(a.rows) - file_bytes(b.rows)

FinishMerge ==
    /\ sorting = "merge" /\ writer.is /\ ~stopped
    /\ left[1].rows = <<>> /\ left[2].rows = <<>>
    /\ charged' = MergedUsed(levels[level + 1], run)
    /\ levels' = [levels EXCEPT ![level + 1] = None]
    /\ run' = writer /\ writer' = None /\ left' = <<None, None>> /\ level' = level + 1
    /\ UNCHANGED <<input, sorting, pos, pending, rows, merged, stopped, failures>>

\* The levels that are left are merged in one pass, the lowest first.
Lowest == CHOOSE i \in Live : \A j \in Live : i <= j

TakeLevel ==
    /\ sorting = "flatten" /\ ~writer.is /\ Live # {} /\ ~stopped
    /\ IF merged.is
       THEN run' = levels[Lowest] /\ StartMerge(merged, levels[Lowest]) /\ UNCHANGED merged
       ELSE merged' = levels[Lowest] /\ UNCHANGED <<run, left, writer>>
    /\ levels' = [levels EXCEPT ![Lowest] = None]
    /\ UNCHANGED <<input, sorting, pos, pending, rows, level, charged, stopped, failures>>

FinishLevel ==
    /\ sorting = "flatten" /\ writer.is /\ ~stopped
    /\ left[1].rows = <<>> /\ left[2].rows = <<>>
    /\ charged' = MergedUsed(merged, run)
    /\ merged' = writer /\ run' = None /\ writer' = None /\ left' = <<None, None>>
    /\ UNCHANGED <<input, sorting, pos, pending, rows, levels, level, stopped, failures>>

EndLevels ==
    /\ sorting = "flatten" /\ ~writer.is /\ Live = {} /\ ~stopped
    /\ merged' = IF merged.is THEN merged ELSE Some(<<>>)
    /\ sorting' = "digest"
    /\ UNCHANGED <<input, pos, pending, rows, writer, levels, run, level, left, charged, stopped, failures>>

EndDigest ==
    /\ sorting = "digest" /\ ~stopped /\ sorting' = "done"
    /\ UNCHANGED <<input, pos, pending, rows, writer, levels, run, level, left, merged, charged, stopped, failures>>

\* The row that is written next is too large, or there is no room for it.
Due == IF sorting = "write" THEN Head1(rows)
       ELSE IF writer.is THEN Head1(left[Side].rows) ELSE <<>>
Refused == ~stopped /\ Due # <<>> /\ ~push_inner(Due[1]) /\ Fail(0) /\ UNCHANGED failures

\* A file cannot be created, read or written.
Fault ==
    /\ failures < SortFaults /\ failures' = failures + 1
    /\ \/ Fail(0)
       \/ Due # <<>> /\ push_inner(Due[1]) /\ Fail(Due[1].size + EntryBytes)

SortStep == ReadRow \/ WriteRow \/ FinishRun \/ Place \/ Carry \/ MergeRow \/ FinishMerge
        \/ TakeLevel \/ FinishLevel \/ EndLevels \/ EndDigest \/ Refused \/ Stopped
SortNext == SortStep \/ Fault \/ CancelSort
SortSpec == SortInit /\ [][SortNext]_sortVars /\ WF_sortVars(SortStep)

-----------------------------------------------------------------------------
Count(s, r) == Cardinality({i \in DOMAIN s : s[i] = r})

\* A sort that succeeds delivers exactly the rows of the snapshot, each as
\* often as it occurs, in key order: external_sort (spool.rs:451), on which the
\* comparison of two snapshots by a merge join (plan.rs:163) relies.
SortedPermutation ==
    sorting = "done" =>
        /\ Ordered(merged.rows)
        /\ \A r \in Range(input) \cup Range(merged.rows) : Count(input, r) = Count(merged.rows, r)

\* The quota counts the bytes of the files that exist, no more and no less,
\* and after a failure or a cancel only the input's: Inner::drop (spool.rs:131).
DiskAccounted == charged = file_bytes(input) + Owned

\* The rows that the sort keeps in memory fit the half of the buffer that it
\* reserved for itself (spool.rs:452): the run, the row that waits and the two
\* rows of a merge.  Only rows below an eighth of the memory, and runs below three
\* eighths (16 of 64 MiB by default), are promised this.
Held ==
    memory_size(rows) + memory_size(pending)
      + IF writer.is THEN memory_size(Head1(left[1].rows)) + memory_size(Head1(left[2].rows))
                     ELSE 0
SmallRows == /\ \A r \in Range(input) : r.size <= SortMemory \div 8
             /\ SortRun <= 3 * (SortMemory \div 8)
HeldWithinLease == SmallRows => Held <= SortMemory \div 2

\* What the sort promises while it runs and when it ends.
SortExact == SortTypeOK /\ SortedPermutation /\ DiskAccounted /\ HeldWithinLease

\* The sort ends: with its result, or with an error when the budget is
\* exceeded, a file fails or the task is cancelled (spool.rs:451).
SortEnds == <>(sorting \in {"done", "failed"})

=============================================================================
