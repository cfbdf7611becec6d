--------------------------- MODULE SnapshotStream ---------------------------
(***************************************************************************)
(* Reading the snapshot of one endpoint (network_snapshot in               *)
(* db/data_tasks/executor.rs, stream_rows of the adapters and the shared   *)
(* ResourceBudget of spool.rs).  The reading side decodes one row at a     *)
(* time under a memory lease and sends it over a channel of one place; the *)
(* writing thread converts it and appends it to one or two spools.  The    *)
(* reader waits for memory, the writer does not: what it cannot get ends   *)
(* the snapshot.  A row is its size.                                       *)
(***************************************************************************)
EXTENDS Sums

CONSTANTS
    Sources,       \* rows of the endpoint: sequences of sizes
    Adapters,      \* subset of {"payload", "held", "direct"}
    MaxRow,        \* max_row_bytes
    Memory,        \* memory_bytes
    Disk,          \* disk_bytes
    Overhead,      \* bytes of a spool entry that are not data
    MayFail,       \* connections, conversions and files may fail
    MayCancel

\* Sizes and limits are numbers of bytes.
ASSUME StreamConstants ==
    /\ Sources \subseteq Seq(Nat)
    /\ Memory \in Nat /\ Disk \in Nat /\ Overhead \in Nat

VARIABLES
    source, adapter, projected,
    reading,     \* "open", "next", "decode", "decoded", "send", "put" or "done"
    count,       \* rows sent
    read_result, \* "none", "ok", "cancelled", "resource_limit", "database" or "closed"
    base,        \* lease held for the whole stream (ClickHouse)
    lease,       \* lease of the row being decoded or sent
    channel,     \* rows with their leases
    writing,     \* "recv", "convert", "project", "full", "finish", "done"
    row,         \* the row being written, with its lease
    scratch,     \* leases of the push in progress
    spools,      \* rows written: [full, projected]
    output,      \* of the writing thread: "none", "ok" or its error
    memory_used, used, cancelled

reader == <<reading, count, read_result, base, lease>>
worker == <<writing, row, scratch, spools, output>>
given == <<source, adapter, projected>>
vars == <<given, reader, channel, worker, memory_used, used, cancelled>>

Errors == {"cancelled", "resource_limit", "database", "closed", "conversion", "file"}
bytes(s) == Sum(s) + Len(s) * Overhead

TypeOK ==
    /\ reading \in {"open", "next", "decode", "decoded", "send", "put", "done"}
    /\ writing \in {"recv", "convert", "project", "full", "finish", "done"}
    /\ read_result \in {"none", "ok"} \cup Errors /\ output \in {"none", "ok"} \cup Errors
    /\ Len(channel) <= 1 /\ memory_used \in 0 .. Memory /\ used \in 0 .. Disk

Init ==
    /\ source \in Sources /\ adapter \in Adapters /\ projected \in BOOLEAN
    /\ reading = "open" /\ count = 0 /\ read_result = "none" /\ base = 0 /\ lease = 0
    /\ channel = <<>> /\ writing = "recv" /\ row = 0 /\ scratch = 0
    /\ spools = [full |-> <<>>, projected |-> <<>>] /\ output = "none"
    /\ memory_used = 0 /\ used = 0 /\ cancelled = FALSE

\* spool.rs:62 - one atomic update, refused above the budget.
reserve_memory(n) == memory_used + n <= Memory

\* A text or binary value travels as hexadecimal digits, and the payload and
\* what is decoded from it are charged three times the payload.
Decode(n) == IF adapter = "payload" THEN 3 * (2 * n) ELSE 0

EndReading(result) ==
    /\ reading' = "done" /\ read_result' = result /\ base' = 0 /\ lease' = 0
    /\ memory_used' = memory_used - base - lease
    /\ UNCHANGED <<given, count, channel, worker, used, cancelled>>

\* The query is sent; ClickHouse takes half of the budget for its line buffer.
Open ==
    /\ reading = "open" /\ ~cancelled
    /\ base' = IF adapter = "held" THEN Memory \div 2 ELSE 0
    /\ reserve_memory(base') /\ memory_used' = memory_used + base'
    /\ reading' = "next"
    /\ UNCHANGED <<given, count, read_result, lease, channel, worker, used, cancelled>>

\* The server's query replaces a row that is too large by a mark.
NextRow ==
    /\ reading = "next" /\ ~cancelled
    /\ IF count = Len(source) THEN EndReading("ok")
       ELSE IF source[count + 1] > MaxRow \/ Decode(source[count + 1]) > Memory THEN EndReading("resource_limit")
       ELSE reading' = "decode" /\ UNCHANGED <<given, count, read_result, base, lease, channel, worker,
                                               memory_used, used, cancelled>>

\* Faulty: a lease needs less than all that is free.
LeaseBelow(at, n, to) ==
    /\ reading = at /\ ~cancelled /\ memory_used + n < Memory
    /\ lease' = n /\ memory_used' = memory_used + n /\ reading' = to
    /\ UNCHANGED <<given, count, read_result, base, channel, worker, used, cancelled>>

\* The reader tries again every 10 ms until the memory is there.
Lease(at, n, to) ==
    /\ reading = at /\ ~cancelled /\ reserve_memory(n)
    /\ lease' = n /\ memory_used' = memory_used + n /\ reading' = to
    /\ UNCHANGED <<given, count, read_result, base, channel, worker, used, cancelled>>

reserve_decode == Lease("decode", Decode(source[count + 1]), "decoded")

\* The lease of the payload is dropped before that of the row is taken.
Decoded ==
    /\ reading = "decoded"
    /\ lease' = 0 /\ memory_used' = memory_used - lease /\ reading' = "send"
    /\ UNCHANGED <<given, count, read_result, base, channel, worker, used, cancelled>>

reserve_send == Lease("send", source[count + 1], "put")

Put ==
    /\ reading = "put" /\ channel = <<>> /\ writing # "done"
    /\ channel' = <<lease>> /\ lease' = 0 /\ count' = count + 1 /\ reading' = "next"
    /\ UNCHANGED <<given, read_result, base, worker, memory_used, used, cancelled>>

Closed == reading = "put" /\ writing = "done" /\ EndReading("closed")
DatabaseFails == MayFail /\ reading \in {"open", "next"} /\ EndReading("database")
\* Cancellation is looked at before every wait; MySQL and PostgreSQL also give
\* up the wait for the channel.
ReadCancelled ==
    /\ cancelled /\ reading \in {"open", "next", "decode", "send", "put"}
    /\ reading = "put" => adapter = "payload"
    /\ EndReading("cancelled")

\* An error of the writing thread closes the channel and drops both spools.
Worker(error) ==
    /\ writing' = "done" /\ output' = error /\ row' = 0 /\ scratch' = 0 /\ channel' = <<>>
    /\ memory_used' = memory_used - row - scratch - Sum(channel)
    /\ used' = used - bytes(spools.full) - bytes(spools.projected)
    /\ spools' = [full |-> <<>>, projected |-> <<>>]
    /\ UNCHANGED <<given, reader, cancelled>>

Receive ==
    /\ writing = "recv"
    /\ IF channel # <<>> THEN row' = channel[1] /\ channel' = <<>> /\ writing' = "convert"
       ELSE reading = "done" /\ writing' = "finish" /\ UNCHANGED <<row, channel>>
    /\ UNCHANGED <<given, reader, scratch, spools, output, memory_used, used, cancelled>>

Convert ==
    /\ writing = "convert"
    /\ IF cancelled THEN Worker("cancelled")
       ELSE /\ writing' = IF projected THEN "project" ELSE "full"
            /\ UNCHANGED <<given, reader, channel, row, scratch, spools, output, memory_used, used, cancelled>>

\* push_inner needs twice the row while it encrypts it; the projected row is
\* charged itself as well.
Scratch == IF writing = "project" THEN 3 * row ELSE 2 * row

Push ==
    /\ writing \in {"project", "full"} /\ scratch = 0
    /\ IF cancelled THEN Worker("cancelled")
       ELSE IF ~reserve_memory(Scratch) \/ 4 * row > Memory THEN Worker("resource_limit")
       ELSE /\ scratch' = Scratch /\ memory_used' = memory_used + Scratch
            /\ UNCHANGED <<given, reader, channel, writing, row, spools, output, used, cancelled>>

Pushed ==
    /\ writing \in {"project", "full"} /\ scratch > 0
    /\ IF cancelled THEN Worker("cancelled")
       ELSE IF used + row + Overhead > Disk THEN Worker("resource_limit")
       ELSE /\ used' = used + row + Overhead
            /\ IF writing = "project"
               THEN /\ spools' = [spools EXCEPT !.projected = Append(@, row)]
                    /\ writing' = "full" /\ row' = row /\ memory_used' = memory_used - scratch
               ELSE /\ spools' = [spools EXCEPT !.full = Append(@, row)]
                    /\ writing' = "recv" /\ row' = 0 /\ memory_used' = memory_used - scratch - row
            /\ scratch' = 0
            /\ UNCHANGED <<given, reader, channel, output, cancelled>>

Finish ==
    /\ writing = "finish"
    /\ IF cancelled THEN Worker("cancelled")
       ELSE writing' = "done" /\ output' = "ok"
            /\ UNCHANGED <<given, reader, channel, row, scratch, spools, memory_used, used, cancelled>>

Conversion == MayFail /\ writing = "convert" /\ Worker("conversion")
FileFails == MayFail /\ writing \in {"project", "full", "finish"} /\ Worker("file")

Cancel == MayCancel /\ ~cancelled /\ cancelled' = TRUE
          /\ UNCHANGED <<given, reader, channel, worker, memory_used, used>>

Reader == Open \/ NextRow \/ reserve_decode \/ Decoded \/ reserve_send \/ Put \/ Closed \/ ReadCancelled
Writer == Receive \/ Convert \/ Push \/ Pushed \/ Finish
Next == Reader \/ Writer \/ DatabaseFails \/ Conversion \/ FileFails \/ Cancel
Spec == Init /\ [][Next]_vars /\ WF_vars(Reader) /\ WF_vars(Writer)

\* executor.rs:875 - what network_snapshot returns once both have ended.
Ended == reading = "done" /\ writing = "done"
\* Faulty: only the side that writes the spool is asked.
WriterOnly == output
Result == IF output # "ok" THEN output
          ELSE IF read_result = "ok" /\ cancelled THEN "cancelled" ELSE read_result

-----------------------------------------------------------------------------
\* A snapshot is returned only when it holds every row of the endpoint, in both
\* spools when there are two: the writing thread ends well when the reading
\* side breaks off (executor.rs:878).
CompleteSnapshot ==
    Ended /\ Result = "ok" =>
        /\ spools.full = source
        /\ projected => spools.projected = source

\* The caller learns why the writing thread stopped, although the reading side
\* only sees a closed channel (executor.rs:877).
RootCause == Ended /\ output \notin {"ok", "none"} => Result = output

\* The counters are the sums of what is in use: every lease is given back once,
\* on every path, and the files of a failed snapshot leave the quota.
Accounted ==
    /\ memory_used = base + lease + Sum(channel) + row + scratch
    /\ used = bytes(spools.full) + bytes(spools.projected)

\* What a snapshot promises as long as it runs and when it ends.
SnapshotExact == TypeOK /\ CompleteSnapshot /\ RootCause /\ Accounted

\* Reader and writer wait for each other and for memory, and still end.
SnapshotEnds == <>Ended
=============================================================================
