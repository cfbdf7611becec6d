---------------------------- MODULE SnapshotProofs ----------------------------
(***************************************************************************)
(* Proofs about the snapshot of a data task: SnapshotStream, for every     *)
(* source, adapter and quota, and ExternalSort, for every input, chunk     *)
(* size and quota.                                                         *)
(*                                                                         *)
(* Both arguments are about where a row is.  In a stream it is still in    *)
(* the source, in the channel, carried by the worker or in the spools, and *)
(* the lease of its memory is where it is.  In a sort it is in the chunk,  *)
(* in one run or, during a merge, in the writer's run besides one of the   *)
(* two it is merged from.  That nothing is lost, that nothing is doubled,  *)
(* that the disk quota is charged with the files and that memory suffices  *)
(* are one fact: a weight of rows adds up to the same over all places; the *)
(* size of a row, its size on disk and its occurrences are weights.        *)
(***************************************************************************)
EXTENDS SequencesExt, SnapshotStream, ExternalSort, Induction, SequenceTheorems, FiniteSetTheorems, TLAPS

-------------------------------------------------------------------------------
(* SnapshotStream: the rows of a table on their way to the spools. *)

\* One number is its own sum.
LEMMA SumOne == \A x \in Int : Sum(<<x>>) = x
<1> SUFFICES ASSUME NEW x \in Int PROVE Sum(<<x>>) = x
  OBVIOUS
<1>1. <<>> \in Seq(Int) /\ Append(<<>>, x) = <<x>>
  OBVIOUS
<1>2. PICK e \in Seq(Int) : e = <<>>
  BY <1>1, Zenon
<1>3. Sum(Append(e, x)) = Sum(e) + x
  BY SumAppend
<1> QED BY <1>1, <1>2, <1>3, SumEmpty

\* The channel, which holds one row at most, is that row.
LEMMA OneElement ==
  ASSUME NEW ch \in Seq(Nat), Len(ch) <= 1, ch # <<>>
  PROVE  Len(ch) = 1 /\ ch[1] \in Nat /\ ch = <<ch[1]>> /\ Sum(ch) = ch[1]
<1>1. PICK n \in Nat : n = Len(ch)
  OBVIOUS
<1>2. n # 0
  BY <1>1, EmptySeq
<1>3. n = 1
  BY <1>1, <1>2
<1>4. ch[1] \in Nat
  BY <1>1, <1>3, ElementOfSeq
<1>5. ch = <<ch[1]>>
  <2>1. PICK x \in Nat : x = ch[1]
    BY <1>4
  <2>2. <<x>> \in Seq(Nat) /\ Len(<<x>>) = 1 /\ <<x>>[1] = x
    OBVIOUS
  <2>3. PICK t \in Seq(Nat) : t = <<x>>
    BY <2>2
  <2>4. Len(ch) = Len(t) /\ \A i \in 1..Len(ch) : ch[i] = t[i]
    BY <1>1, <1>3, <2>1, <2>2, <2>3
  <2> QED BY <2>1, <2>3, <2>4, SeqEqual
<1> QED BY <1>1, <1>3, <1>4, <1>5, SumOne

\* The bytes of a spool grow with every row by the row and its overhead.
LEMMA BytesOf ==
  ASSUME NEW s \in Seq(Nat)
  PROVE  bytes(s) \in Nat /\ \A x \in Nat : bytes(Append(s, x)) = bytes(s) + x + Overhead
<1>1. s \in Seq(Int) /\ Len(s) \in Nat /\ Sum(s) \in Nat
  BY SumNat
<1>2. ASSUME NEW x \in Nat PROVE bytes(Append(s, x)) = bytes(s) + x + Overhead
  <2>1. Sum(Append(s, x)) = Sum(s) + x /\ Len(Append(s, x)) = Len(s) + 1
    BY <1>1, SumAppend
  <2>2. (Len(s) + 1) * Overhead = Len(s) * Overhead + Overhead
    BY <1>1, StreamConstants
  <2>3. Len(s) * Overhead \in Nat
    BY <1>1, StreamConstants
  <2> QED BY <1>1, <2>1, <2>2, <2>3, StreamConstants DEF bytes
<1>3. Len(s) * Overhead \in Nat
  BY <1>1, StreamConstants
<1> QED BY <1>1, <1>2, <1>3 DEF bytes

\* An empty spool has no bytes.
LEMMA BytesEmpty == bytes(<<>>) = 0
  BY SumEmpty, StreamConstants DEF bytes

\* The row the worker has taken and not yet written.
Carried == IF writing \in {"convert", "project", "full"} THEN 1 ELSE 0

\* Both spools of a table.
SpoolPair == [full : Seq(Nat), projected : Seq(Nat)]

\* The types of the variables.
StreamTyped ==
  /\ source \in Seq(Nat) /\ projected \in BOOLEAN
  /\ count \in Nat /\ count <= Len(source)
  /\ base \in Nat /\ lease \in Nat /\ row \in Nat /\ scratch \in Nat
  /\ channel \in Seq(Nat)
  /\ spools \in SpoolPair

\* What the reader's place says of its lease and its count.
ReaderInv ==
  /\ reading \in {"open", "next", "decode", "send"} => lease = 0
  /\ reading = "open" => base = 0
  /\ reading \in {"decode", "decoded", "send", "put"} => count < Len(source)
  /\ reading = "put" => lease = source[count + 1]
  /\ (read_result = "none") <=> (reading # "done")
  /\ read_result = "ok" => count = Len(source)

\* What the worker's place says of its row, its scratch memory and the channel.
WriterInv ==
  /\ writing \in {"recv", "finish", "done"} => row = 0
  /\ writing \notin {"project", "full"} => scratch = 0
  /\ (output = "none") <=> (writing # "done")
  /\ writing = "finish" \/ output = "ok" => reading = "done"
  /\ writing \in {"finish", "done"} => channel = <<>>

\* Every row read is written, carried or in the channel, and the spools hold the first
\* rows of the source.
FlowInv ==
  output \in {"none", "ok"} =>
    /\ count = Len(spools.full) + Carried + Len(channel)
    /\ \A i \in 1..Len(spools.full) : spools.full[i] = source[i]
    /\ Carried = 1 => row = source[Len(spools.full) + 1]
    /\ channel # <<>> => channel[1] = source[count]
    /\ projected => /\ Len(spools.projected) = Len(spools.full) + (IF writing = "full" THEN 1 ELSE 0)
                    /\ \A i \in 1..Len(spools.projected) : spools.projected[i] = source[i]

\* The inductive invariant.
StreamInv == StreamTyped /\ TypeOK /\ Accounted /\ ReaderInv /\ WriterInv /\ FlowInv

\* A stream starts with nothing leased and nothing written.
LEMMA StreamStart == Init => StreamInv
<1> SUFFICES ASSUME Init PROVE StreamInv
  OBVIOUS
<1>1. StreamTyped
  <2>1. <<>> \in Seq(Nat)
    OBVIOUS
  <2> QED BY <2>1, StreamConstants DEF Init, StreamTyped, SpoolPair
<1>2. TypeOK
  BY StreamConstants DEF Init, TypeOK, Errors
<1>3. Accounted
  BY SumEmpty, BytesEmpty DEF Init, Accounted
<1>4. ReaderInv /\ WriterInv /\ FlowInv
  BY <1>1 DEF Init, ReaderInv, WriterInv, FlowInv, StreamTyped, Carried
<1> QED BY <1>1, <1>2, <1>3, <1>4 DEF StreamInv

\* The amounts the quotas are compared with are numbers.
LEMMA LeasesBounded ==
  ASSUME StreamInv
  PROVE  /\ Sum(channel) \in Nat
         /\ bytes(spools.full) \in Nat /\ bytes(spools.projected) \in Nat
         /\ spools.full \in Seq(Nat) /\ spools.projected \in Seq(Nat)
         /\ memory_used \in Nat /\ used \in Nat
         /\ Len(source) \in Nat /\ \A i \in 1..Len(source) : source[i] \in Nat
<1>1. PICK c \in Seq(Nat), f \in Seq(Nat), p \in Seq(Nat) :
        c = channel /\ f = spools.full /\ p = spools.projected
  BY DEF StreamInv, StreamTyped, SpoolPair
<1>2. Sum(c) \in Nat /\ bytes(f) \in Nat /\ bytes(p) \in Nat
  BY SumNat, BytesOf
<1>3. memory_used \in Nat /\ used \in Nat
  BY StreamConstants DEF StreamInv, TypeOK
<1>4. Len(source) \in Nat /\ \A i \in 1..Len(source) : source[i] \in Nat
  BY DEF StreamInv, StreamTyped
<1> QED BY <1>1, <1>2, <1>3, <1>4

\* The amounts that the counters are the sums of.
LEMMA Amounts ==
  ASSUME StreamInv
  PROVE  \E b \in Nat, l \in Nat, c \in Nat, r \in Nat, t \in Nat, m \in Nat,
            u \in Nat, f \in Nat, p \in Nat :
           /\ base = b /\ lease = l /\ Sum(channel) = c /\ row = r /\ scratch = t
           /\ memory_used = m /\ m = b + l + c + r + t /\ m <= Memory
           /\ bytes(spools.full) = f /\ bytes(spools.projected) = p
           /\ used = u /\ u = f + p /\ u <= Disk
<1>1. PICK b \in Nat, l \in Nat, c \in Nat, r \in Nat, t \in Nat, m \in Nat,
           u \in Nat, f \in Nat, p \in Nat :
           /\ base = b /\ lease = l /\ Sum(channel) = c /\ row = r /\ scratch = t
           /\ memory_used = m /\ bytes(spools.full) = f /\ bytes(spools.projected) = p /\ used = u
  <2> HIDE DEF bytes, Sum
  <2> QED BY LeasesBounded, Zenon DEF StreamInv, StreamTyped
<1>2. m = b + l + c + r + t /\ u = f + p
  BY <1>1, Zenon DEF StreamInv, Accounted
<1>3. m <= Memory /\ u <= Disk
  BY <1>1, StreamConstants DEF StreamInv, TypeOK
<1> QED BY <1>1, <1>2, <1>3, Zenon

\* A step of the reading side that ends it.
LEMMA EndReadingSafe ==
  ASSUME StreamInv, NEW result, result \in {"ok"} \cup Errors, result = "ok" => count = Len(source),
         reading # "done", EndReading(result)
  PROVE  StreamInv'
<1> USE LeasesBounded DEF EndReading, given, worker
<1>1. StreamTyped'
  BY DEF StreamInv, StreamTyped
<1>a. PICK b \in Nat, l \in Nat, c \in Nat, r \in Nat, t \in Nat, m \in Nat,
           u \in Nat, f \in Nat, p \in Nat :
           /\ base = b /\ lease = l /\ Sum(channel) = c /\ row = r /\ scratch = t
           /\ memory_used = m /\ m = b + l + c + r + t /\ m <= Memory
           /\ bytes(spools.full) = f /\ bytes(spools.projected) = p
           /\ used = u /\ u = f + p /\ u <= Disk
  BY Amounts
<1>b. base' = 0 /\ lease' = 0 /\ Sum(channel)' = c /\ row' = r /\ scratch' = t
      /\ memory_used' = c + r + t /\ bytes(spools.full)' = f /\ bytes(spools.projected)' = p /\ used' = u
  BY <1>a
<1>2. TypeOK'
  BY <1>a, <1>b, StreamConstants DEF StreamInv, TypeOK, Errors
<1>3. Accounted'
  BY <1>a, <1>b DEF Accounted
<1>4. ReaderInv' /\ WriterInv'
  BY DEF StreamInv, StreamTyped, ReaderInv, WriterInv, Errors
<1>5. FlowInv'
  BY DEF StreamInv, FlowInv, Carried
<1> QED BY <1>1, <1>2, <1>3, <1>4, <1>5 DEF StreamInv

\* Opening the cursor or the spool changes no amount.
LEMMA OpenSafe == ASSUME StreamInv, Open PROVE StreamInv'
<1> USE LeasesBounded DEF Open, given, worker
<1>0. Memory \div 2 \in Nat
  BY StreamConstants
<1>1. StreamTyped'
  BY <1>0 DEF StreamInv, StreamTyped
<1>2. TypeOK'
  BY <1>0, StreamConstants DEF StreamInv, TypeOK, reserve_memory
<1>a. PICK b \in Nat, l \in Nat, c \in Nat, r \in Nat, t \in Nat, m \in Nat,
           u \in Nat, f \in Nat, p \in Nat :
           /\ base = b /\ lease = l /\ Sum(channel) = c /\ row = r /\ scratch = t
           /\ memory_used = m /\ m = b + l + c + r + t /\ m <= Memory
           /\ bytes(spools.full) = f /\ bytes(spools.projected) = p
           /\ used = u /\ u = f + p /\ u <= Disk
  BY Amounts
<1>b. b = 0 /\ Sum(channel)' = c /\ row' = r /\ scratch' = t /\ lease' = l
      /\ bytes(spools.full)' = f /\ bytes(spools.projected)' = p /\ used' = u
  BY <1>a DEF StreamInv, ReaderInv
<1>c. PICK b1 \in Nat : base' = b1 /\ memory_used' = m + b1
  BY <1>0, <1>a
<1>d. m + b1 = b1 + l + c + r + t
  BY <1>a, <1>b
<1>3. Accounted'
  BY <1>a, <1>b, <1>c, <1>d, Zenon DEF Accounted
<1>4. ReaderInv' /\ WriterInv'
  BY DEF StreamInv, ReaderInv, WriterInv
<1>5. FlowInv'
  BY DEF StreamInv, FlowInv, Carried
<1> QED BY <1>1, <1>2, <1>3, <1>4, <1>5 DEF StreamInv

\* The driver hands over the next row, or the end, or an error.
LEMMA NextRowSafe == ASSUME StreamInv, NextRow PROVE StreamInv'
<1>1. CASE count = Len(source)
  <2>1. EndReading("ok") /\ reading # "done" /\ "ok" \in {"ok"} \cup Errors
    BY <1>1 DEF NextRow
  <2> QED BY <1>1, <2>1, EndReadingSafe
<1>2. CASE count # Len(source) /\ (source[count + 1] > MaxRow \/ Decode(source[count + 1]) > Memory)
  <2>1. EndReading("resource_limit") /\ reading # "done" /\ "resource_limit" \in {"ok"} \cup Errors
    BY <1>2 DEF NextRow, Errors
  <2> QED BY <2>1, EndReadingSafe
<1>3. CASE count # Len(source) /\ ~(source[count + 1] > MaxRow \/ Decode(source[count + 1]) > Memory)
  <2>1. reading = "next" /\ reading' = "decode" /\ UNCHANGED <<given, count, read_result, base, lease, channel, worker,
                                               memory_used, used, cancelled>>
    BY <1>3 DEF NextRow
  <2> USE <2>1, LeasesBounded DEF given, worker
  <2>2. StreamTyped'
    BY DEF StreamInv, StreamTyped
  <2>3. TypeOK' /\ Accounted'
    BY DEF StreamInv, TypeOK, Accounted
  <2>4. ReaderInv' /\ WriterInv'
    BY <1>3 DEF StreamInv, ReaderInv, WriterInv, StreamTyped
  <2>5. FlowInv'
    BY DEF StreamInv, FlowInv, Carried
  <2> QED BY <2>2, <2>3, <2>4, <2>5 DEF StreamInv
<1> QED BY <1>1, <1>2, <1>3

\* A lease of memory is granted within the quota and counted where the row is, or
\* refused, which ends the reader.
LEMMA LeaseSafe ==
  ASSUME StreamInv, NEW n \in Nat, NEW from, NEW to, Lease(from, n, to),
         \/ from = "decode" /\ to = "decoded"
         \/ from = "send" /\ to = "put" /\ n = source[count + 1]
  PROVE  StreamInv'
<1> USE LeasesBounded DEF Lease, given, worker
<1>1. StreamTyped'
  BY DEF StreamInv, StreamTyped
<1>2. TypeOK'
  BY StreamConstants DEF StreamInv, TypeOK, reserve_memory
<1>a. PICK b \in Nat, l \in Nat, c \in Nat, r \in Nat, t \in Nat, m \in Nat,
           u \in Nat, f \in Nat, p \in Nat :
           /\ base = b /\ lease = l /\ Sum(channel) = c /\ row = r /\ scratch = t
           /\ memory_used = m /\ m = b + l + c + r + t /\ m <= Memory
           /\ bytes(spools.full) = f /\ bytes(spools.projected) = p
           /\ used = u /\ u = f + p /\ u <= Disk
  BY Amounts
<1>b. l = 0 /\ Sum(channel)' = c /\ row' = r /\ scratch' = t /\ base' = b /\ lease' = n /\ memory_used' = m + n
      /\ bytes(spools.full)' = f /\ bytes(spools.projected)' = p /\ used' = u
  BY <1>a DEF StreamInv, ReaderInv
<1>c. m + n = b + n + c + r + t
  BY <1>a, <1>b
<1>3. Accounted'
  BY <1>a, <1>b, <1>c, Zenon DEF Accounted
<1>4. ReaderInv' /\ WriterInv'
  BY DEF StreamInv, ReaderInv, WriterInv
<1>5. FlowInv'
  BY DEF StreamInv, FlowInv, Carried
<1> QED BY <1>1, <1>2, <1>3, <1>4, <1>5 DEF StreamInv

\* The lease of the driver's buffer becomes that of the decoded row.
LEMMA DecodedSafe == ASSUME StreamInv, Decoded PROVE StreamInv'
<1> USE LeasesBounded DEF Decoded, given, worker
<1>1. StreamTyped'
  BY DEF StreamInv, StreamTyped
<1>a. PICK b \in Nat, l \in Nat, c \in Nat, r \in Nat, t \in Nat, m \in Nat,
           u \in Nat, f \in Nat, p \in Nat :
           /\ base = b /\ lease = l /\ Sum(channel) = c /\ row = r /\ scratch = t
           /\ memory_used = m /\ m = b + l + c + r + t /\ m <= Memory
           /\ bytes(spools.full) = f /\ bytes(spools.projected) = p
           /\ used = u /\ u = f + p /\ u <= Disk
  BY Amounts
<1>b. Sum(channel)' = c /\ row' = r /\ scratch' = t /\ base' = b /\ lease' = 0 /\ memory_used' = b + c + r + t
      /\ bytes(spools.full)' = f /\ bytes(spools.projected)' = p /\ used' = u
  BY <1>a
<1>2. TypeOK'
  BY <1>a, <1>b, StreamConstants DEF StreamInv, TypeOK
<1>3. Accounted'
  BY <1>a, <1>b DEF Accounted
<1>4. ReaderInv' /\ WriterInv'
  BY DEF StreamInv, ReaderInv, WriterInv
<1>5. FlowInv'
  BY DEF StreamInv, FlowInv, Carried
<1> QED BY <1>1, <1>2, <1>3, <1>4, <1>5 DEF StreamInv

\* A row enters the channel only while it is empty.
LEMMA PutSafe == ASSUME StreamInv, Put PROVE StreamInv'
<1> USE LeasesBounded DEF Put, given, worker
<1>0. channel' = <<lease>> /\ Len(channel') = 1 /\ channel'[1] = lease /\ Sum(channel) = 0 /\ Sum(channel') = lease
  <2>1. PICK x \in Nat : x = lease
    BY DEF StreamInv, StreamTyped
  <2>2. Sum(<<x>>) = x
    BY SumOne
  <2> QED BY <2>1, <2>2, SumEmpty
<1>1. StreamTyped'
  BY <1>0 DEF StreamInv, StreamTyped, ReaderInv
<1>2. TypeOK'
  BY <1>0 DEF StreamInv, TypeOK
<1>3. Accounted'
  BY <1>0 DEF StreamInv, StreamTyped, Accounted
<1>4. ReaderInv' /\ WriterInv'
  BY <1>0 DEF StreamInv, ReaderInv, WriterInv, StreamTyped
<1>5. FlowInv'
  <2> SUFFICES ASSUME output \in {"none", "ok"} PROVE FlowInv'
    BY DEF FlowInv
  <2>1. PICK f \in Seq(Nat), k \in Nat : f = spools.full /\ k = Carried
    BY DEF Carried
  <2>2. count = Len(f) + k + 0 /\ Len(channel) = 0
    BY <2>1 DEF StreamInv, FlowInv
  <2>3. count + 1 = Len(f) + k + 1
    BY <2>2
  <2>4. count' = Len(f) + k + 1 /\ Carried' = k /\ channel'[1] = source[count']
    BY <1>0, <2>1, <2>3 DEF StreamInv, ReaderInv, Carried
  <2>5. /\ \A i \in 1..Len(f) : f[i] = source[i]
        /\ k = 1 => row = source[Len(f) + 1]
        /\ projected => /\ Len(spools.projected) = Len(f) + (IF writing = "full" THEN 1 ELSE 0)
                        /\ \A i \in 1..Len(spools.projected) : spools.projected[i] = source[i]
    BY <2>1 DEF StreamInv, FlowInv
  <2>6. spools' = spools /\ source' = source /\ row' = row /\ projected' = projected /\ writing' = writing
    OBVIOUS
  <2> HIDE DEF Put
  <2> QED BY <1>0, <2>1, <2>4, <2>5, <2>6 DEF FlowInv
<1> QED BY <1>1, <1>2, <1>3, <1>4, <1>5 DEF StreamInv

\* The spool worker ends with or without an error and gives its memory back.
LEMMA WorkerSafe ==
  ASSUME StreamInv, NEW error \in Errors, writing # "done", Worker(error)
  PROVE  StreamInv'
<1> USE LeasesBounded DEF Worker, given, reader
<1>0. Sum(channel') = 0 /\ Len(channel') = 0 /\ bytes(spools'.full) = 0 /\ bytes(spools'.projected) = 0
      /\ spools'.full = <<>> /\ spools'.projected = <<>>
  BY SumEmpty, BytesEmpty
<1>1. StreamTyped'
  <2>1. <<>> \in Seq(Nat)
    OBVIOUS
  <2> QED BY <2>1 DEF StreamInv, StreamTyped, SpoolPair
<1>a. PICK b \in Nat, l \in Nat, c \in Nat, r \in Nat, t \in Nat, m \in Nat,
           u \in Nat, f \in Nat, p \in Nat :
           /\ base = b /\ lease = l /\ Sum(channel) = c /\ row = r /\ scratch = t
           /\ memory_used = m /\ m = b + l + c + r + t /\ m <= Memory
           /\ bytes(spools.full) = f /\ bytes(spools.projected) = p
           /\ used = u /\ u = f + p /\ u <= Disk
  BY Amounts
<1>b. base' = b /\ lease' = l /\ Sum(channel)' = 0 /\ row' = 0 /\ scratch' = 0 /\ memory_used' = b + l
      /\ bytes(spools.full)' = 0 /\ bytes(spools.projected)' = 0 /\ used' = 0
  BY <1>0, <1>a
<1>2. Accounted'
  BY <1>a, <1>b DEF Accounted
<1>3. TypeOK'
  BY <1>0, <1>a, <1>b, StreamConstants DEF StreamInv, TypeOK
<1>4. ReaderInv' /\ WriterInv'
  BY <1>0 DEF StreamInv, ReaderInv, WriterInv, StreamTyped, Errors
<1>5. FlowInv'
  BY DEF FlowInv, Errors
<1> QED BY <1>1, <1>2, <1>3, <1>4, <1>5 DEF StreamInv

\* The worker takes the row in the channel, or finds the channel closed.
LEMMA ReceiveSafe == ASSUME StreamInv, Receive PROVE StreamInv'
<1> USE LeasesBounded DEF Receive, given, reader
<1>a. CASE channel # <<>>
  <2> USE <1>a
  <2>0. row' = channel[1] /\ channel' = <<>> /\ writing' = "convert" /\ Sum(channel') = 0 /\ Sum(channel) = channel[1]
        /\ Len(channel) = 1 /\ channel[1] \in Nat
    <3>1. PICK ch \in Seq(Nat) : ch = channel
      BY DEF StreamInv, StreamTyped
    <3>a. Len(ch) <= 1 /\ ch # <<>>
      BY <3>1 DEF StreamInv, TypeOK
    <3>b. Len(ch) = 1 /\ ch[1] \in Nat /\ ch = <<ch[1]>> /\ Sum(ch) = ch[1]
      BY <3>a, OneElement
    <3> QED BY <3>1, <3>b, SumEmpty
  <2>1. StreamTyped'
    BY <2>0 DEF StreamInv, StreamTyped
  <2>2. TypeOK'
    BY <2>0 DEF StreamInv, TypeOK
  <2>3. Accounted'
    BY <2>0 DEF StreamInv, StreamTyped, Accounted, WriterInv
  <2>4. ReaderInv' /\ WriterInv'
    BY <2>0 DEF StreamInv, ReaderInv, WriterInv, StreamTyped
  <2>5. FlowInv'
    BY <2>0 DEF StreamInv, FlowInv, Carried, StreamTyped
  <2> QED BY <2>1, <2>2, <2>3, <2>4, <2>5 DEF StreamInv
<1>b. CASE channel = <<>>
  <2> USE <1>b
  <2>1. StreamTyped'
    BY DEF StreamInv, StreamTyped
  <2>2. TypeOK' /\ Accounted'
    BY DEF StreamInv, TypeOK, Accounted
  <2>4. ReaderInv' /\ WriterInv'
    BY DEF StreamInv, ReaderInv, WriterInv
  <2>5. FlowInv'
    BY DEF StreamInv, FlowInv, Carried
  <2> QED BY <2>1, <2>2, <2>4, <2>5 DEF StreamInv
<1> QED BY <1>a, <1>b

\* A row that is converted becomes the row to be written, or an error.
LEMMA ConvertSafe == ASSUME StreamInv, Convert PROVE StreamInv'
<1>a. CASE cancelled
  BY <1>a, WorkerSafe DEF Convert, Errors
<1>b. CASE ~cancelled
  <2> USE <1>b, LeasesBounded DEF Convert, given, reader
  <2>1. StreamTyped'
    BY DEF StreamInv, StreamTyped
  <2>2. TypeOK' /\ Accounted'
    BY DEF StreamInv, TypeOK, Accounted
  <2>4. ReaderInv' /\ WriterInv'
    BY DEF StreamInv, ReaderInv, WriterInv
  <2>5. FlowInv'
    BY DEF StreamInv, FlowInv, Carried
  <2> QED BY <2>1, <2>2, <2>4, <2>5 DEF StreamInv
<1> QED BY <1>a, <1>b

\* A row is written only when the disk quota has room for it.
LEMMA PushSafe == ASSUME StreamInv, Push PROVE StreamInv'
<1>a. CASE Worker("cancelled") \/ Worker("resource_limit")
  BY <1>a, WorkerSafe DEF Push, Errors
<1>b. CASE reserve_memory(Scratch) /\ scratch' = Scratch /\ memory_used' = memory_used + Scratch
           /\ UNCHANGED <<given, reader, channel, writing, row, spools, output, used, cancelled>>
  <2> USE <1>b, LeasesBounded DEF given, reader
  <2>0. scratch' \in Nat /\ writing \in {"project", "full"} /\ scratch = 0
    BY DEF StreamInv, StreamTyped, Scratch, Push
  <2>1. StreamTyped'
    BY <2>0 DEF StreamInv, StreamTyped
  <2>2. Accounted'
    BY <2>0 DEF StreamInv, Accounted, StreamTyped
  <2>3. TypeOK'
    BY <2>0, StreamConstants DEF StreamInv, TypeOK, reserve_memory
  <2>4. ReaderInv' /\ WriterInv'
    BY <2>0 DEF StreamInv, ReaderInv, WriterInv
  <2>5. FlowInv'
    BY DEF StreamInv, FlowInv, Carried
  <2> QED BY <2>1, <2>2, <2>3, <2>4, <2>5 DEF StreamInv
<1> QED BY <1>a, <1>b DEF Push

\* A written row gives its memory back.
LEMMA PushedSafe == ASSUME StreamInv, Pushed PROVE StreamInv'
<1>a. CASE Worker("cancelled") \/ Worker("resource_limit")
  BY <1>a, WorkerSafe DEF Pushed, Errors
<1>b. CASE ~Worker("cancelled") /\ ~Worker("resource_limit")
  <2>0. /\ writing \in {"project", "full"} /\ used + row + Overhead <= Disk
        /\ used' = used + row + Overhead /\ scratch' = 0
        /\ IF writing = "project"
           THEN /\ spools' = [spools EXCEPT !.projected = Append(@, row)]
                /\ writing' = "full" /\ row' = row /\ memory_used' = memory_used - scratch
           ELSE /\ spools' = [spools EXCEPT !.full = Append(@, row)]
                /\ writing' = "recv" /\ row' = 0 /\ memory_used' = memory_used - scratch - row
        /\ UNCHANGED <<given, reader, channel, output, cancelled>>
    <3>1. ~cancelled /\ ~(used + row + Overhead > Disk)
      BY <1>b DEF Pushed
    <3>2. used + row + Overhead <= Disk
      BY <3>1, StreamConstants, LeasesBounded DEF StreamInv, StreamTyped
    <3> QED BY <3>1, <3>2 DEF Pushed
  <2>1. PICK f \in Seq(Nat), p \in Seq(Nat), r \in Nat : f = spools.full /\ p = spools.projected /\ r = row
    BY LeasesBounded DEF StreamInv, StreamTyped
  <2>2. bytes(Append(f, r)) = bytes(f) + r + Overhead /\ bytes(Append(p, r)) = bytes(p) + r + Overhead
        /\ bytes(f) \in Nat /\ bytes(p) \in Nat
    BY BytesOf
  <2>3. /\ Append(f, r) \in Seq(Nat) /\ Len(Append(f, r)) = Len(f) + 1 /\ Len(f) \in Nat
        /\ Append(p, r) \in Seq(Nat) /\ Len(Append(p, r)) = Len(p) + 1 /\ Len(p) \in Nat
        /\ \A i \in 1..Len(f) : Append(f, r)[i] = f[i]
        /\ \A i \in 1..Len(p) : Append(p, r)[i] = p[i]
        /\ Append(f, r)[Len(f) + 1] = r /\ Append(p, r)[Len(p) + 1] = r
    OBVIOUS
  <2>a. PICK b \in Nat, l \in Nat, c \in Nat, ro \in Nat, t \in Nat, m \in Nat,
             u \in Nat, fb \in Nat, pb \in Nat :
           /\ base = b /\ lease = l /\ Sum(channel) = c /\ row = ro /\ scratch = t
           /\ memory_used = m /\ m = b + l + c + ro + t /\ m <= Memory
           /\ bytes(spools.full) = fb /\ bytes(spools.projected) = pb
           /\ used = u /\ u = fb + pb /\ u <= Disk
    BY Amounts
  <2>4. /\ base = b /\ lease = l /\ Sum(channel) = c /\ scratch = t
        /\ memory_used = m /\ m = b + l + c + r + t /\ m <= Memory
        /\ bytes(f) = fb /\ bytes(p) = pb
        /\ used = u /\ u = fb + pb /\ u <= Disk
    BY <2>1, <2>a, Zenon
  <2>5. base' = b /\ lease' = l /\ Sum(channel)' = c /\ scratch' = 0 /\ used' = u + r + Overhead
        /\ u + r + Overhead <= Disk
        /\ source' = source /\ projected' = projected /\ channel' = channel /\ output' = output /\ count' = count
        /\ reading' = reading /\ read_result' = read_result
    BY <2>0, <2>1, <2>4 DEF reader, given
  <2>6. ReaderInv'
    BY <2>5, <2>4 DEF StreamInv, ReaderInv
  <2>7. CASE writing = "project"
    <3>1. spools' = [spools EXCEPT !.projected = Append(p, r)] /\ writing' = "full" /\ row' = r
          /\ memory_used' = m - t
      BY <2>0, <2>1, <2>4, <2>7
    <3>2. spools'.full = f /\ spools'.projected = Append(p, r) /\ spools' \in SpoolPair
      BY <2>1, <2>3, <3>1 DEF StreamInv, StreamTyped, SpoolPair
    <3>3. StreamTyped'
      BY <2>5, <3>1, <3>2 DEF StreamInv, StreamTyped
    <3>4. m - t = b + l + c + r + 0 /\ u + r + Overhead = fb + (pb + r + Overhead) /\ m - t \in 0..Memory
          /\ u + r + Overhead \in 0..Disk
      BY <2>4, <2>5, StreamConstants
    <3>5. Accounted'
      BY <2>2, <2>4, <2>5, <3>1, <3>2, <3>4, Zenon DEF Accounted
    <3>6. TypeOK'
      BY <2>5, <3>1, <3>4 DEF StreamInv, TypeOK
    <3>7. WriterInv'
      BY <2>5, <2>7, <3>1 DEF StreamInv, WriterInv
    <3>8. FlowInv'
      <4> SUFFICES ASSUME output \in {"none", "ok"} PROVE FlowInv'
        BY <2>5 DEF FlowInv
      <4>1. Carried = 1 /\ Carried' = 1
        BY <2>7, <3>1 DEF Carried
      <4>2. projected => Len(p) = Len(f) /\ \A i \in 1..Len(p) : p[i] = source[i]
        <5>1. projected => Len(p) = Len(f) + 0 /\ \A i \in 1..Len(p) : p[i] = source[i]
          BY <2>1, <2>7 DEF StreamInv, FlowInv
        <5> QED BY <2>3, <5>1
      <4>3. r = source[Len(f) + 1] /\ count = Len(f) + 1 + Len(channel)
            /\ (\A i \in 1..Len(f) : f[i] = source[i]) /\ (channel # <<>> => channel[1] = source[count])
        BY <2>1, <4>1 DEF StreamInv, FlowInv
      <4>4. projected => Len(Append(p, r)) = Len(f) + 1 /\ \A i \in 1..Len(Append(p, r)) : Append(p, r)[i] = source[i]
        BY <2>3, <4>2, <4>3
      <4> QED BY <2>5, <3>1, <3>2, <4>1, <4>3, <4>4 DEF FlowInv
    <3> QED BY <2>6, <3>3, <3>5, <3>6, <3>7, <3>8 DEF StreamInv
  <2>8. CASE writing = "full"
    <3>1. spools' = [spools EXCEPT !.full = Append(f, r)] /\ writing' = "recv" /\ row' = 0
          /\ memory_used' = m - t - r
      BY <2>0, <2>1, <2>4, <2>8
    <3>2. spools'.full = Append(f, r) /\ spools'.projected = p /\ spools' \in SpoolPair
      BY <2>1, <2>3, <3>1 DEF StreamInv, StreamTyped, SpoolPair
    <3>3. StreamTyped'
      BY <2>5, <3>1, <3>2 DEF StreamInv, StreamTyped
    <3>4. m - t - r = b + l + c + 0 + 0 /\ u + r + Overhead = (fb + r + Overhead) + pb /\ m - t - r \in 0..Memory
          /\ u + r + Overhead \in 0..Disk
      BY <2>4, <2>5, StreamConstants
    <3>5. Accounted'
      BY <2>2, <2>4, <2>5, <3>1, <3>2, <3>4, Zenon DEF Accounted
    <3>6. TypeOK'
      BY <2>5, <3>1, <3>4 DEF StreamInv, TypeOK
    <3>7. WriterInv'
      BY <2>5, <2>8, <3>1 DEF StreamInv, WriterInv
    <3>8. FlowInv'
      <4> SUFFICES ASSUME output \in {"none", "ok"} PROVE FlowInv'
        BY <2>5 DEF FlowInv
      <4>1. Carried = 1 /\ Carried' = 0
        BY <2>8, <3>1 DEF Carried
      <4>2. projected => Len(p) = Len(f) + 1 /\ \A i \in 1..Len(p) : p[i] = source[i]
        BY <2>1, <2>8 DEF StreamInv, FlowInv
      <4>3. r = source[Len(f) + 1] /\ count = Len(f) + 1 + Len(channel)
            /\ (\A i \in 1..Len(f) : f[i] = source[i]) /\ (channel # <<>> => channel[1] = source[count])
        BY <2>1, <4>1 DEF StreamInv, FlowInv
      <4>4. Len(channel) \in Nat
        BY DEF StreamInv, StreamTyped
      <4>5. count = Len(Append(f, r)) + 0 + Len(channel)
            /\ \A i \in 1..Len(Append(f, r)) : Append(f, r)[i] = source[i]
        BY <2>3, <4>3, <4>4
      <4>6. projected => Len(p) = Len(Append(f, r)) + 0 /\ \A i \in 1..Len(p) : p[i] = source[i]
        BY <2>3, <4>2
      <4>7. writing' # "full" /\ 1 # 0
        BY <3>1
      <4> QED BY <2>5, <3>2, <4>1, <4>3, <4>5, <4>6, <4>7 DEF FlowInv
    <3> QED BY <2>6, <3>3, <3>5, <3>6, <3>7, <3>8 DEF StreamInv
  <2> QED BY <2>0, <2>7, <2>8
<1> QED BY <1>a, <1>b

\* A stream is finished when both the reader and the worker have ended.
LEMMA FinishSafe == ASSUME StreamInv, Finish PROVE StreamInv'
<1>a. CASE cancelled
  BY <1>a, WorkerSafe DEF Finish, Errors
<1>b. CASE ~cancelled
  <2> USE <1>b, LeasesBounded DEF Finish, given, reader
  <2>1. StreamTyped'
    BY DEF StreamInv, StreamTyped
  <2>2. TypeOK' /\ Accounted'
    BY DEF StreamInv, TypeOK, Accounted
  <2>4. ReaderInv' /\ WriterInv'
    BY DEF StreamInv, ReaderInv, WriterInv
  <2>5. FlowInv'
    BY DEF StreamInv, FlowInv, Carried, WriterInv
  <2> QED BY <2>1, <2>2, <2>4, <2>5 DEF StreamInv
<1> QED BY <1>a, <1>b

\* A step that moves neither row nor lease keeps the invariant.
LEMMA Unmoved ==
  ASSUME StreamInv, UNCHANGED <<given, reader, channel, worker, memory_used, used>>
  PROVE  StreamInv'
<1> USE DEF given, reader, worker
<1>1. StreamTyped' /\ TypeOK' /\ Accounted'
  BY DEF StreamInv, StreamTyped, TypeOK, Accounted
<1>2. ReaderInv' /\ WriterInv'
  BY DEF StreamInv, ReaderInv, WriterInv
<1>3. FlowInv'
  BY DEF StreamInv, FlowInv, Carried
<1> QED BY <1>1, <1>2, <1>3 DEF StreamInv

\* Every row of the source is at every moment in exactly one place, and both quotas
\* are what is held, whatever fails and whenever the task is cancelled.
THEOREM StreamInvariance == Spec => []StreamInv
<1>1. StreamInv /\ [Next]_vars => StreamInv'
  <2> SUFFICES ASSUME StreamInv, [Next]_vars PROVE StreamInv'
    OBVIOUS
  <2>1. CASE Reader
    <3>1. CASE reserve_decode
      <4>1. Decode(source[count + 1]) \in Nat
        <5>1. source[count + 1] \in Nat
          BY <3>1, LeasesBounded DEF reserve_decode, Lease, StreamInv, StreamTyped, ReaderInv
        <5>2. PICK d \in Nat : d = source[count + 1]
          BY <5>1
        <5>3. 3 * (2 * d) \in Nat
          OBVIOUS
        <5> QED BY <5>2, <5>3 DEF Decode
      <4> QED BY <3>1, <4>1, LeaseSafe DEF reserve_decode
    <3>2. CASE reserve_send
      <4>1. source[count + 1] \in Nat
        BY <3>2, LeasesBounded DEF reserve_send, Lease, StreamInv, StreamTyped, ReaderInv
      <4> QED BY <3>2, <4>1, LeaseSafe DEF reserve_send
    <3>3. CASE Closed
      BY <3>3, EndReadingSafe DEF Closed, Errors
    <3>4. CASE ReadCancelled
      BY <3>4, EndReadingSafe DEF ReadCancelled, Errors
    <3> QED BY <2>1, <3>1, <3>2, <3>3, <3>4, OpenSafe, NextRowSafe, DecodedSafe, PutSafe DEF Reader
  <2>2. CASE Writer
    BY <2>2, ReceiveSafe, ConvertSafe, PushSafe, PushedSafe, FinishSafe DEF Writer
  <2>3. CASE DatabaseFails
    BY <2>3, EndReadingSafe DEF DatabaseFails, Errors
  <2>4. CASE Conversion \/ FileFails
    BY <2>4, WorkerSafe DEF Conversion, FileFails, Errors
  <2>5. CASE Cancel \/ UNCHANGED vars
    BY <2>5, Unmoved DEF Cancel, vars
  <2> QED BY <2>1, <2>2, <2>3, <2>4, <2>5 DEF Next
<1> QED BY <1>1, StreamStart, PTL DEF Spec

\* A stream that ends without an error has spooled every row of the source once and in
\* order, and one that ends with an error leaves no memory leased (stream_snapshot and
\* its adapters), for every source, row size and quota.
THEOREM SnapshotIsExact == Spec => []SnapshotExact
<1>1. StreamInv => SnapshotExact
  <2> SUFFICES ASSUME StreamInv PROVE SnapshotExact
    OBVIOUS
  <2>1. CompleteSnapshot
    <3> SUFFICES ASSUME Ended, Result = "ok"
                 PROVE  spools.full = source /\ (projected => spools.projected = source)
      BY DEF CompleteSnapshot
    <3>1. output = "ok" /\ read_result = "ok" /\ writing = "done" /\ channel = <<>>
      BY DEF Ended, Result, StreamInv, WriterInv
    <3>2. count = Len(source) /\ Len(spools.full) = Len(source)
          /\ \A i \in 1..Len(spools.full) : spools.full[i] = source[i]
      BY <3>1, LeasesBounded DEF StreamInv, ReaderInv, FlowInv, Carried, StreamTyped
    <3>a. PICK f \in Seq(Nat), p \in Seq(Nat), g \in Seq(Nat) :
             f = spools.full /\ p = spools.projected /\ g = source
      BY LeasesBounded DEF StreamInv, StreamTyped
    <3>b. Len(f) = Len(g) /\ \A i \in 1..Len(f) : f[i] = g[i]
      BY <3>2, <3>a
    <3>3. f = g
      BY <3>b, SeqEqual
    <3>4. projected => p = g
      <4>1. projected => Len(p) = Len(g) /\ \A i \in 1..Len(p) : p[i] = g[i]
        BY <3>1, <3>2, <3>a DEF StreamInv, FlowInv
      <4> QED BY <4>1, SeqEqual
    <3> QED BY <3>a, <3>3, <3>4
  <2>2. RootCause
    BY DEF RootCause, Result
  <2> QED BY <2>1, <2>2 DEF StreamInv, SnapshotExact
<1> QED BY <1>1, StreamInvariance, PTL

-------------------------------------------------------------------------------
(* ExternalSort: the rows of a spool in the order of their keys. *)

\* What a weight of rows adds up to over a sequence, and over the levels.
Vals(w, s) == [i \in DOMAIN s |-> w[s[i]]]
W(w, s) == Sum(Vals(w, s))
\* A spool of rows of K, if it is there.
SpoolsOf(K) == {p \in [is : BOOLEAN, rows : Seq(K)] : ~p.is => p.rows = <<>>}
\* What the runs on all levels weigh.
LVals(w, ls) == [i \in DOMAIN ls |-> W(w, ls[i].rows)]
LW(w, ls) == Sum(LVals(w, ls))
\* A weight gives every row of K a number.
Weights(K) == [K -> Nat]

\* The weights of the rows of a sequence add up to a number.
LEMMA Weighed ==
  ASSUME NEW K, NEW w \in Weights(K), NEW s \in Seq(K)
  PROVE  /\ Vals(w, s) \in Seq(Nat)
         /\ Vals(w, s) \in Seq(Int)
         /\ Len(Vals(w, s)) = Len(s)
         /\ DOMAIN s = 1..Len(s) /\ Len(s) \in Nat
         /\ W(w, s) \in Nat
<1>1. DOMAIN s = 1..Len(s) /\ Len(s) \in Nat
  BY LenProperties
<1>2. \A i \in 1..Len(s) : w[s[i]] \in Nat
  BY ElementOfSeq DEF Weights
<1>3. PICK f : f = Vals(w, s)
  OBVIOUS
<1>4. f \in [1..Len(s) -> Nat]
  BY <1>1, <1>2, <1>3 DEF Vals
<1>5. f \in Seq(Nat) /\ f \in Seq(Int) /\ Len(f) = Len(s)
  BY <1>1, <1>4
<1>6. Sum(f) \in Nat
  BY <1>5, SumNat
<1> QED BY <1>1, <1>3, <1>5, <1>6 DEF W

\* No rows weigh nothing.
LEMMA WEmpty == \A w : W(w, <<>>) = 0
<1> SUFFICES ASSUME NEW w PROVE W(w, <<>>) = 0
  OBVIOUS
<1>1. Vals(w, <<>>) = <<>>
  BY DEF Vals
<1> QED BY <1>1, SumEmpty DEF W

\* A row more adds its weight.
LEMMA WAppend ==
  ASSUME NEW K, NEW w \in Weights(K), NEW s \in Seq(K), NEW x \in K
  PROVE  W(w, Append(s, x)) = W(w, s) + w[x]
<1>1. PICK t \in Seq(K) : t = Append(s, x)
  BY AppendProperties
<1>2. Len(t) = Len(s) + 1 /\ t[Len(s) + 1] = x /\ (\A i \in 1..Len(s) : t[i] = s[i]) /\ Len(s) \in Nat
  BY <1>1, AppendProperties
<1>3. PICK f \in Seq(Int) : f = Vals(w, s)
  BY Weighed
<1>4. PICK g \in Seq(Int) : g = Vals(w, t)
  BY Weighed
<1>5. Len(f) = Len(s) /\ Len(g) = Len(t) /\ DOMAIN s = 1..Len(s) /\ DOMAIN t = 1..Len(t)
  BY <1>3, <1>4, Weighed
<1>6. w[x] \in Int
  BY DEF Weights
<1>7. PICK h \in Seq(Int) : h = Append(f, w[x])
  BY <1>6, AppendProperties
<1>8. Len(h) = Len(f) + 1 /\ h[Len(f) + 1] = w[x] /\ \A i \in 1..Len(f) : h[i] = f[i]
  BY <1>6, <1>7, AppendProperties
<1>9. \A i \in 1..Len(g) : g[i] = h[i]
  <2> SUFFICES ASSUME NEW i \in 1..Len(g) PROVE g[i] = h[i]
    OBVIOUS
  <2>1. g[i] = w[t[i]]
    BY <1>4, <1>5 DEF Vals
  <2>2. CASE i = Len(s) + 1
    BY <1>2, <1>5, <1>8, <2>1, <2>2
  <2>3. CASE i # Len(s) + 1
    <3>1. i \in 1..Len(s)
      BY <1>2, <1>5, <2>3
    <3> QED BY <1>2, <1>3, <1>5, <1>8, <2>1, <3>1 DEF Vals
  <2> QED BY <2>2, <2>3
<1>10. g = h
  BY <1>2, <1>5, <1>8, <1>9, SeqEqual
<1>11. Sum(Append(f, w[x])) = Sum(f) + w[x]
  BY <1>6, SumAppend
<1> QED BY <1>1, <1>3, <1>4, <1>7, <1>10, <1>11 DEF W

\* A row taken off the front takes its weight away.
LEMMA WTail ==
  ASSUME NEW K, NEW w \in Weights(K), NEW s \in Seq(K), s # <<>>
  PROVE  Tail(s) \in Seq(K) /\ s[1] \in K /\ W(w, s) = w[s[1]] + W(w, Tail(s))
<1>1. PICK t \in Seq(K) : t = Tail(s)
  BY HeadTailProperties
<1>2. Len(s) \in Nat \ {0} /\ Len(t) = Len(s) - 1 /\ (\A i \in 1..Len(t) : t[i] = s[i + 1]) /\ Len(t) \in Nat
  BY <1>1, EmptySeq, HeadTailProperties
<1>3. s[1] \in K
  BY <1>2, ElementOfSeq
<1>4. PICK f \in Seq(Int) : f = Vals(w, s)
  BY Weighed
<1>5. PICK g \in Seq(Int) : g = Vals(w, t)
  BY Weighed
<1>6. Len(f) = Len(s) /\ Len(g) = Len(t) /\ DOMAIN s = 1..Len(s) /\ DOMAIN t = 1..Len(t)
  BY <1>4, <1>5, Weighed
<1>7. f # <<>> /\ f[1] = w[s[1]]
  BY <1>2, <1>4, <1>6 DEF Vals
<1>8. PICK h \in Seq(Int) : h = Tail(f)
  BY <1>7, HeadTailProperties
<1>9. Len(h) = Len(f) - 1 /\ \A i \in 1..Len(h) : h[i] = f[i + 1]
  BY <1>7, <1>8, HeadTailProperties
<1>10. ASSUME NEW i \in 1..Len(g) PROVE g[i] = h[i]
  <2>1. i \in 1..Len(t) /\ i + 1 \in 1..Len(s) /\ i \in 1..Len(h)
    BY <1>2, <1>6, <1>9
  <2> QED BY <1>2, <1>4, <1>5, <1>6, <1>9, <2>1 DEF Vals
<1>11. g = h
  BY <1>2, <1>6, <1>9, <1>10, SeqEqual
<1>12. Sum(f) = f[1] + Sum(Tail(f))
  BY <1>7, SumTail
<1> QED BY <1>1, <1>3, <1>4, <1>5, <1>7, <1>8, <1>11, <1>12 DEF W

\* Sorting a chunk of rows keeps its rows, and so its weight, and puts them in order.
LEMMA WRearranged ==
  ASSUME NEW K, NEW w \in Weights(K), NEW s \in Seq(K), NEW t \in sort_unstable_by(s)
  PROVE  t \in Seq(K) /\ Len(t) = Len(s) /\ W(w, t) = W(w, s) /\ Ordered(t)
<1>1. DOMAIN s = 1..Len(s) /\ Len(s) \in Nat
  BY LenProperties
<1>2. PICK p \in Bijection(DOMAIN s, DOMAIN s) : t = [i \in DOMAIN s |-> s[p[i]]] /\ Ordered(t)
  BY DEF sort_unstable_by
<1>3. p \in [1..Len(s) -> 1..Len(s)] /\ p \in Rearrangements(Len(s))
  <2>1. p \in [1..Len(s) -> 1..Len(s)]
    BY <1>1 DEF Bijection, Injection
  <2>2. \A a, b \in 1..Len(s) : p[a] = p[b] => a = b
    BY <1>1 DEF Bijection, Injection, IsInjective
  <2>3. \A c \in 1..Len(s) : \E a \in 1..Len(s) : p[a] = c
    BY <1>1 DEF Bijection, Surjection
  <2> QED BY <2>1, <2>2, <2>3 DEF Rearrangements
<1>4. \A i \in 1..Len(s) : s[p[i]] \in K
  BY <1>3, ElementOfSeq
<1>5. t \in [1..Len(s) -> K]
  BY <1>1, <1>2, <1>4
<1>6. t \in Seq(K) /\ Len(t) = Len(s)
  BY <1>1, <1>5
<1>7. PICK f \in Seq(Int) : f = Vals(w, s)
  BY Weighed
<1>8. Len(f) = Len(s)
  BY <1>7, Weighed
<1>9. Sum([i \in 1..Len(f) |-> f[p[i]]]) = Sum(f)
  BY <1>3, <1>8, SumPermuted
<1>10. [i \in 1..Len(f) |-> f[p[i]]] = Vals(w, t)
  <2>1. DOMAIN t = 1..Len(f)
    BY <1>5, <1>8
  <2>2. \A i \in 1..Len(f) : f[p[i]] = w[t[i]]
    BY <1>1, <1>2, <1>3, <1>7, <1>8 DEF Vals
  <2> QED BY <2>1, <2>2 DEF Vals
<1> QED BY <1>2, <1>6, <1>7, <1>9, <1>10 DEF W

\* The weights of the levels.
LEMMA LWeighed ==
  ASSUME NEW K, NEW w \in Weights(K), NEW ls \in Seq(SpoolsOf(K))
  PROVE  /\ LVals(w, ls) \in Seq(Int)
         /\ LVals(w, ls) \in Seq(Nat)
         /\ Len(LVals(w, ls)) = Len(ls)
         /\ DOMAIN ls = 1..Len(ls) /\ Len(ls) \in Nat /\ LW(w, ls) \in Nat
         /\ \A i \in 1..Len(ls) : ls[i] \in SpoolsOf(K) /\ W(w, ls[i].rows) \in Nat
<1>1. DOMAIN ls = 1..Len(ls) /\ Len(ls) \in Nat
  BY LenProperties
<1>2. \A i \in 1..Len(ls) : ls[i] \in SpoolsOf(K)
  BY ElementOfSeq
<1>a. \A i \in 1..Len(ls) : ls[i].rows \in Seq(K)
  BY <1>2 DEF SpoolsOf
<1>3. \A i \in 1..Len(ls) : W(w, ls[i].rows) \in Nat
  BY <1>a, Weighed
<1>4. PICK f : f = LVals(w, ls)
  OBVIOUS
<1>5. f \in [1..Len(ls) -> Nat]
  BY <1>1, <1>3, <1>4 DEF LVals
<1>6. f \in Seq(Nat) /\ f \in Seq(Int) /\ Len(f) = Len(ls)
  BY <1>1, <1>5
<1>7. Sum(f) \in Nat
  BY <1>6, SumNat
<1> QED BY <1>1, <1>2, <1>3, <1>4, <1>6, <1>7 DEF LW

\* No levels weigh nothing.
LEMMA LWEmpty == \A w : LW(w, <<>>) = 0
<1> SUFFICES ASSUME NEW w PROVE LW(w, <<>>) = 0
  OBVIOUS
<1>1. LVals(w, <<>>) = <<>>
  BY DEF LVals
<1> QED BY <1>1, SumEmpty DEF LW

\* A new level adds the weight of its run.
LEMMA LWAppend ==
  ASSUME NEW K, NEW w \in Weights(K), NEW ls \in Seq(SpoolsOf(K)), NEW p \in SpoolsOf(K)
  PROVE  LW(w, Append(ls, p)) = LW(w, ls) + W(w, p.rows)
<1>1. PICK t \in Seq(SpoolsOf(K)) : t = Append(ls, p)
  BY AppendProperties
<1>2. Len(t) = Len(ls) + 1 /\ t[Len(ls) + 1] = p /\ (\A i \in 1..Len(ls) : t[i] = ls[i]) /\ Len(ls) \in Nat
  BY <1>1, AppendProperties
<1>3. PICK f \in Seq(Int) : f = LVals(w, ls)
  BY LWeighed
<1>4. PICK g \in Seq(Int) : g = LVals(w, t)
  BY LWeighed
<1>5. Len(f) = Len(ls) /\ Len(g) = Len(t) /\ DOMAIN ls = 1..Len(ls) /\ DOMAIN t = 1..Len(t)
  BY <1>3, <1>4, LWeighed
<1>6. PICK x \in Int : x = W(w, p.rows)
  <2>1. PICK r \in Seq(K) : r = p.rows
    BY DEF SpoolsOf
  <2>2. W(w, r) \in Int
    BY Weighed
  <2> QED BY <2>1, <2>2
<1>7. PICK h \in Seq(Int) : h = Append(f, x)
  BY <1>6, AppendProperties
<1>8. Len(h) = Len(f) + 1 /\ h[Len(f) + 1] = x /\ \A i \in 1..Len(f) : h[i] = f[i]
  BY <1>6, <1>7, AppendProperties
<1>9. \A i \in 1..Len(g) : g[i] = h[i]
  <2> SUFFICES ASSUME NEW i \in 1..Len(g) PROVE g[i] = h[i]
    OBVIOUS
  <2>1. g[i] = W(w, t[i].rows)
    BY <1>4, <1>5 DEF LVals
  <2>2. CASE i = Len(ls) + 1
    BY <1>2, <1>5, <1>6, <1>8, <2>1, <2>2
  <2>3. CASE i # Len(ls) + 1
    <3>1. i \in 1..Len(ls)
      BY <1>2, <1>5, <2>3
    <3> QED BY <1>2, <1>3, <1>5, <1>8, <2>1, <3>1 DEF LVals
  <2> QED BY <2>2, <2>3
<1>10. g = h
  BY <1>2, <1>5, <1>8, <1>9, SeqEqual
<1>11. Sum(Append(f, x)) = Sum(f) + x
  BY <1>6, SumAppend
<1> QED BY <1>1, <1>3, <1>4, <1>6, <1>7, <1>10, <1>11 DEF LW

\* A run put on a level, or taken from it, changes the weight of the levels by its own.
LEMMA LWUpdate ==
  ASSUME NEW K, NEW w \in Weights(K), NEW ls \in Seq(SpoolsOf(K)), NEW p \in SpoolsOf(K), NEW k \in 1..Len(ls)
  PROVE  LW(w, [ls EXCEPT ![k] = p]) = LW(w, ls) - W(w, ls[k].rows) + W(w, p.rows)
<1>1. PICK t \in Seq(SpoolsOf(K)) : t = [ls EXCEPT ![k] = p]
  BY ExceptSeq
<1>2. Len(t) = Len(ls) /\ \A i \in 1..Len(ls) : t[i] = IF i = k THEN p ELSE ls[i]
  BY <1>1, ExceptSeq
<1>3. PICK f \in Seq(Int) : f = LVals(w, ls)
  BY LWeighed
<1>4. PICK g \in Seq(Int) : g = LVals(w, t)
  BY LWeighed
<1>5. Len(f) = Len(ls) /\ Len(g) = Len(t) /\ DOMAIN ls = 1..Len(ls) /\ DOMAIN t = 1..Len(t)
  BY <1>3, <1>4, LWeighed
<1>6. PICK x \in Int : x = W(w, p.rows)
  <2>1. PICK r \in Seq(K) : r = p.rows
    BY DEF SpoolsOf
  <2>2. W(w, r) \in Int
    BY Weighed
  <2> QED BY <2>1, <2>2
<1>7. PICK h \in Seq(Int) : h = [f EXCEPT ![k] = x]
  BY <1>5, <1>6, ExceptSeq
<1>8. Len(h) = Len(f) /\ \A i \in 1..Len(f) : h[i] = IF i = k THEN x ELSE f[i]
  BY <1>5, <1>7, ExceptSeq
<1>9. ASSUME NEW i \in 1..Len(g) PROVE g[i] = h[i]
  BY <1>2, <1>3, <1>4, <1>5, <1>6, <1>8 DEF LVals
<1>10. g = h
  BY <1>2, <1>5, <1>8, <1>9, SeqEqual
<1>11. Sum([f EXCEPT ![k] = x]) = Sum(f) - f[k] + x
  BY <1>5, <1>6, SumUpdate
<1>12. f[k] = W(w, ls[k].rows)
  BY <1>3, <1>5 DEF LVals
<1> QED BY <1>1, <1>3, <1>4, <1>6, <1>7, <1>10, <1>11, <1>12 DEF LW

\* Levels that are all free weigh nothing.
LEMMA LWNothing ==
  ASSUME NEW K, NEW w \in Weights(K), NEW ls \in Seq(SpoolsOf(K)), \A i \in 1..Len(ls) : ~ls[i].is
  PROVE  LW(w, ls) = 0
<1>1. PICK f \in Seq(Int) : f = LVals(w, ls)
  BY LWeighed
<1>2. Len(f) = Len(ls) /\ DOMAIN ls = 1..Len(ls)
  BY <1>1, LWeighed
<1>3. ASSUME NEW i \in 1..Len(f) PROVE f[i] = 0
  <2>1. ls[i] \in SpoolsOf(K) /\ ~ls[i].is
    BY <1>2, LWeighed
  <2>2. ls[i].rows = <<>>
    BY <2>1 DEF SpoolsOf
  <2> QED BY <1>1, <1>2, <2>2, WEmpty DEF LVals
<1> QED BY <1>1, <1>3, SumZero DEF LW

\* The sizes are weights.
SizeOf(K) == [r \in K |-> r.size]
FileOf(K) == [r \in K |-> r.size + EntryBytes]
One(K, x) == [r \in K |-> IF r = x THEN 1 ELSE 0]

\* Memory, disk and the number of times a row occurs are weights: what holds of every
\* weight holds of all three.
LEMMA SizesAreWeights ==
  ASSUME NEW K, K \subseteq SortRows
  PROVE  /\ SizeOf(K) \in Weights(K) /\ FileOf(K) \in Weights(K)
         /\ \A x : One(K, x) \in Weights(K)
         /\ \A s \in Seq(K) : memory_size(s) = W(SizeOf(K), s) /\ file_bytes(s) = W(FileOf(K), s)
<1>1. \A r \in K : r.size \in Nat /\ r.size + EntryBytes \in Nat
  BY SortConstants DEF SortRows
<1>2. SizeOf(K) \in Weights(K) /\ FileOf(K) \in Weights(K) /\ \A x : One(K, x) \in Weights(K)
  BY <1>1 DEF SizeOf, FileOf, One, Weights
<1>3. ASSUME NEW s \in Seq(K)
      PROVE  memory_size(s) = W(SizeOf(K), s) /\ file_bytes(s) = W(FileOf(K), s)
  <2>1. \A i \in DOMAIN s : s[i] \in K
    BY LenProperties, ElementOfSeq
  <2>2. [i \in DOMAIN s |-> s[i].size] = Vals(SizeOf(K), s)
    BY <2>1 DEF Vals, SizeOf
  <2>3. [i \in DOMAIN s |-> s[i].size + EntryBytes] = Vals(FileOf(K), s)
    BY <2>1 DEF Vals, FileOf
  <2> QED BY <2>2, <2>3 DEF W, memory_size, file_bytes
<1> QED BY <1>2, <1>3

\* How often a row occurs is a weight, too.
LEMMA CountIsWeight ==
  ASSUME NEW K, K \subseteq SortRows, NEW x, NEW s \in Seq(K)
  PROVE  Count(s, x) = W(One(K, x), s)
<1>0. PICK w \in Weights(K) : w = One(K, x)
  BY SizesAreWeights
<1>1. PICK f \in Seq(Int) : f = Vals(w, s)
  BY Weighed
<1>2. Len(f) = Len(s) /\ DOMAIN s = 1..Len(s) /\ Len(s) \in Nat
  BY <1>1, Weighed
<1>3. \A i \in 1..Len(s) : f[i] = IF s[i] = x THEN 1 ELSE 0
  <2>1. \A i \in 1..Len(s) : s[i] \in K
    BY ElementOfSeq
  <2> QED BY <1>0, <1>1, <1>2, <2>1 DEF Vals, One
<1> DEFINE S(k) == {i \in 1..k : s[i] = x}
           T == {k \in 0..Len(s) : IsFiniteSet(S(k)) /\ Cardinality(S(k)) = SumTo(f, k)}
<1>4. 0 \in T
  <2>1. S(0) = {}
    OBVIOUS
  <2>2. 0 \in 0..Len(f)
    BY <1>2
  <2>3. SumTo(f, 0) = 0
    BY <2>2, SumToDef
  <2> QED BY <1>2, <2>1, <2>3, FS_EmptySet
<1>5. ASSUME NEW k \in 1..Len(s), k - 1 \in T PROVE k \in T
  <2>1. k \in 0..Len(f) /\ k # 0 /\ k \in 0..Len(s) /\ k \in Nat
    BY <1>2
  <2>2. SumTo(f, k) = SumTo(f, k - 1) + f[k]
    BY <2>1, SumToDef
  <2>3. IsFiniteSet(S(k - 1)) /\ Cardinality(S(k - 1)) = SumTo(f, k - 1) /\ Cardinality(S(k - 1)) \in Nat
    <3>1. IsFiniteSet(S(k - 1)) /\ Cardinality(S(k - 1)) = SumTo(f, k - 1)
      BY <1>5
    <3> HIDE DEF S
    <3> QED BY <3>1, FS_CardinalityType
  <2>4. CASE s[k] = x
    <3>1. S(k) = S(k - 1) \cup {k} /\ k \notin S(k - 1)
      BY <2>1, <2>4
    <3>2. IsFiniteSet(S(k)) /\ Cardinality(S(k)) = Cardinality(S(k - 1)) + 1
      <4>1. PICK A : A = S(k - 1)
        OBVIOUS
      <4>2. IsFiniteSet(A) /\ k \notin A /\ S(k) = A \cup {k}
        BY <2>3, <3>1, <4>1
      <4>3. IsFiniteSet(A \cup {k}) /\ Cardinality(A \cup {k}) = Cardinality(A) + 1
        <5> HIDE DEF S
        <5> QED BY <4>2, FS_AddElement
      <4> HIDE DEF S
      <4> QED BY <4>1, <4>2, <4>3
    <3>3. f[k] = 1
      BY <1>3, <2>4
    <3> HIDE DEF S
    <3> QED BY <2>1, <2>2, <2>3, <3>2, <3>3
  <2>5. CASE s[k] # x
    <3>1. S(k) = S(k - 1)
      BY <2>1, <2>5
    <3>2. f[k] = 0
      BY <1>3, <2>5
    <3> HIDE DEF S
    <3> QED BY <2>1, <2>2, <2>3, <3>1, <3>2
  <2> QED BY <2>4, <2>5
<1>6. 0..Len(s) \subseteq T
  <2> HIDE DEF T
  <2> QED BY <1>2, <1>4, <1>5, InductionUpTo
<1>7. Cardinality(S(Len(s))) = SumTo(f, Len(s))
  <2>1. Len(s) \in T
    <3> HIDE DEF T
    <3> QED BY <1>2, <1>6
  <2> HIDE DEF S
  <2> QED BY <2>1
<1>8. Count(s, x) = Cardinality(S(Len(s)))
  BY <1>2 DEF Count
<1> HIDE DEF S, T
<1> QED BY <1>0, <1>1, <1>2, <1>7, <1>8 DEF W, Sum

\* What the input has delivered so far.
LEMMA Delivered ==
  ASSUME NEW K, NEW w \in Weights(K), NEW s \in Seq(K), NEW n \in 0..Len(s)
  PROVE  /\ SumTo(Vals(w, s), n) \in Int
         /\ n = 0 => SumTo(Vals(w, s), n) = 0
         /\ n = Len(s) => SumTo(Vals(w, s), n) = W(w, s)
         /\ n < Len(s) => s[n + 1] \in K /\ SumTo(Vals(w, s), n + 1) = SumTo(Vals(w, s), n) + w[s[n + 1]]
<1>1. PICK f \in Seq(Int) : f = Vals(w, s)
  BY Weighed
<1>2. Len(f) = Len(s) /\ DOMAIN s = 1..Len(s) /\ Len(s) \in Nat /\ n \in 0..Len(f)
  BY <1>1, Weighed
<1>3. SumTo(f, n) \in Int /\ (n = 0 => SumTo(f, n) = 0)
  BY <1>2, SumToDef
<1>4. n = Len(s) => SumTo(f, n) = W(w, s)
  BY <1>1, <1>2 DEF W, Sum
<1>5. ASSUME n < Len(s) PROVE s[n + 1] \in K /\ SumTo(f, n + 1) = SumTo(f, n) + w[s[n + 1]]
  <2>1. n + 1 \in 1..Len(s) /\ n + 1 \in 0..Len(f) /\ n + 1 # 0 /\ (n + 1) - 1 = n
    BY <1>2, <1>5
  <2>2. f[n + 1] = w[s[n + 1]]
    BY <1>1, <1>2, <2>1 DEF Vals
  <2>3. SumTo(f, n + 1) = SumTo(f, (n + 1) - 1) + f[n + 1]
    BY <2>1, SumToDef
  <2> QED BY <2>1, <2>2, <2>3, ElementOfSeq
<1> QED BY <1>1, <1>3, <1>4, <1>5

\* Order: a row that follows the last one, taken from the front of another
\* sequence.
Joint(s, t) == s # <<>> /\ t # <<>> => Less(s[Len(s)], t[1])

\* merge moves the smaller of two first rows to the output: it stays sorted, and so
\* does what is left.
LEMMA MoveHead ==
  ASSUME NEW K, NEW s \in Seq(K), NEW t \in Seq(K), t # <<>>, Ordered(s), Ordered(t), Joint(s, t)
  PROVE  /\ t[1] \in K /\ Append(s, t[1]) \in Seq(K) /\ Tail(t) \in Seq(K)
         /\ Ordered(Append(s, t[1])) /\ Ordered(Tail(t)) /\ Joint(Append(s, t[1]), Tail(t))
         /\ \A u : (u = <<>> \/ Less(t[1], u[1])) => Joint(Append(s, t[1]), u)
<1>1. PICK h \in Seq(K) : h = Tail(t)
  BY HeadTailProperties
<1>2. Len(t) \in Nat \ {0} /\ Len(h) = Len(t) - 1 /\ (\A i \in 1..Len(h) : h[i] = t[i + 1]) /\ Len(h) \in Nat
  BY <1>1, EmptySeq, HeadTailProperties
<1>3. PICK x \in K : x = t[1]
  BY <1>2, ElementOfSeq
<1>4. PICK a \in Seq(K) : a = Append(s, x)
  BY <1>3, AppendProperties
<1>5. Len(a) = Len(s) + 1 /\ a[Len(s) + 1] = x /\ (\A i \in 1..Len(s) : a[i] = s[i]) /\ Len(s) \in Nat
  BY <1>4, AppendProperties
<1>6. Ordered(a)
  <2> SUFFICES ASSUME NEW i \in 1..(Len(a) - 1) PROVE Less(a[i], a[i + 1])
    BY DEF Ordered
  <2>1. CASE i = Len(s)
    <3>1. s # <<>>
      BY <1>5, <2>1
    <3>2. Less(s[Len(s)], t[1])
      BY <3>1 DEF Joint
    <3> QED BY <1>3, <1>5, <2>1, <3>2
  <2>2. CASE i # Len(s)
    <3>1. i \in 1..(Len(s) - 1) /\ i \in 1..Len(s) /\ i + 1 \in 1..Len(s)
      BY <1>5, <2>2
    <3>2. Less(s[i], s[i + 1])
      BY <3>1 DEF Ordered
    <3> QED BY <1>5, <3>1, <3>2
  <2> QED BY <2>1, <2>2
<1>7. Ordered(h)
  <2> SUFFICES ASSUME NEW i \in 1..(Len(h) - 1) PROVE Less(h[i], h[i + 1])
    BY DEF Ordered
  <2>1. i + 1 \in 1..(Len(t) - 1) /\ i \in 1..Len(h) /\ i + 1 \in 1..Len(h)
    BY <1>2
  <2>2. Less(t[i + 1], t[(i + 1) + 1])
    BY <2>1 DEF Ordered
  <2> QED BY <1>2, <2>1, <2>2
<1>8. Joint(a, h)
  <2> SUFFICES ASSUME h # <<>> PROVE Less(a[Len(a)], h[1])
    BY DEF Joint
  <2>1. Len(h) \in Nat \ {0}
    BY EmptySeq
  <2>2. 1 \in 1..(Len(t) - 1) /\ h[1] = t[1 + 1]
    BY <1>2, <2>1
  <2>3. Less(t[1], t[1 + 1])
    BY <2>2 DEF Ordered
  <2> QED BY <1>3, <1>5, <2>2, <2>3
<1>9. \A u : (u = <<>> \/ Less(t[1], u[1])) => Joint(a, u)
  BY <1>3, <1>5 DEF Joint
<1> QED BY <1>1, <1>3, <1>4, <1>6, <1>7, <1>8, <1>9

\* Any two rows can be compared.
LEMMA LessTotal ==
  ASSUME NEW a \in SortRows, NEW b \in SortRows
  PROVE  Less(a, b) \/ Less(b, a)
  BY DEF SortRows, Less

\* No rows are in order.
LEMMA EmptyOrdered == Ordered(<<>>)
  BY DEF Ordered

\* The inductive invariant, for the set K of rows that the input may hold.
Typed(K) ==
    /\ K \subseteq SortRows /\ input \in Seq(K) /\ input \in Inputs /\ pos \in 0 .. Len(input)
    /\ pending \in Seq(K) /\ Len(pending) <= 1 /\ rows \in Seq(K)
    /\ writer \in SpoolsOf(K) /\ run \in SpoolsOf(K) /\ merged \in SpoolsOf(K)
    /\ left \in Seq(SpoolsOf(K)) /\ Len(left) = 2
    /\ levels \in Seq(SpoolsOf(K)) /\ level \in 0 .. Len(levels)
    /\ sorting \in {"read", "write", "merge", "flatten", "digest", "done", "failed"}
    /\ charged \in Int /\ charged <= SortDisk

\* No row is left in memory.
Empty == rows = <<>> /\ pending = <<>>
Idle == left[1].rows = <<>> /\ left[2].rows = <<>>
\* Two runs are being merged into the writer's.
Merging == sorting \in {"merge", "flatten"} /\ writer.is
\* Which spools are there in which phase.
Shape ==
    /\ sorting = "read" => ~writer.is /\ ~run.is /\ ~merged.is
    /\ sorting = "write" => writer.is /\ ~run.is /\ ~merged.is
    /\ sorting = "merge" => /\ run.is /\ rows = <<>> /\ ~merged.is
                            /\ writer.is => level < Len(levels) /\ levels[level + 1].is
    /\ sorting = "flatten" => /\ Empty /\ pos = Len(input)
                              /\ IF writer.is THEN merged.is ELSE ~run.is
    /\ sorting \in {"digest", "done"} => /\ ~writer.is /\ ~run.is /\ Empty /\ pos = Len(input)
                                        /\ \A i \in 1 .. Len(levels) : ~levels[i].is
    /\ sorting = "failed" => ~writer.is /\ ~run.is /\ ~merged.is /\ levels = <<>> /\ Empty
    /\ ~Merging => Idle

\* Every row read from the input weighs where it is now, and a merge has moved the rows
\* of its two runs to the writer's.
Written(w) == IF sorting = "write" THEN W(w, writer.rows) ELSE 0
Here(w) == W(w, pending) + W(w, rows) + LW(w, levels) + W(w, run.rows) + W(w, merged.rows) + Written(w)
Conserved(K) ==
    sorting # "failed" => \A w \in Weights(K) : SumTo(Vals(w, input), pos) = Here(w)

Partner == IF sorting = "merge" THEN levels[level + 1] ELSE merged
MergeConserved(K) ==
    Merging => \A w \in Weights(K) :
        W(w, writer.rows) + W(w, left[1].rows) + W(w, left[2].rows) = W(w, run.rows) + W(w, Partner.rows)

\* Every run is sorted, and the writer's last row is not behind what will follow it.
InOrder ==
    /\ Ordered(run.rows) /\ Ordered(merged.rows) /\ Ordered(writer.rows)
    /\ Ordered(left[1].rows) /\ Ordered(left[2].rows)
    /\ \A i \in 1 .. Len(levels) : Ordered(levels[i].rows)
    /\ sorting = "write" => Ordered(rows) /\ Joint(writer.rows, rows)
    /\ Merging => Joint(writer.rows, left[1].rows) /\ Joint(writer.rows, left[2].rows)

\* With small rows the chunk in memory stays below its quota.
Eighth == SortMemory \div 8
InMemory(K) ==
    SmallRows => (\A r \in K : r.size <= Eighth) /\ W(SizeOf(K), rows) <= 3 * Eighth

\* The quota is charged with the files of the input and of every spool.
OnDisk(K) ==
    charged = W(FileOf(K), input) + W(FileOf(K), run.rows) + W(FileOf(K), merged.rows)
              + W(FileOf(K), writer.rows) + LW(FileOf(K), levels)

\* The inductive invariant, for the rows K of the input.
SortInvOf(K) == /\ Typed(K) /\ Shape /\ Conserved(K) /\ MergeConserved(K) /\ InOrder
                /\ OnDisk(K) /\ InMemory(K)
SortInv == \E K \in SUBSET SortRows : SortInvOf(K)

-----------------------------------------------------------------------------
\* The facts about weights, for the terms of a state.
WeighedOf(K, w) ==
    /\ W(w, <<>>) = 0
    /\ \A s \in Seq(K) : W(w, s) \in Nat
    /\ \A s \in Seq(K), x \in K : W(w, Append(s, x)) = W(w, s) + w[x]
    /\ \A s \in Seq(K) : s # <<>> => W(w, s) = w[s[1]] + W(w, Tail(s))
    /\ \A s \in Seq(K) : \A t \in sort_unstable_by(s) : W(w, t) = W(w, s)
    /\ \A x \in K : w[x] \in Nat
LevelsOf(K, w) ==
    /\ LW(w, <<>>) = 0
    /\ \A ls \in Seq(SpoolsOf(K)) : LW(w, ls) \in Nat
    /\ \A ls \in Seq(SpoolsOf(K)), p \in SpoolsOf(K) : LW(w, Append(ls, p)) = LW(w, ls) + W(w, p.rows)
    /\ \A ls \in Seq(SpoolsOf(K)), p \in SpoolsOf(K) : \A k \in 1 .. Len(ls) :
          LW(w, [ls EXCEPT ![k] = p]) = LW(w, ls) - W(w, ls[k].rows) + W(w, p.rows)
    /\ \A ls \in Seq(SpoolsOf(K)) : (\A i \in 1 .. Len(ls) : ~ls[i].is) => LW(w, ls) = 0

\* The laws of weights, for every set of rows and every weight.
LEMMA WeighedFacts == \A K : \A w \in Weights(K) : WeighedOf(K, w) /\ LevelsOf(K, w)
<1> SUFFICES ASSUME NEW K, NEW w \in Weights(K) PROVE WeighedOf(K, w) /\ LevelsOf(K, w)
  OBVIOUS
<1>1. \A s \in Seq(K) : W(w, s) \in Nat
  BY Weighed
<1>2. \A s \in Seq(K), x \in K : W(w, Append(s, x)) = W(w, s) + w[x]
  BY WAppend
<1>3. \A s \in Seq(K) : s # <<>> => W(w, s) = w[s[1]] + W(w, Tail(s))
  BY WTail
<1>4. \A s \in Seq(K) : \A t \in sort_unstable_by(s) : W(w, t) = W(w, s)
  BY WRearranged
<1>5. \A x \in K : w[x] \in Nat
  BY DEF Weights
<1>6. WeighedOf(K, w)
  BY <1>1, <1>2, <1>3, <1>4, <1>5, WEmpty DEF WeighedOf
<1>7. \A ls \in Seq(SpoolsOf(K)) : LW(w, ls) \in Nat
  BY LWeighed
<1>8. \A ls \in Seq(SpoolsOf(K)), p \in SpoolsOf(K) : LW(w, Append(ls, p)) = LW(w, ls) + W(w, p.rows)
  BY LWAppend
<1>9. \A ls \in Seq(SpoolsOf(K)), p \in SpoolsOf(K) : \A k \in 1 .. Len(ls) :
          LW(w, [ls EXCEPT ![k] = p]) = LW(w, ls) - W(w, ls[k].rows) + W(w, p.rows)
  BY LWUpdate
<1>10. \A ls \in Seq(SpoolsOf(K)) : (\A i \in 1 .. Len(ls) : ~ls[i].is) => LW(w, ls) = 0
  BY LWNothing
<1>11. LevelsOf(K, w)
  BY <1>7, <1>8, <1>9, <1>10, LWEmpty DEF LevelsOf
<1> QED BY <1>6, <1>11

\* MoveHead for the variables of the sort.
LEMMA MovedHead ==
  \A K : \A s, t \in Seq(K) : (t # <<>> /\ Ordered(s) /\ Ordered(t) /\ Joint(s, t)) =>
     /\ t[1] \in K /\ Append(s, t[1]) \in Seq(K) /\ Tail(t) \in Seq(K)
     /\ Ordered(Append(s, t[1])) /\ Ordered(Tail(t)) /\ Joint(Append(s, t[1]), Tail(t))
     /\ \A u : (u = <<>> \/ Less(t[1], u[1])) => Joint(Append(s, t[1]), u)
  BY MoveHead

\* A spool is there, with its rows, or it is not and holds none.
LEMMA SpoolFacts ==
  ASSUME NEW K
  PROVE  /\ None \in SpoolsOf(K) /\ ~None.is /\ None.rows = <<>> /\ Ordered(None.rows)
         /\ \A s \in Seq(K) : Some(s) \in SpoolsOf(K) /\ Some(s).is /\ Some(s).rows = s
         /\ \A p \in SpoolsOf(K) : p.is \in BOOLEAN /\ p.rows \in Seq(K) /\ (~p.is => p.rows = <<>>)
  BY EmptyOrdered, EmptySeq DEF None, Some, SpoolsOf

\* A written row leaves the run for the file.
LEMMA WriteKeeps ==
  ASSUME NEW K, SortInvOf(K), WriteRow
  PROVE  SortInvOf(K)'
<1>1. Typed(K) /\ Shape /\ Conserved(K) /\ MergeConserved(K) /\ InOrder /\ OnDisk(K) /\ InMemory(K)
  BY DEF SortInvOf
<1>2. sorting = "write" /\ rows # <<>> /\ writer' = Some(Append(writer.rows, rows[1])) /\ rows' = Tail(rows)
      /\ charged' = charged + rows[1].size + EntryBytes /\ reserve(rows[1].size + EntryBytes)
      /\ UNCHANGED <<input, sorting, pos, pending, levels, run, level, left, merged, stopped, failures>>
  BY DEF WriteRow, push_inner
<1>3. PICK r \in Seq(K) : r = rows
  BY <1>1 DEF Typed
<1>4. PICK u \in Seq(K) : u = writer.rows
  BY <1>1, SpoolFacts DEF Typed
<1>5. PICK x : x = r[1]
  OBVIOUS
<1>6. /\ x \in K /\ Append(u, x) \in Seq(K) /\ Tail(r) \in Seq(K)
      /\ Ordered(Append(u, x)) /\ Ordered(Tail(r)) /\ Joint(Append(u, x), Tail(r))
  <2>1. Ordered(u) /\ Ordered(r) /\ Joint(u, r) /\ r # <<>>
    BY <1>1, <1>2, <1>3, <1>4 DEF InOrder
  <2> QED BY <1>5, <2>1, MoveHead
<1>7. PICK u2 \in Seq(K) : u2 = Append(u, x)
  BY <1>6
<1>8. PICK r2 \in Seq(K) : r2 = Tail(r)
  BY <1>6
<1>9. rows' = r2 /\ writer' = Some(u2) /\ writer'.rows = u2 /\ writer'.is /\ writer' \in SpoolsOf(K)
  BY <1>2, <1>3, <1>4, <1>5, <1>7, <1>8, SpoolFacts
<1>10. Typed(K)'
  <2>1. charged' \in Int /\ charged' <= SortDisk
    <3>1. rows[1].size \in Nat /\ charged \in Int
      BY <1>1, <1>3, <1>5, <1>6 DEF Typed, SortRows
    <3> QED BY <1>2, <3>1, SortConstants DEF reserve
  <2> QED BY <1>1, <1>2, <1>9, <2>1 DEF Typed
<1>11. Shape'
  BY <1>1, <1>2, <1>9 DEF Shape, Merging, Idle
<1>12. ASSUME NEW w \in Weights(K)
       PROVE  /\ W(w, r) = w[x] + W(w, r2) /\ W(w, u2) = W(w, u) + w[x]
              /\ W(w, r) \in Nat /\ W(w, r2) \in Nat /\ w[x] \in Nat /\ W(w, u) \in Nat /\ W(w, u2) \in Nat
              /\ W(w, pending) \in Nat /\ LW(w, levels) \in Nat /\ W(w, run.rows) \in Nat
              /\ W(w, merged.rows) \in Nat /\ W(w, input) \in Nat
  <2>1. WeighedOf(K, w) /\ LevelsOf(K, w)
    BY WeighedFacts
  <2>2. pending \in Seq(K) /\ levels \in Seq(SpoolsOf(K)) /\ run.rows \in Seq(K) /\ merged.rows \in Seq(K)
        /\ input \in Seq(K)
    BY <1>1, SpoolFacts DEF Typed
  <2>3. r # <<>>
    BY <1>2, <1>3
  <2> QED BY <2>1, <2>2, <2>3, <1>5, <1>6, <1>7, <1>8 DEF WeighedOf, LevelsOf
<1>13. Conserved(K)'
  <2> SUFFICES ASSUME NEW w \in Weights(K) PROVE (SumTo(Vals(w, input), pos) = Here(w))'
    BY DEF Conserved
  <2>1. SumTo(Vals(w, input), pos) = Here(w)
    BY <1>1, <1>2 DEF Conserved
  <2>2. PICK a, b, b2, c, d, e, f, f2, y \in Nat :
          /\ a = W(w, pending) /\ b = W(w, r) /\ b2 = W(w, r2) /\ c = LW(w, levels) /\ d = W(w, run.rows)
          /\ e = W(w, merged.rows) /\ f = W(w, u) /\ f2 = W(w, u2) /\ y = w[x]
    BY <1>12
  <2>3. b = y + b2 /\ f2 = f + y
    BY <1>12, <2>2
  <2>4. Here(w) = a + b + c + d + e + f
    BY <1>2, <1>3, <1>4, <2>2 DEF Here, Written
  <2>5. Here(w)' = a + b2 + c + d + e + f2
    BY <1>2, <1>9, <2>2 DEF Here, Written
  <2>6. a + b + c + d + e + f = a + b2 + c + d + e + f2
    BY <2>3
  <2> QED BY <1>2, <2>1, <2>4, <2>5, <2>6
<1>14. MergeConserved(K)'
  BY <1>2 DEF MergeConserved, Merging
<1>15. InOrder'
  BY <1>1, <1>2, <1>6, <1>7, <1>8, <1>9 DEF InOrder, Merging
<1>16. OnDisk(K)'
  <2>1. FileOf(K) \in Weights(K) /\ FileOf(K)[x] = x.size + EntryBytes /\ x.size \in Nat
    BY <1>1, <1>6, SizesAreWeights DEF FileOf, Typed, SortRows
  <2>2. PICK w \in Weights(K) : w = FileOf(K)
    BY <2>1
  <2>3. PICK a, c, d, e, f, f2, y \in Nat :
          /\ a = W(w, input) /\ c = LW(w, levels) /\ d = W(w, run.rows)
          /\ e = W(w, merged.rows) /\ f = W(w, u) /\ f2 = W(w, u2) /\ y = w[x]
    BY <1>12
  <2>4. f2 = f + y /\ charged = a + d + e + f + c
    BY <1>1, <1>4, <1>12, <2>2, <2>3 DEF OnDisk
  <2>5. charged' = charged + y
    <3>1. charged' = charged + x.size + EntryBytes /\ y = x.size + EntryBytes
      BY <1>2, <1>3, <1>5, <2>1, <2>2, <2>3
    <3>2. charged \in Int /\ x.size \in Nat /\ EntryBytes \in Nat
      BY <1>1, <2>1, SortConstants DEF Typed
    <3> QED BY <3>1, <3>2
  <2>6. charged' = a + d + e + f2 + c
    BY <2>4, <2>5
  <2> QED BY <1>2, <1>9, <2>2, <2>3, <2>6 DEF OnDisk
<1>17. InMemory(K)'
  <2>1. SizeOf(K) \in Weights(K)
    BY <1>1, SizesAreWeights DEF Typed
  <2>2. W(SizeOf(K), r2) <= W(SizeOf(K), r)
    <3>1. PICK w \in Weights(K) : w = SizeOf(K)
      BY <2>1
    <3>2. PICK a, b, y \in Nat : a = W(w, r) /\ b = W(w, r2) /\ y = w[x]
      BY <1>12
    <3>3. a = y + b
      BY <1>12, <3>2
    <3> QED BY <3>1, <3>2, <3>3
  <2>3. SmallRows' = SmallRows
    BY <1>2 DEF SmallRows
  <2>4. Eighth \in Int
    BY SortConstants DEF Eighth
  <2>5. SmallRows => (\A q \in K : q.size <= Eighth) /\ W(SizeOf(K), r) <= 3 * Eighth
    BY <1>1, <1>3 DEF InMemory
  <2>6. SmallRows => W(SizeOf(K), r2) <= 3 * Eighth
    BY <1>12, <2>1, <2>2, <2>4, <2>5
  <2> QED BY <1>9, <2>3, <2>5, <2>6 DEF InMemory, Eighth
<1> QED BY <1>10, <1>11, <1>13, <1>14, <1>15, <1>16, <1>17 DEF SortInvOf

\* A merged row leaves the side whose next row is the smaller one.
LEMMA MergeRowKeeps ==
  ASSUME NEW K, SortInvOf(K), MergeRow
  PROVE  SortInvOf(K)'
<1>1. Typed(K) /\ Shape /\ Conserved(K) /\ MergeConserved(K) /\ InOrder /\ OnDisk(K) /\ InMemory(K)
  BY DEF SortInvOf
<1>2. /\ sorting \in {"merge", "flatten"} /\ writer.is /\ left[Side].rows # <<>>
      /\ writer' = Some(Append(writer.rows, left[Side].rows[1]))
      /\ charged' = charged + left[Side].rows[1].size + EntryBytes
      /\ reserve(left[Side].rows[1].size + EntryBytes)
      /\ left' = [left EXCEPT ![Side] = Some(Tail(left[Side].rows))]
      /\ UNCHANGED <<input, sorting, pos, pending, rows, levels, run, level, merged, stopped, failures>>
  BY DEF MergeRow, push_inner
<1>3. left[1] \in SpoolsOf(K) /\ left[2] \in SpoolsOf(K) /\ left[1].rows \in Seq(K) /\ left[2].rows \in Seq(K)
  <2>1. left[1] \in SpoolsOf(K) /\ left[2] \in SpoolsOf(K)
    <3>1. PICK l \in Seq(SpoolsOf(K)) : l = left
      BY <1>1 DEF Typed
    <3>4. Len(l) = 2
      BY <1>1, <3>1 DEF Typed
    <3>2. 1 \in 1..Len(l) /\ 2 \in 1..Len(l)
      BY <3>4
    <3>3. l[1] \in SpoolsOf(K) /\ l[2] \in SpoolsOf(K)
      BY <3>2, ElementOfSeq
    <3> QED BY <3>1, <3>3
  <2> QED BY <2>1, SpoolFacts
<1>4. PICK k \in {1, 2} : k = Side
  BY DEF Side
<1>5. PICK t \in Seq(K) : t = left[k].rows
  BY <1>3
<1>6. PICK o \in Seq(K) : o = left[3 - k].rows
  BY <1>3
<1>7. t # <<>> /\ (o = <<>> \/ Less(t[1], o[1]))
  <2>1. t # <<>>
    BY <1>2, <1>4, <1>5
  <2>2. CASE take_a
    <3>1. k = 1
      BY <1>4, <2>2 DEF Side
    <3> QED BY <1>5, <1>6, <2>1, <2>2, <3>1 DEF take_a
  <2>3. CASE ~take_a
    <3>1. k = 2
      BY <1>4, <2>3 DEF Side
    <3>2. o = <<>> \/ ~Less(o[1], t[1])
      BY <1>5, <1>6, <2>1, <2>3, <3>1 DEF take_a
    <3>3. o # <<>> => o[1] \in K /\ t[1] \in K
      <4>1. o # <<>> => 1 \in 1..Len(o)
        BY EmptySeq
      <4>2. 1 \in 1..Len(t)
        BY <2>1, EmptySeq
      <4> QED BY <4>1, <4>2, ElementOfSeq
    <3>4. K \subseteq SortRows
      BY <1>1 DEF Typed
    <3> QED BY <2>1, <3>2, <3>3, <3>4, LessTotal
  <2> QED BY <2>2, <2>3
<1>8. PICK u \in Seq(K) : u = writer.rows
  BY <1>1, SpoolFacts DEF Typed
<1>9. PICK x : x = t[1]
  OBVIOUS
<1>10. /\ x \in K /\ Append(u, x) \in Seq(K) /\ Tail(t) \in Seq(K)
       /\ Ordered(Append(u, x)) /\ Ordered(Tail(t)) /\ Joint(Append(u, x), Tail(t)) /\ Joint(Append(u, x), o)
  <2>1. Ordered(u) /\ Ordered(t) /\ Joint(u, t)
    BY <1>1, <1>2, <1>5, <1>8 DEF InOrder, Merging
  <2> QED BY <1>7, <1>9, <2>1, MoveHead
<1>11. PICK u2 \in Seq(K) : u2 = Append(u, x)
  BY <1>10
<1>12. PICK t2 \in Seq(K) : t2 = Tail(t)
  BY <1>10
<1>13. /\ writer' = Some(u2) /\ writer'.rows = u2 /\ writer'.is /\ writer' \in SpoolsOf(K)
       /\ left' \in Seq(SpoolsOf(K)) /\ Len(left') = 2 /\ left'[k].rows = t2 /\ left'[3 - k].rows = o
       /\ left'[3 - k] = left[3 - k]
  <2>1. writer' = Some(u2)
    BY <1>2, <1>4, <1>5, <1>8, <1>9, <1>11
  <2>2. Some(u2).rows = u2 /\ Some(u2).is /\ Some(u2) \in SpoolsOf(K)
    BY SpoolFacts
  <2>3. PICK l \in Seq(SpoolsOf(K)) : l = left
    BY <1>1 DEF Typed
  <2>4. PICK p \in SpoolsOf(K) : p = Some(t2)
    BY SpoolFacts
  <2>5. p.rows = t2
    BY <2>4, SpoolFacts
  <2>6. Len(l) = 2 /\ left' = [l EXCEPT ![k] = p]
    BY <1>1, <1>2, <1>4, <1>5, <1>12, <2>3, <2>4 DEF Typed
  <2>10. k \in 1..Len(l)
    BY <2>6
  <2>7. PICK l2 \in Seq(SpoolsOf(K)) : l2 = [l EXCEPT ![k] = p]
    BY <2>10, ExceptSeq
  <2>8. Len(l2) = 2 /\ l2[k] = p /\ l2[3 - k] = l[3 - k]
    <3>1. k \in 1..Len(l) /\ 3 - k \in 1..Len(l) /\ 3 - k # k
      BY <2>6
    <3> QED BY <2>6, <2>7, <3>1, ExceptSeq
  <2> QED BY <1>6, <2>1, <2>2, <2>3, <2>5, <2>6, <2>7, <2>8
<1>14. Typed(K)'
  <2>1. charged' \in Int /\ charged' <= SortDisk
    <3>1. PICK n \in Nat : n = left[Side].rows[1].size
      BY <1>1, <1>4, <1>5, <1>9, <1>10 DEF Typed, SortRows
    <3>2. charged' = charged + n + EntryBytes /\ charged + (n + EntryBytes) <= SortDisk /\ charged \in Int
      BY <1>1, <1>2, <3>1 DEF reserve, Typed
    <3> QED BY <3>2, SortConstants
  <2> QED BY <1>1, <1>2, <1>13, <2>1 DEF Typed
<1>15. Shape'
  BY <1>1, <1>2, <1>13 DEF Shape, Merging, Idle, Empty
<1>16. Conserved(K)'
  BY <1>1, <1>2 DEF Conserved, Here, Written
<1>17. ASSUME NEW w \in Weights(K)
       PROVE  /\ W(w, t) = w[x] + W(w, t2) /\ W(w, u2) = W(w, u) + w[x]
              /\ W(w, t) \in Nat /\ W(w, t2) \in Nat /\ w[x] \in Nat /\ W(w, u) \in Nat /\ W(w, u2) \in Nat
              /\ W(w, o) \in Nat /\ LW(w, levels) \in Nat /\ W(w, run.rows) \in Nat
              /\ W(w, merged.rows) \in Nat /\ W(w, input) \in Nat
  <2>1. WeighedOf(K, w) /\ LevelsOf(K, w)
    BY WeighedFacts
  <2>2. levels \in Seq(SpoolsOf(K)) /\ run.rows \in Seq(K) /\ merged.rows \in Seq(K) /\ input \in Seq(K)
    BY <1>1, SpoolFacts DEF Typed
  <2> QED BY <2>1, <2>2, <1>7, <1>9, <1>10, <1>11, <1>12 DEF WeighedOf, LevelsOf
<1>18. MergeConserved(K)'
  <2> SUFFICES ASSUME NEW w \in Weights(K)
               PROVE  (W(w, writer.rows) + W(w, left[1].rows) + W(w, left[2].rows) = W(w, run.rows) + W(w, Partner.rows))'
    BY DEF MergeConserved
  <2>1. W(w, writer.rows) + W(w, left[1].rows) + W(w, left[2].rows) = W(w, run.rows) + W(w, Partner.rows)
    BY <1>1, <1>2 DEF MergeConserved, Merging
  <2>2. (W(w, run.rows) + W(w, Partner.rows))' = W(w, run.rows) + W(w, Partner.rows)
    BY <1>2 DEF Partner
  <2>3. PICK a, a2, b, b2, c, y \in Nat :
          a = W(w, u) /\ a2 = W(w, u2) /\ b = W(w, t) /\ b2 = W(w, t2) /\ c = W(w, o) /\ y = w[x]
    BY <1>17
  <2>4. b = y + b2 /\ a2 = a + y
    BY <1>17, <2>3
  <2>5. CASE k = 1
    <3>1. W(w, writer.rows) + W(w, left[1].rows) + W(w, left[2].rows) = a + b + c
      BY <1>5, <1>6, <1>8, <2>3, <2>5
    <3>2. (W(w, writer.rows) + W(w, left[1].rows) + W(w, left[2].rows))' = a2 + b2 + c
      BY <1>13, <2>3, <2>5
    <3>3. a + b + c = a2 + b2 + c
      BY <2>4
    <3> QED BY <2>1, <2>2, <3>1, <3>2, <3>3
  <2>6. CASE k = 2
    <3>1. W(w, writer.rows) + W(w, left[1].rows) + W(w, left[2].rows) = a + c + b
      BY <1>5, <1>6, <1>8, <2>3, <2>6
    <3>2. (W(w, writer.rows) + W(w, left[1].rows) + W(w, left[2].rows))' = a2 + c + b2
      BY <1>13, <2>3, <2>6
    <3>3. a + c + b = a2 + c + b2
      BY <2>4
    <3> QED BY <2>1, <2>2, <3>1, <3>2, <3>3
  <2> QED BY <2>5, <2>6
<1>19. InOrder'
  <2>1. Ordered(o)
    BY <1>1, <1>6 DEF InOrder
  <2>3. Ordered(t2) /\ Joint(u2, t2) /\ Joint(u2, o)
    BY <1>10, <1>11, <1>12
  <2>2. Ordered(left'[1].rows) /\ Ordered(left'[2].rows) /\ Joint(u2, left'[1].rows) /\ Joint(u2, left'[2].rows)
    <3>1. CASE k = 1
      <4>1. left'[1].rows = t2 /\ left'[2].rows = o
        BY <1>13, <3>1
      <4> QED BY <2>1, <2>3, <4>1
    <3>2. CASE k = 2
      <4>1. left'[2].rows = t2 /\ left'[1].rows = o
        BY <1>13, <3>2
      <4> QED BY <2>1, <2>3, <4>1
    <3> QED BY <3>1, <3>2
  <2> QED BY <1>1, <1>2, <1>10, <1>11, <1>13, <2>2 DEF InOrder, Merging
<1>20. OnDisk(K)'
  <2>1. FileOf(K) \in Weights(K) /\ FileOf(K)[x] = x.size + EntryBytes /\ x.size \in Nat
    BY <1>1, <1>10, SizesAreWeights DEF FileOf, Typed, SortRows
  <2>2. PICK w \in Weights(K) : w = FileOf(K)
    BY <2>1
  <2>3. PICK a, c, d, e, f, f2, y \in Nat :
          /\ a = W(w, input) /\ c = LW(w, levels) /\ d = W(w, run.rows)
          /\ e = W(w, merged.rows) /\ f = W(w, u) /\ f2 = W(w, u2) /\ y = w[x]
    BY <1>17
  <2>4. f2 = f + y /\ charged = a + d + e + f + c
    BY <1>1, <1>8, <1>17, <2>2, <2>3 DEF OnDisk
  <2>5. charged' = charged + y
    <3>1. PICK n \in Nat : n = x.size
      BY <2>1
    <3>2. charged' = charged + n + EntryBytes /\ y = n + EntryBytes
      BY <1>2, <1>4, <1>5, <1>9, <2>1, <2>2, <2>3, <3>1
    <3>3. charged \in Int
      BY <1>1 DEF Typed
    <3> QED BY <3>2, <3>3, SortConstants
  <2>6. charged' = a + d + e + f2 + c
    BY <2>4, <2>5
  <2> QED BY <1>2, <1>13, <2>2, <2>3, <2>6 DEF OnDisk
<1>21. InMemory(K)'
  BY <1>1, <1>2 DEF InMemory, SmallRows, Eighth
<1> QED BY <1>14, <1>15, <1>16, <1>18, <1>19, <1>20, <1>21 DEF SortInvOf

\* Every spool of the sort is one of its kind.
LEMMA Spools ==
  ASSUME NEW K, Typed(K)
  PROVE  /\ left[1] \in SpoolsOf(K) /\ left[2] \in SpoolsOf(K)
         /\ left[1].rows \in Seq(K) /\ left[2].rows \in Seq(K)
         /\ writer.rows \in Seq(K) /\ run.rows \in Seq(K) /\ merged.rows \in Seq(K)
         /\ Len(levels) \in Nat /\ DOMAIN levels = 1 .. Len(levels)
         /\ \A i \in 1 .. Len(levels) : levels[i] \in SpoolsOf(K) /\ levels[i].rows \in Seq(K)
<1>1. PICK l \in Seq(SpoolsOf(K)) : l = left
  BY DEF Typed
<1>2. Len(l) = 2
  BY <1>1 DEF Typed
<1>3. 1 \in 1..Len(l) /\ 2 \in 1..Len(l)
  BY <1>2
<1>4. l[1] \in SpoolsOf(K) /\ l[2] \in SpoolsOf(K)
  BY <1>3, ElementOfSeq
<1>5. PICK m \in Seq(SpoolsOf(K)) : m = levels
  BY DEF Typed
<1>6. Len(m) \in Nat /\ DOMAIN m = 1 .. Len(m) /\ \A i \in 1 .. Len(m) : m[i] \in SpoolsOf(K)
  BY LenProperties, ElementOfSeq
<1>7. \A i \in 1 .. Len(m) : m[i].rows \in Seq(K)
  BY <1>6, SpoolFacts
<1>8. writer.rows \in Seq(K) /\ run.rows \in Seq(K) /\ merged.rows \in Seq(K)
  BY SpoolFacts DEF Typed
<1> QED BY <1>1, <1>4, <1>5, <1>6, <1>7, <1>8, SpoolFacts

\* What the spools of the sort weigh is a number.
LEMMA SortAmounts ==
  ASSUME NEW K, NEW w \in Weights(K), Typed(K)
  PROVE  /\ W(w, pending) \in Nat /\ W(w, rows) \in Nat /\ LW(w, levels) \in Nat
         /\ W(w, run.rows) \in Nat /\ W(w, merged.rows) \in Nat /\ W(w, writer.rows) \in Nat
         /\ W(w, left[1].rows) \in Nat /\ W(w, left[2].rows) \in Nat /\ W(w, input) \in Nat
         /\ Written(w) \in Nat /\ W(w, <<>>) = 0
         /\ \A i \in 1 .. Len(levels) : W(w, levels[i].rows) \in Nat
<1>1. WeighedOf(K, w) /\ LevelsOf(K, w)
  BY WeighedFacts
<1>2. \A s \in Seq(K) : W(w, s) \in Nat
  BY <1>1 DEF WeighedOf
<1>3. pending \in Seq(K) /\ rows \in Seq(K) /\ input \in Seq(K) /\ levels \in Seq(SpoolsOf(K))
  BY DEF Typed
<1>4. LW(w, levels) \in Nat
  BY <1>1, <1>3 DEF LevelsOf
<1> QED BY <1>1, <1>2, <1>3, <1>4, Spools DEF WeighedOf, Written

\* A finished run enters the counter.
LEMMA FinishRunKeeps ==
  ASSUME NEW K, SortInvOf(K), FinishRun
  PROVE  SortInvOf(K)'
<1>1. Typed(K) /\ Shape /\ Conserved(K) /\ MergeConserved(K) /\ InOrder /\ OnDisk(K) /\ InMemory(K)
  BY DEF SortInvOf
<1>2. /\ sorting = "write" /\ rows = <<>> /\ run' = writer /\ writer' = None /\ sorting' = "merge"
      /\ UNCHANGED <<input, pos, pending, rows, levels, level, left, merged, charged, stopped, failures>>
  BY DEF FinishRun
<1>3. /\ writer.is /\ ~run.is /\ run.rows = <<>> /\ ~merged.is /\ Idle /\ ~None.is /\ None.rows = <<>>
      /\ None \in SpoolsOf(K)
  BY <1>1, <1>2, SpoolFacts DEF Shape, Merging, Typed
<1>4. Typed(K)'
  BY <1>1, <1>2, <1>3 DEF Typed
<1>5. Shape'
  BY <1>1, <1>2, <1>3 DEF Shape, Merging, Idle
<1>6. Conserved(K)'
  <2> SUFFICES ASSUME NEW w \in Weights(K) PROVE (SumTo(Vals(w, input), pos) = Here(w))'
    BY DEF Conserved
  <2>1. SumTo(Vals(w, input), pos) = Here(w)
    BY <1>1, <1>2 DEF Conserved
  <2>2. PICK a, c, e, f \in Nat :
          a = W(w, pending) /\ c = LW(w, levels) /\ e = W(w, merged.rows) /\ f = W(w, writer.rows)
    BY <1>1, SortAmounts
  <2>3. W(w, <<>>) = 0
    BY <1>1, SortAmounts
  <2>4. Here(w) = a + 0 + c + 0 + e + f
    BY <1>2, <1>3, <2>2, <2>3 DEF Here, Written
  <2>5. Here(w)' = a + 0 + c + f + e + 0
    BY <1>2, <1>3, <2>2, <2>3 DEF Here, Written
  <2>6. a + 0 + c + 0 + e + f = a + 0 + c + f + e + 0
    OBVIOUS
  <2> QED BY <1>2, <2>1, <2>4, <2>5, <2>6
<1>7. MergeConserved(K)' /\ InOrder'
  BY <1>1, <1>2, <1>3, EmptyOrdered DEF MergeConserved, Merging, InOrder
<1>8. OnDisk(K)'
  <2>1. PICK w \in Weights(K) : w = FileOf(K)
    BY <1>1, SizesAreWeights DEF Typed
  <2>2. PICK a, c, e, f \in Nat :
          a = W(w, input) /\ c = LW(w, levels) /\ e = W(w, merged.rows) /\ f = W(w, writer.rows)
    BY <1>1, SortAmounts
  <2>3. W(w, <<>>) = 0
    BY <1>1, SortAmounts
  <2>4. charged = a + 0 + e + f + c
    BY <1>1, <1>3, <2>1, <2>2, <2>3 DEF OnDisk
  <2>5. charged' = a + f + e + 0 + c
    BY <1>2, <2>4
  <2> QED BY <1>2, <1>3, <2>1, <2>2, <2>3, <2>5 DEF OnDisk
<1>9. InMemory(K)'
  BY <1>1, <1>2 DEF InMemory, SmallRows, Eighth
<1> QED BY <1>4, <1>5, <1>6, <1>7, <1>8, <1>9 DEF SortInvOf

\* A run that finds its level free stays there.
LEMMA PlaceKeeps ==
  ASSUME NEW K, SortInvOf(K), Place
  PROVE  SortInvOf(K)'
<1>1. Typed(K) /\ Shape /\ Conserved(K) /\ MergeConserved(K) /\ InOrder /\ OnDisk(K) /\ InMemory(K)
  BY DEF SortInvOf
<1>2. /\ sorting = "merge" /\ ~writer.is /\ (level < Len(levels) => ~levels[level + 1].is)
      /\ levels' = IF level = Len(levels) THEN Append(levels, run) ELSE [levels EXCEPT ![level + 1] = run]
      /\ run' = None /\ sorting' = "read"
      /\ UNCHANGED <<input, pos, pending, rows, writer, level, left, merged, charged, stopped, failures>>
  BY DEF Place
<1>3. /\ run.is /\ writer.rows = <<>> /\ ~merged.is /\ Idle /\ ~None.is /\ None.rows = <<>>
      /\ None \in SpoolsOf(K)
  BY <1>1, <1>2, SpoolFacts DEF Shape, Merging, Typed
<1>4. PICK l \in Seq(SpoolsOf(K)) : l = levels
  BY <1>1 DEF Typed
<1>5. PICK p \in SpoolsOf(K) : p = run
  BY <1>1 DEF Typed
<1>6. PICK n \in 0 .. Len(l) : n = level
  BY <1>1, <1>4 DEF Typed
<1>7. Len(l) \in Nat
  BY LenProperties
<1>8. PICK l2 \in Seq(SpoolsOf(K)) :
        /\ l2 = levels' /\ Len(l2) >= Len(l) /\ Len(l2) \in Nat
        /\ (\A i \in 1 .. Len(l2) : l2[i] = p \/ (i \in 1 .. Len(l) /\ l2[i] = l[i]))
        /\ (\A w \in Weights(K) : LW(w, l2) = LW(w, l) + W(w, p.rows))
  <2>1. CASE n = Len(l)
    <3>1. PICK l2 \in Seq(SpoolsOf(K)) : l2 = Append(l, p)
      BY AppendProperties
    <3>2. Len(l2) = Len(l) + 1 /\ l2[Len(l) + 1] = p /\ \A i \in 1 .. Len(l) : l2[i] = l[i]
      BY <3>1, AppendProperties
    <3>3. \A w \in Weights(K) : LW(w, l2) = LW(w, l) + W(w, p.rows)
      BY <3>1, LWAppend
    <3>4. \A i \in 1 .. Len(l2) : l2[i] = p \/ (i \in 1 .. Len(l) /\ l2[i] = l[i])
      BY <1>7, <3>2
    <3>5. l2 = levels'
      BY <1>2, <1>4, <1>5, <1>6, <2>1, <3>1
    <3> QED BY <1>7, <3>2, <3>3, <3>4, <3>5
  <2>2. CASE n # Len(l)
    <3>1. n + 1 \in 1 .. Len(l) /\ n < Len(l)
      BY <1>7, <2>2
    <3>2. PICK l2 \in Seq(SpoolsOf(K)) : l2 = [l EXCEPT ![n + 1] = p]
      BY <3>1, ExceptSeq
    <3>3. Len(l2) = Len(l) /\ \A i \in 1 .. Len(l) : l2[i] = IF i = n + 1 THEN p ELSE l[i]
      BY <3>1, <3>2, ExceptSeq
    <3>4. l[n + 1] \in SpoolsOf(K) /\ ~l[n + 1].is
      BY <1>2, <1>4, <1>6, <3>1, ElementOfSeq
    <3>5. l[n + 1].rows = <<>>
      BY <3>4, SpoolFacts
    <3>6. ASSUME NEW w \in Weights(K) PROVE LW(w, l2) = LW(w, l) + W(w, p.rows)
      <4>1. LW(w, l2) = LW(w, l) - W(w, l[n + 1].rows) + W(w, p.rows)
        BY <3>1, <3>2, LWUpdate
      <4>2. W(w, l[n + 1].rows) = 0
        BY <3>5, WEmpty
      <4>3. LW(w, l) \in Nat
        BY LWeighed
      <4> QED BY <4>1, <4>2, <4>3
    <3>7. l2 = levels'
      BY <1>2, <1>4, <1>5, <1>6, <2>2, <3>2
    <3> QED BY <1>7, <3>3, <3>6, <3>7
  <2> QED BY <2>1, <2>2
<1>9. Typed(K)'
  <2>1. level' \in 0 .. Len(levels')
    BY <1>2, <1>6, <1>7, <1>8
  <2> QED BY <1>1, <1>2, <1>3, <1>8, <2>1 DEF Typed
<1>10. Shape'
  BY <1>1, <1>2, <1>3 DEF Shape, Merging, Idle
<1>11. Conserved(K)'
  <2> SUFFICES ASSUME NEW w \in Weights(K) PROVE (SumTo(Vals(w, input), pos) = Here(w))'
    BY DEF Conserved
  <2>1. SumTo(Vals(w, input), pos) = Here(w)
    BY <1>1, <1>2 DEF Conserved
  <2>2. PICK a, b, c, d, e \in Nat :
          a = W(w, pending) /\ b = W(w, rows) /\ c = LW(w, l) /\ d = W(w, p.rows) /\ e = W(w, merged.rows)
    BY <1>1, <1>4, <1>5, SortAmounts
  <2>3. W(w, <<>>) = 0
    BY <1>1, SortAmounts
  <2>4. Here(w) = a + b + c + d + e + 0
    BY <1>2, <1>4, <1>5, <2>2 DEF Here, Written
  <2>5. Here(w)' = a + b + (c + d) + 0 + e + 0
    BY <1>2, <1>3, <1>8, <2>2, <2>3 DEF Here, Written
  <2>6. a + b + c + d + e + 0 = a + b + (c + d) + 0 + e + 0
    OBVIOUS
  <2> QED BY <1>2, <2>1, <2>4, <2>5, <2>6
<1>12. MergeConserved(K)'
  BY <1>2 DEF MergeConserved, Merging
<1>13. InOrder'
  <2>1. Ordered(p.rows) /\ \A i \in 1 .. Len(l) : Ordered(l[i].rows)
    BY <1>1, <1>4, <1>5 DEF InOrder
  <2>2. \A i \in 1 .. Len(l2) : Ordered(l2[i].rows)
    BY <1>8, <2>1
  <2> QED BY <1>1, <1>2, <1>3, <1>8, <2>2, EmptyOrdered DEF InOrder, Merging
<1>14. OnDisk(K)'
  <2>1. PICK w \in Weights(K) : w = FileOf(K)
    BY <1>1, SizesAreWeights DEF Typed
  <2>2. PICK a, c, d, e \in Nat :
          a = W(w, input) /\ c = LW(w, l) /\ d = W(w, p.rows) /\ e = W(w, merged.rows)
    BY <1>1, <1>4, <1>5, SortAmounts
  <2>3. W(w, <<>>) = 0
    BY <1>1, SortAmounts
  <2>4. charged = a + d + e + 0 + c
    BY <1>1, <1>3, <1>4, <1>5, <2>1, <2>2, <2>3 DEF OnDisk
  <2>5. charged' = a + 0 + e + 0 + (c + d)
    BY <1>2, <2>4
  <2> QED BY <1>2, <1>3, <1>8, <2>1, <2>2, <2>3, <2>5 DEF OnDisk
<1>15. InMemory(K)'
  BY <1>1, <1>2 DEF InMemory, SmallRows, Eighth
<1> QED BY <1>9, <1>10, <1>11, <1>12, <1>13, <1>14, <1>15 DEF SortInvOf

\* A level that is taken leaves the counter without its rows.
Cleared(K, l, n, l2) ==
    /\ l2 = [l EXCEPT ![n] = None] /\ Len(l2) = Len(l)
    /\ \A i \in 1 .. Len(l) : l2[i] = IF i = n THEN None ELSE l[i]
    /\ \A w \in Weights(K) : LW(w, l) = LW(w, l2) + W(w, l[n].rows)

\* A level whose run was taken away is free, and the others are as they were.
LEMMA LevelCleared ==
  ASSUME NEW K, NEW l \in Seq(SpoolsOf(K)), NEW n \in 1 .. Len(l)
  PROVE  \E l2 \in Seq(SpoolsOf(K)) : Cleared(K, l, n, l2)
<1>1. None \in SpoolsOf(K) /\ None.rows = <<>>
  BY SpoolFacts
<1>2. PICK l2 \in Seq(SpoolsOf(K)) : l2 = [l EXCEPT ![n] = None]
  BY <1>1, ExceptSeq
<1>3. Len(l2) = Len(l) /\ \A i \in 1 .. Len(l) : l2[i] = IF i = n THEN None ELSE l[i]
  BY <1>1, <1>2, ExceptSeq
<1>4. l[n] \in SpoolsOf(K) /\ l[n].rows \in Seq(K)
  <2>1. l[n] \in SpoolsOf(K)
    BY ElementOfSeq
  <2> QED BY <2>1, SpoolFacts
<1>5. ASSUME NEW w \in Weights(K) PROVE LW(w, l) = LW(w, l2) + W(w, l[n].rows)
  <2>1. LW(w, l2) = LW(w, l) - W(w, l[n].rows) + W(w, None.rows)
    BY <1>1, <1>2, LWUpdate
  <2>2. W(w, None.rows) = 0
    BY <1>1, WEmpty
  <2>3. LW(w, l) \in Nat /\ W(w, l[n].rows) \in Nat
    BY <1>4, LWeighed, Weighed
  <2>4. PICK a, b \in Nat : a = LW(w, l) /\ b = W(w, l[n].rows)
    BY <2>3
  <2> QED BY <2>1, <2>2, <2>4
<1>6. Cleared(K, l, n, l2)
  BY <1>2, <1>3, <1>5 DEF Cleared
<1> QED BY <1>6

\* A run that finds its level taken is merged with it.
LEMMA CarryKeeps ==
  ASSUME NEW K, SortInvOf(K), Carry
  PROVE  SortInvOf(K)'
<1>1. Typed(K) /\ Shape /\ Conserved(K) /\ MergeConserved(K) /\ InOrder /\ OnDisk(K) /\ InMemory(K)
  BY DEF SortInvOf
<1>2. /\ sorting = "merge" /\ ~writer.is /\ level < Len(levels) /\ levels[level + 1].is
      /\ left' = <<levels[level + 1], run>> /\ writer' = Some(<<>>)
      /\ UNCHANGED <<input, sorting, pos, pending, rows, levels, run, level, merged, charged, stopped, failures>>
  BY DEF Carry, StartMerge
<1>3. PICK n \in Nat : n = level + 1 /\ n \in 1 .. Len(levels)
  BY <1>1, <1>2 DEF Typed
<1>4. PICK p \in SpoolsOf(K) : p = levels[n] /\ p.rows \in Seq(K)
  BY <1>1, <1>3, Spools
<1>5. PICK q \in SpoolsOf(K) : q = run /\ q.rows \in Seq(K)
  BY <1>1, Spools DEF Typed
<1>6. left' = <<p, q>> /\ left'[1] = p /\ left'[2] = q /\ Len(left') = 2 /\ left' \in Seq(SpoolsOf(K))
  BY <1>2, <1>3, <1>4, <1>5
<1>7. <<>> \in Seq(K) /\ writer' \in SpoolsOf(K) /\ writer'.is /\ writer'.rows = <<>>
  BY <1>2, EmptySeq, SpoolFacts
<1>8. writer.rows = <<>> /\ run.is /\ ~merged.is
  BY <1>1, <1>2, SpoolFacts DEF Shape, Typed
<1>9. Typed(K)'
  BY <1>1, <1>2, <1>6, <1>7 DEF Typed
<1>10. Shape'
  BY <1>1, <1>2, <1>7, <1>8 DEF Shape, Merging
<1>11. Conserved(K)'
  BY <1>1, <1>2 DEF Conserved, Here, Written
<1>12. MergeConserved(K)'
  <2> SUFFICES ASSUME NEW w \in Weights(K)
               PROVE  (W(w, writer.rows) + W(w, left[1].rows) + W(w, left[2].rows) = W(w, run.rows) + W(w, Partner.rows))'
    BY DEF MergeConserved
  <2>1. W(w, <<>>) = 0 /\ W(w, p.rows) \in Nat /\ W(w, q.rows) \in Nat
    BY <1>1, <1>3, <1>4, <1>5, SortAmounts
  <2>2. Partner' = p
    BY <1>2, <1>3, <1>4 DEF Partner
  <2> QED BY <1>2, <1>5, <1>6, <1>7, <2>1, <2>2
<1>13. InOrder'
  <2>1. Ordered(p.rows) /\ Ordered(q.rows)
    BY <1>1, <1>3, <1>4, <1>5 DEF InOrder
  <2> QED BY <1>1, <1>2, <1>6, <1>7, <2>1, EmptyOrdered DEF InOrder, Merging, Joint
<1>14. OnDisk(K)'
  BY <1>1, <1>2, <1>7, <1>8 DEF OnDisk
<1>15. InMemory(K)'
  BY <1>1, <1>2 DEF InMemory, SmallRows, Eighth
<1> QED BY <1>9, <1>10, <1>11, <1>12, <1>13, <1>14, <1>15 DEF SortInvOf

\* The merged run replaces both sides.
LEMMA FinishMergeKeeps ==
  ASSUME NEW K, SortInvOf(K), FinishMerge
  PROVE  SortInvOf(K)'
<1>1. Typed(K) /\ Shape /\ Conserved(K) /\ MergeConserved(K) /\ InOrder /\ OnDisk(K) /\ InMemory(K)
  BY DEF SortInvOf
<1>2. /\ sorting = "merge" /\ writer.is /\ left[1].rows = <<>> /\ left[2].rows = <<>>
      /\ charged' = charged - file_bytes(levels[level + 1].rows) - file_bytes(run.rows)
      /\ levels' = [levels EXCEPT ![level + 1] = None]
      /\ run' = writer /\ writer' = None /\ left' = <<None, None>> /\ level' = level + 1
      /\ UNCHANGED <<input, sorting, pos, pending, rows, merged, stopped, failures>>
  BY DEF FinishMerge, MergedUsed
<1>3. PICK n \in Nat : n = level + 1 /\ n \in 1 .. Len(levels)
  BY <1>1, <1>2 DEF Typed, Shape
<1>4. PICK l \in Seq(SpoolsOf(K)) : l = levels
  BY <1>1 DEF Typed
<1>5. /\ levels' = [l EXCEPT ![n] = None] /\ levels' \in Seq(SpoolsOf(K)) /\ Len(levels') = Len(l)
      /\ (\A i \in 1 .. Len(l) : levels'[i] = IF i = n THEN None ELSE l[i])
      /\ (\A w \in Weights(K) : LW(w, l) = LW(w, levels') + W(w, l[n].rows))
  <2>1. n \in 1 .. Len(l)
    BY <1>3, <1>4
  <2>2. PICK l2 \in Seq(SpoolsOf(K)) : Cleared(K, l, n, l2)
    BY <2>1, LevelCleared
  <2>3. levels' = l2
    BY <1>2, <1>3, <1>4, <2>2 DEF Cleared
  <2> QED BY <2>2, <2>3 DEF Cleared
<1>6. ~None.is /\ None.rows = <<>> /\ None \in SpoolsOf(K) /\ ~merged.is /\ rows = <<>>
  BY <1>1, <1>2, SpoolFacts DEF Shape
<1>7. left' \in Seq(SpoolsOf(K)) /\ Len(left') = 2 /\ left'[1].rows = <<>> /\ left'[2].rows = <<>>
  BY <1>2, <1>6
<1>8. ASSUME NEW w \in Weights(K)
      PROVE  /\ W(w, writer.rows) = W(w, run.rows) + W(w, l[n].rows)
             /\ LW(w, levels) = LW(w, levels') + W(w, l[n].rows)
             /\ W(w, writer.rows) \in Nat /\ W(w, run.rows) \in Nat /\ W(w, l[n].rows) \in Nat
             /\ LW(w, levels') \in Nat /\ LW(w, levels) \in Nat
             /\ W(w, <<>>) = 0
  <2>1. W(w, writer.rows) + W(w, left[1].rows) + W(w, left[2].rows) = W(w, run.rows) + W(w, Partner.rows)
    BY <1>1, <1>2 DEF MergeConserved, Merging
  <2>2. Partner = l[n]
    BY <1>2, <1>3, <1>4 DEF Partner
  <2>3. W(w, writer.rows) \in Nat /\ W(w, run.rows) \in Nat /\ W(w, l[n].rows) \in Nat /\ W(w, <<>>) = 0
        /\ LW(w, levels) \in Nat
    BY <1>1, <1>3, <1>4, SortAmounts
  <2>4. LW(w, levels') \in Nat
    BY <1>5, WeighedFacts DEF LevelsOf
  <2>5. W(w, writer.rows) + 0 + 0 = W(w, run.rows) + W(w, l[n].rows)
    BY <1>2, <2>1, <2>2, <2>3
  <2>6. W(w, writer.rows) = W(w, run.rows) + W(w, l[n].rows)
    BY <2>3, <2>5
  <2>7. LW(w, levels) = LW(w, levels') + W(w, l[n].rows)
    BY <1>4, <1>5
  <2> QED BY <2>3, <2>4, <2>6, <2>7
<1>9. ASSUME NEW w \in Weights(K), w = FileOf(K)
      PROVE  /\ charged' = charged - W(w, l[n].rows) - W(w, run.rows)
             /\ charged = W(w, input) + W(w, run.rows) + W(w, merged.rows) + W(w, writer.rows) + LW(w, levels)
             /\ charged' = W(w, input) + W(w, writer.rows) + W(w, merged.rows) + 0 + LW(w, levels')
             /\ W(w, input) \in Nat
  <2>1. charged = W(w, input) + W(w, run.rows) + W(w, merged.rows) + W(w, writer.rows) + LW(w, levels)
    BY <1>1, <1>9 DEF OnDisk
  <2>2. charged' = charged - W(w, l[n].rows) - W(w, run.rows)
    <3>1. K \subseteq SortRows /\ l[n].rows \in Seq(K) /\ run.rows \in Seq(K)
      BY <1>1, <1>3, <1>4, Spools DEF Typed
    <3>2. file_bytes(l[n].rows) = W(w, l[n].rows) /\ file_bytes(run.rows) = W(w, run.rows)
      BY <1>9, <3>1, SizesAreWeights
    <3> QED BY <1>2, <1>3, <1>4, <3>2
  <2>3. PICK a, c, c2, d, e, f, g \in Nat :
          /\ a = W(w, input) /\ c = LW(w, levels) /\ c2 = LW(w, levels') /\ d = W(w, run.rows)
          /\ e = W(w, merged.rows) /\ f = W(w, writer.rows) /\ g = W(w, l[n].rows)
    BY <1>1, <1>8, SortAmounts
  <2>4. charged = a + d + e + f + c /\ charged' = charged - g - d
    BY <2>1, <2>2, <2>3
  <2>5. c = c2 + g /\ f = d + g
    BY <1>8, <2>3
  <2>6. charged' = a + f + e + 0 + c2
    BY <2>4, <2>5
  <2> QED BY <2>1, <2>2, <2>3, <2>6
<1>10. PICK w \in Weights(K) : w = FileOf(K)
  BY <1>1, SizesAreWeights DEF Typed
<1>11. Typed(K)'
  <2>1. charged' \in Int /\ charged' <= SortDisk
    <3>1. PICK g, d \in Nat : g = W(w, l[n].rows) /\ d = W(w, run.rows)
      BY <1>8
    <3>2. charged' = charged - g - d
      BY <1>9, <1>10, <3>1
    <3>3. charged \in Int /\ charged <= SortDisk
      BY <1>1 DEF Typed
    <3> QED BY <3>2, <3>3, SortConstants
  <2>2. level' \in 0 .. Len(levels')
    BY <1>2, <1>3, <1>4, <1>5
  <2> QED BY <1>1, <1>2, <1>5, <1>6, <1>7, <2>1, <2>2 DEF Typed
<1>12. Shape'
  BY <1>1, <1>2, <1>6, <1>7 DEF Shape, Merging, Idle
<1>13. Conserved(K)'
  <2> SUFFICES ASSUME NEW v \in Weights(K) PROVE (SumTo(Vals(v, input), pos) = Here(v))'
    BY DEF Conserved
  <2>1. SumTo(Vals(v, input), pos) = Here(v)
    BY <1>1, <1>2 DEF Conserved
  <2>2. PICK a, c, c2, d, e, f, g \in Nat :
          /\ a = W(v, pending) /\ c = LW(v, levels) /\ c2 = LW(v, levels') /\ d = W(v, run.rows)
          /\ e = W(v, merged.rows) /\ f = W(v, writer.rows) /\ g = W(v, l[n].rows)
    BY <1>1, <1>8, SortAmounts
  <2>3. c = c2 + g /\ f = d + g
    BY <1>8, <2>2
  <2>4. Here(v) = a + 0 + c + d + e + 0
    BY <1>2, <1>6, <1>8, <2>2 DEF Here, Written
  <2>5. Here(v)' = a + 0 + c2 + f + e + 0
    BY <1>2, <1>6, <1>8, <2>2 DEF Here, Written
  <2>6. a + 0 + c + d + e + 0 = a + 0 + c2 + f + e + 0
    BY <2>3
  <2> QED BY <1>2, <2>1, <2>4, <2>5, <2>6
<1>14. MergeConserved(K)'
  BY <1>2, <1>6 DEF MergeConserved, Merging
<1>15. InOrder'
  <2>1. \A i \in 1 .. Len(levels') : Ordered(levels'[i].rows)
    BY <1>1, <1>4, <1>5, <1>6, EmptyOrdered DEF InOrder
  <2> QED BY <1>1, <1>2, <1>6, <1>7, <2>1, EmptyOrdered DEF InOrder, Merging
<1>16. OnDisk(K)'
  BY <1>2, <1>6, <1>8, <1>9, <1>10 DEF OnDisk
<1>17. InMemory(K)'
  BY <1>1, <1>2 DEF InMemory, SmallRows, Eighth
<1> QED BY <1>11, <1>12, <1>13, <1>14, <1>15, <1>16, <1>17 DEF SortInvOf

\* The lowest level that is left is merged into the result.
LEMMA TakeLevelKeeps ==
  ASSUME NEW K, SortInvOf(K), TakeLevel
  PROVE  SortInvOf(K)'
<1>1. Typed(K) /\ Shape /\ Conserved(K) /\ MergeConserved(K) /\ InOrder /\ OnDisk(K) /\ InMemory(K)
  BY DEF SortInvOf
<1>2. /\ sorting = "flatten" /\ ~writer.is /\ Live # {}
      /\ levels' = [levels EXCEPT ![Lowest] = None]
      /\ UNCHANGED <<input, sorting, pos, pending, rows, level, charged, stopped, failures>>
  BY DEF TakeLevel
<1>3. PICK l \in Seq(SpoolsOf(K)) : l = levels
  BY <1>1 DEF Typed
<1>4. PICK n : n = Lowest
  OBVIOUS
<1>5. n \in 1 .. Len(l) /\ l[n].is /\ l[n] \in SpoolsOf(K) /\ l[n].rows \in Seq(K)
  <2>1. PICK U : U = Live
    OBVIOUS
  <2>2. DOMAIN l = 1 .. Len(l) /\ Len(l) \in Nat
    BY LenProperties
  <2>3. U \subseteq 1 .. Len(l) /\ U # {}
    BY <1>2, <1>3, <2>1, <2>2 DEF Live
  <2>6. U \subseteq Nat
    BY <2>2, <2>3
  <2>4. \E m \in U : \A k \in U : m <= k
    BY <2>3, <2>6, SmallestOf
  <2>5. n \in U
    BY <1>4, <2>1, <2>4 DEF Lowest
  <2> QED BY <1>1, <1>3, <2>1, <2>3, <2>5, Spools DEF Live
<1>6. /\ levels' = [l EXCEPT ![n] = None] /\ levels' \in Seq(SpoolsOf(K)) /\ Len(levels') = Len(l)
      /\ (\A i \in 1 .. Len(l) : levels'[i] = IF i = n THEN None ELSE l[i])
      /\ (\A w \in Weights(K) : LW(w, l) = LW(w, levels') + W(w, l[n].rows))
  <2>1. n \in 1 .. Len(l)
    BY <1>5
  <2>2. PICK l2 \in Seq(SpoolsOf(K)) : Cleared(K, l, n, l2)
    BY <2>1, LevelCleared
  <2>3. levels' = l2
    BY <1>2, <1>3, <1>4, <2>2 DEF Cleared
  <2> QED BY <2>2, <2>3 DEF Cleared
<1>7. PICK p \in SpoolsOf(K) : p = l[n] /\ p.is /\ p.rows \in Seq(K)
  BY <1>5
<1>8. /\ ~None.is /\ None.rows = <<>> /\ rows = <<>> /\ pending = <<>> /\ pos = Len(input) /\ ~run.is
      /\ run.rows = <<>> /\ writer.rows = <<>> /\ Idle
  BY <1>1, <1>2, SpoolFacts DEF Shape, Typed, Empty, Merging
<1>9. Ordered(p.rows) /\ \A i \in 1 .. Len(levels') : Ordered(levels'[i].rows)
  BY <1>1, <1>3, <1>5, <1>6, <1>7, <1>8, EmptyOrdered DEF InOrder
<1>10. ASSUME NEW w \in Weights(K)
       PROVE  /\ LW(w, levels) = LW(w, levels') + W(w, p.rows) /\ LW(w, levels) \in Nat
              /\ LW(w, levels') \in Nat /\ W(w, p.rows) \in Nat /\ W(w, <<>>) = 0
  <2>1. LW(w, levels') \in Nat
    BY <1>6, WeighedFacts DEF LevelsOf
  <2> QED BY <1>1, <1>3, <1>5, <1>6, <1>7, <2>1, SortAmounts
<1>11. InMemory(K)'
  BY <1>1, <1>2 DEF InMemory, SmallRows, Eighth
<1>12. level' \in 0 .. Len(levels')
  BY <1>1, <1>2, <1>3, <1>6 DEF Typed
<1>13. CASE merged.is
  <2>1. run' = p /\ left' = <<merged, p>> /\ writer' = Some(<<>>) /\ merged' = merged
    BY <1>2, <1>3, <1>4, <1>7, <1>13 DEF TakeLevel, StartMerge
  <2>2. PICK q \in SpoolsOf(K) : q = merged /\ q.rows \in Seq(K)
    BY <1>1, Spools DEF Typed
  <2>3. left'[1] = q /\ left'[2] = p /\ Len(left') = 2 /\ left' \in Seq(SpoolsOf(K))
    BY <2>1, <2>2
  <2>4. <<>> \in Seq(K) /\ writer' \in SpoolsOf(K) /\ writer'.is /\ writer'.rows = <<>>
    BY <2>1, EmptySeq, SpoolFacts
  <2>5. Typed(K)'
    BY <1>1, <1>2, <1>6, <1>12, <2>1, <2>3, <2>4 DEF Typed
  <2>6. Shape'
    BY <1>2, <1>8, <1>13, <2>1, <2>4 DEF Shape, Merging, Empty
  <2>7. Conserved(K)'
    <3> SUFFICES ASSUME NEW v \in Weights(K) PROVE (SumTo(Vals(v, input), pos) = Here(v))'
      BY DEF Conserved
    <3>1. SumTo(Vals(v, input), pos) = Here(v)
      BY <1>1, <1>2 DEF Conserved
    <3>2. PICK c, c2, d, e \in Nat :
            c = LW(v, levels) /\ c2 = LW(v, levels') /\ d = W(v, p.rows) /\ e = W(v, merged.rows)
      BY <1>1, <1>10, SortAmounts
    <3>3. c = c2 + d
      BY <1>10, <3>2
    <3>4. Here(v) = 0 + 0 + c + 0 + e + 0
      BY <1>2, <1>8, <1>10, <3>2 DEF Here, Written
    <3>5. Here(v)' = 0 + 0 + c2 + d + e + 0
      BY <1>2, <1>8, <1>10, <2>1, <3>2 DEF Here, Written
    <3>6. 0 + 0 + c + 0 + e + 0 = 0 + 0 + c2 + d + e + 0
      BY <3>3
    <3> QED BY <1>2, <3>1, <3>4, <3>5, <3>6
  <2>8. MergeConserved(K)'
    <3> SUFFICES ASSUME NEW w \in Weights(K)
                 PROVE  (W(w, writer.rows) + W(w, left[1].rows) + W(w, left[2].rows) = W(w, run.rows) + W(w, Partner.rows))'
      BY DEF MergeConserved
    <3>1. W(w, <<>>) = 0 /\ W(w, p.rows) \in Nat /\ W(w, q.rows) \in Nat
      BY <1>1, <1>10, <2>2, SortAmounts
    <3>2. Partner' = q
      BY <1>2, <2>1, <2>2 DEF Partner
    <3> QED BY <2>1, <2>3, <2>4, <3>1, <3>2
  <2>9. InOrder'
    <3>1. Ordered(q.rows)
      BY <1>1, <2>2 DEF InOrder
    <3> QED BY <1>2, <1>9, <2>1, <2>2, <2>3, <2>4, <3>1, EmptyOrdered DEF InOrder, Merging, Joint
  <2>10. OnDisk(K)'
    <3>1. PICK w \in Weights(K) : w = FileOf(K)
      BY <1>1, SizesAreWeights DEF Typed
    <3>2. PICK a, c, c2, d, e \in Nat : /\ a = W(w, input) /\ c = LW(w, levels) /\ c2 = LW(w, levels')
                                        /\ d = W(w, p.rows) /\ e = W(w, merged.rows)
      BY <1>1, <1>10, SortAmounts
    <3>3. c = c2 + d /\ W(w, <<>>) = 0
      BY <1>10, <3>2
    <3>4. charged = a + 0 + e + 0 + c
      BY <1>1, <1>8, <3>1, <3>2, <3>3 DEF OnDisk
    <3>5. charged' = a + d + e + 0 + c2
      BY <1>2, <3>3, <3>4
    <3> QED BY <1>2, <2>1, <2>4, <3>1, <3>2, <3>3, <3>5 DEF OnDisk
  <2> QED BY <1>11, <2>5, <2>6, <2>7, <2>8, <2>9, <2>10 DEF SortInvOf
<1>14. CASE ~merged.is
  <2>1. merged' = p /\ run' = run /\ left' = left /\ writer' = writer
    BY <1>2, <1>3, <1>4, <1>7, <1>14 DEF TakeLevel
  <2>2. merged.rows = <<>>
    BY <1>1, <1>14, SpoolFacts DEF Typed
  <2>5. Typed(K)'
    BY <1>1, <1>2, <1>6, <1>12, <2>1 DEF Typed
  <2>6. Shape'
    BY <1>2, <1>8, <2>1 DEF Shape, Merging, Empty, Idle
  <2>7. Conserved(K)'
    <3> SUFFICES ASSUME NEW v \in Weights(K) PROVE (SumTo(Vals(v, input), pos) = Here(v))'
      BY DEF Conserved
    <3>1. SumTo(Vals(v, input), pos) = Here(v)
      BY <1>1, <1>2 DEF Conserved
    <3>2. PICK c, c2, d \in Nat : c = LW(v, levels) /\ c2 = LW(v, levels') /\ d = W(v, p.rows)
      BY <1>10
    <3>3. c = c2 + d
      BY <1>10, <3>2
    <3>4. Here(v) = 0 + 0 + c + 0 + 0 + 0
      BY <1>2, <1>8, <1>10, <2>2, <3>2 DEF Here, Written
    <3>5. Here(v)' = 0 + 0 + c2 + 0 + d + 0
      BY <1>2, <1>8, <1>10, <2>1, <3>2 DEF Here, Written
    <3>6. 0 + 0 + c + 0 + 0 + 0 = 0 + 0 + c2 + 0 + d + 0
      BY <3>3
    <3> QED BY <1>2, <3>1, <3>4, <3>5, <3>6
  <2>8. MergeConserved(K)'
    BY <1>2, <2>1 DEF MergeConserved, Merging
  <2>9. InOrder'
    BY <1>1, <1>2, <1>9, <2>1 DEF InOrder, Merging
  <2>10. OnDisk(K)'
    <3>1. PICK w \in Weights(K) : w = FileOf(K)
      BY <1>1, SizesAreWeights DEF Typed
    <3>2. PICK a, c, c2, d \in Nat : /\ a = W(w, input) /\ c = LW(w, levels) /\ c2 = LW(w, levels')
                                     /\ d = W(w, p.rows)
      BY <1>1, <1>10, SortAmounts
    <3>3. c = c2 + d /\ W(w, <<>>) = 0
      BY <1>10, <3>2
    <3>4. charged = a + 0 + 0 + 0 + c
      BY <1>1, <1>8, <2>2, <3>1, <3>2, <3>3 DEF OnDisk
    <3>5. charged' = a + 0 + d + 0 + c2
      BY <1>2, <3>3, <3>4
    <3> QED BY <1>2, <1>8, <2>1, <3>1, <3>2, <3>3, <3>5 DEF OnDisk
  <2> QED BY <1>11, <2>5, <2>6, <2>7, <2>8, <2>9, <2>10 DEF SortInvOf
<1> QED BY <1>13, <1>14

\* A level that has been merged is part of the result.
LEMMA FinishLevelKeeps ==
  ASSUME NEW K, SortInvOf(K), FinishLevel
  PROVE  SortInvOf(K)'
<1>1. Typed(K) /\ Shape /\ Conserved(K) /\ MergeConserved(K) /\ InOrder /\ OnDisk(K) /\ InMemory(K)
  BY DEF SortInvOf
<1>2. /\ sorting = "flatten" /\ writer.is /\ left[1].rows = <<>> /\ left[2].rows = <<>>
      /\ charged' = charged - file_bytes(merged.rows) - file_bytes(run.rows)
      /\ merged' = writer /\ run' = None /\ writer' = None /\ left' = <<None, None>>
      /\ UNCHANGED <<input, sorting, pos, pending, rows, levels, level, stopped, failures>>
  BY DEF FinishLevel, MergedUsed
<1>3. /\ ~None.is /\ None.rows = <<>> /\ None \in SpoolsOf(K) /\ rows = <<>> /\ pending = <<>>
      /\ pos = Len(input)
  BY <1>1, <1>2, SpoolFacts DEF Shape, Empty
<1>4. left' \in Seq(SpoolsOf(K)) /\ Len(left') = 2 /\ left'[1].rows = <<>> /\ left'[2].rows = <<>>
  BY <1>2, <1>3
<1>5. ASSUME NEW w \in Weights(K)
      PROVE  W(w, writer.rows) = W(w, run.rows) + W(w, merged.rows)
  <2>1. W(w, writer.rows) + W(w, left[1].rows) + W(w, left[2].rows) = W(w, run.rows) + W(w, Partner.rows)
    BY <1>1, <1>2 DEF MergeConserved, Merging
  <2>2. Partner = merged
    BY <1>2 DEF Partner
  <2>3. W(w, writer.rows) \in Nat /\ W(w, run.rows) \in Nat /\ W(w, merged.rows) \in Nat /\ W(w, <<>>) = 0
    BY <1>1, SortAmounts
  <2>4. W(w, writer.rows) + 0 + 0 = W(w, run.rows) + W(w, merged.rows)
    BY <1>2, <2>1, <2>2, <2>3
  <2> QED BY <2>3, <2>4
<1>6. PICK w \in Weights(K) : w = FileOf(K)
  BY <1>1, SizesAreWeights DEF Typed
<1>7. PICK a, c, d, e, f \in Nat :
        /\ a = W(w, input) /\ c = LW(w, levels) /\ d = W(w, run.rows)
        /\ e = W(w, merged.rows) /\ f = W(w, writer.rows)
  BY <1>1, SortAmounts
<1>8. charged = a + d + e + f + c /\ charged' = a + 0 + f + 0 + c /\ charged' = charged - e - d
  <2>1. file_bytes(merged.rows) = e /\ file_bytes(run.rows) = d
    BY <1>1, <1>6, <1>7, SizesAreWeights, Spools DEF Typed
  <2>2. charged = a + d + e + f + c
    BY <1>1, <1>6, <1>7 DEF OnDisk
  <2>3. charged' = charged - e - d
    BY <1>2, <2>1
  <2>4. f = d + e
    BY <1>5, <1>7
  <2> QED BY <2>2, <2>3, <2>4
<1>9. charged' \in Int /\ charged' <= SortDisk
  BY <1>1, <1>8, SortConstants DEF Typed
<1>10. Typed(K)'
  BY <1>1, <1>2, <1>3, <1>4, <1>9 DEF Typed
<1>11. Shape'
  BY <1>2, <1>3, <1>4 DEF Shape, Merging, Idle, Empty
<1>12. Conserved(K)'
  <2> SUFFICES ASSUME NEW v \in Weights(K) PROVE (SumTo(Vals(v, input), pos) = Here(v))'
    BY DEF Conserved
  <2>1. SumTo(Vals(v, input), pos) = Here(v)
    BY <1>1, <1>2 DEF Conserved
  <2>2. PICK cc, dd, ee, ff \in Nat :
          cc = LW(v, levels) /\ dd = W(v, run.rows) /\ ee = W(v, merged.rows) /\ ff = W(v, writer.rows)
    BY <1>1, SortAmounts
  <2>3. ff = dd + ee /\ W(v, <<>>) = 0
    BY <1>1, <1>5, <2>2, SortAmounts
  <2>4. Here(v) = 0 + 0 + cc + dd + ee + 0
    BY <1>2, <1>3, <2>2, <2>3 DEF Here, Written
  <2>5. Here(v)' = 0 + 0 + cc + 0 + ff + 0
    BY <1>2, <1>3, <2>2, <2>3 DEF Here, Written
  <2>6. 0 + 0 + cc + dd + ee + 0 = 0 + 0 + cc + 0 + ff + 0
    BY <2>3
  <2> QED BY <1>2, <2>1, <2>4, <2>5, <2>6
<1>13. MergeConserved(K)'
  BY <1>2, <1>3 DEF MergeConserved, Merging
<1>14. InOrder'
  BY <1>1, <1>2, <1>3, <1>4, EmptyOrdered DEF InOrder, Merging
<1>15. OnDisk(K)'
  <2>1. W(w, <<>>) = 0
    BY <1>1, SortAmounts
  <2> QED BY <1>2, <1>3, <1>6, <1>7, <1>8, <2>1 DEF OnDisk
<1>16. InMemory(K)'
  BY <1>1, <1>2 DEF InMemory, SmallRows, Eighth
<1> QED BY <1>10, <1>11, <1>12, <1>13, <1>14, <1>15, <1>16 DEF SortInvOf

\* Without a level that is left, the result is complete.
LEMMA EndLevelsKeeps ==
  ASSUME NEW K, SortInvOf(K), EndLevels
  PROVE  SortInvOf(K)'
<1>1. Typed(K) /\ Shape /\ Conserved(K) /\ MergeConserved(K) /\ InOrder /\ OnDisk(K) /\ InMemory(K)
  BY DEF SortInvOf
<1>2. /\ sorting = "flatten" /\ ~writer.is /\ Live = {} /\ sorting' = "digest"
      /\ merged' = IF merged.is THEN merged ELSE Some(<<>>)
      /\ UNCHANGED <<input, pos, pending, rows, writer, levels, run, level, left, charged, stopped, failures>>
  BY DEF EndLevels
<1>3. merged'.rows = merged.rows /\ merged' \in SpoolsOf(K)
  <2>1. <<>> \in Seq(K)
    BY EmptySeq
  <2>2. Some(<<>>) \in SpoolsOf(K) /\ Some(<<>>).rows = <<>>
    BY <2>1, SpoolFacts
  <2>3. merged \in SpoolsOf(K) /\ (~merged.is => merged.rows = <<>>)
    BY <1>1, SpoolFacts DEF Typed
  <2> QED BY <1>2, <2>2, <2>3
<1>4. \A i \in 1 .. Len(levels) : ~levels[i].is
  BY <1>1, <1>2, Spools DEF Live
<1>5. Typed(K)'
  BY <1>1, <1>2, <1>3 DEF Typed
<1>6. Shape'
  BY <1>1, <1>2, <1>4 DEF Shape, Merging, Idle, Empty
<1>7. Conserved(K)' /\ MergeConserved(K)' /\ InOrder' /\ OnDisk(K)'
  BY <1>1, <1>2, <1>3 DEF Conserved, Here, Written, MergeConserved, InOrder, Merging, OnDisk
<1>8. InMemory(K)'
  BY <1>1, <1>2 DEF InMemory, SmallRows, Eighth
<1> QED BY <1>5, <1>6, <1>7, <1>8 DEF SortInvOf

\* The digest reads the result and changes nothing else.
LEMMA EndDigestKeeps ==
  ASSUME NEW K, SortInvOf(K), EndDigest
  PROVE  SortInvOf(K)'
<1>1. Typed(K) /\ Shape /\ Conserved(K) /\ MergeConserved(K) /\ InOrder /\ OnDisk(K) /\ InMemory(K)
  BY DEF SortInvOf
<1>2. /\ sorting = "digest" /\ sorting' = "done"
      /\ UNCHANGED <<input, pos, pending, rows, writer, levels, run, level, left, merged, charged, stopped, failures>>
  BY DEF EndDigest
<1>3. Typed(K)' /\ Shape'
  BY <1>1, <1>2 DEF Typed, Shape, Merging, Idle, Empty
<1>4. Conserved(K)' /\ MergeConserved(K)' /\ InOrder' /\ OnDisk(K)'
  BY <1>1, <1>2 DEF Conserved, Here, Written, MergeConserved, InOrder, Merging, OnDisk
<1>5. InMemory(K)'
  BY <1>1, <1>2 DEF InMemory, SmallRows, Eighth
<1> QED BY <1>3, <1>4, <1>5 DEF SortInvOf

\* A step that leaves the sort alone.
LEMMA UntouchedKeeps ==
  ASSUME NEW K, SortInvOf(K), CancelSort \/ UNCHANGED sortVars
  PROVE  SortInvOf(K)'
<1>1. Typed(K) /\ Shape /\ Conserved(K) /\ MergeConserved(K) /\ InOrder /\ OnDisk(K) /\ InMemory(K)
  BY DEF SortInvOf
<1>2. UNCHANGED <<input, sorting, pos, pending, rows, writer, levels, run, level, left, merged, charged>>
  BY DEF CancelSort, sortVars
<1>3. Typed(K)' /\ Shape'
  BY <1>1, <1>2 DEF Typed, Shape, Merging, Idle, Empty
<1>4. Conserved(K)' /\ MergeConserved(K)' /\ InOrder' /\ OnDisk(K)'
  BY <1>1, <1>2 DEF Conserved, Here, Written, MergeConserved, InOrder, Merging, OnDisk, Partner
<1>5. InMemory(K)'
  BY <1>1, <1>2 DEF InMemory, SmallRows, Eighth
<1> QED BY <1>3, <1>4, <1>5 DEF SortInvOf

\* What the spools are charged.
LEMMA ChargedOf ==
  \A K : K \subseteq SortRows =>
     \A r, m, v \in SpoolsOf(K), ls \in Seq(SpoolsOf(K)) :
        Charged(r) + Charged(m) + Charged(v) + Sum([i \in DOMAIN ls |-> Charged(ls[i])])
          = W(FileOf(K), r.rows) + W(FileOf(K), m.rows) + W(FileOf(K), v.rows) + LW(FileOf(K), ls)
<1> SUFFICES ASSUME NEW K, K \subseteq SortRows, NEW r \in SpoolsOf(K), NEW m \in SpoolsOf(K), NEW v \in SpoolsOf(K),
                    NEW ls \in Seq(SpoolsOf(K))
             PROVE  Charged(r) + Charged(m) + Charged(v) + Sum([i \in DOMAIN ls |-> Charged(ls[i])])
                      = W(FileOf(K), r.rows) + W(FileOf(K), m.rows) + W(FileOf(K), v.rows) + LW(FileOf(K), ls)
  OBVIOUS
<1>1. ASSUME NEW p \in SpoolsOf(K) PROVE Charged(p) = W(FileOf(K), p.rows)
  <2>1. p.rows \in Seq(K) /\ (~p.is => p.rows = <<>>)
    BY SpoolFacts
  <2>2. file_bytes(p.rows) = W(FileOf(K), p.rows)
    BY <2>1, SizesAreWeights
  <2>3. ~p.is => W(FileOf(K), p.rows) = 0
    BY <2>1, WEmpty
  <2> QED BY <2>2, <2>3 DEF Charged
<1>2. [i \in DOMAIN ls |-> Charged(ls[i])] = LVals(FileOf(K), ls)
  <2>1. \A i \in DOMAIN ls : ls[i] \in SpoolsOf(K)
    BY LenProperties, ElementOfSeq
  <2> QED BY <1>1, <2>1 DEF LVals
<1> QED BY <1>1, <1>2 DEF LW

\* What the quota is charged with is what the files on disk hold.
LEMMA Accounting ==
  ASSUME NEW K, Typed(K), OnDisk(K)
  PROVE  DiskAccounted /\ Owned \in Nat /\ file_bytes(input) \in Nat /\ charged = file_bytes(input) + Owned
         /\ file_bytes(input) = W(FileOf(K), input)
<1>1. PICK w \in Weights(K) : w = FileOf(K)
  BY SizesAreWeights DEF Typed
<1>2. PICK a, c, d, e, f \in Nat :
        /\ a = W(w, input) /\ c = LW(w, levels) /\ d = W(w, run.rows)
        /\ e = W(w, merged.rows) /\ f = W(w, writer.rows)
  BY SortAmounts
<1>3. Owned = d + e + f + c
  <2>1. Owned = W(FileOf(K), run.rows) + W(FileOf(K), merged.rows) + W(FileOf(K), writer.rows) + LW(FileOf(K), levels)
    BY ChargedOf DEF Owned, Typed
  <2> QED BY <1>1, <1>2, <2>1
<1>4. file_bytes(input) = a
  BY <1>1, <1>2, SizesAreWeights DEF Typed
<1>5. charged = a + d + e + f + c
  BY <1>1, <1>2 DEF OnDisk
<1> QED BY <1>1, <1>2, <1>3, <1>4, <1>5 DEF DiskAccounted

\* A sort that fails gives back what its spools were charged.
LEMMA FailKeeps ==
  ASSUME NEW K, SortInvOf(K), NEW n \in Int, Fail(n)
  PROVE  SortInvOf(K)'
<1>1. Typed(K) /\ Shape /\ Conserved(K) /\ MergeConserved(K) /\ InOrder /\ OnDisk(K) /\ InMemory(K)
  BY DEF SortInvOf
<1>2. /\ sorting' = "failed" /\ charged' = charged + n - (Owned + n) /\ levels' = <<>> /\ level' = 0
      /\ run' = None /\ merged' = None /\ writer' = None /\ left' = <<None, None>>
      /\ rows' = <<>> /\ pending' = <<>>
      /\ UNCHANGED <<input, pos, stopped>>
  BY DEF Fail, Counted
<1>3. ~None.is /\ None.rows = <<>> /\ None \in SpoolsOf(K)
  BY SpoolFacts
<1>4. left' \in Seq(SpoolsOf(K)) /\ Len(left') = 2 /\ left'[1].rows = <<>> /\ left'[2].rows = <<>>
  BY <1>2, <1>3
<1>5. <<>> \in Seq(K) /\ <<>> \in Seq(SpoolsOf(K)) /\ Len(<<>>) = 0
  BY EmptySeq
<1>6. PICK a, o \in Nat : a = file_bytes(input) /\ o = Owned
  BY <1>1, Accounting
<1>7. charged' = a
  BY <1>1, <1>2, <1>6, Accounting
<1>8. charged' \in Int /\ charged' <= SortDisk
  BY <1>1, <1>6, <1>7, Accounting, SortConstants DEF Typed
<1>9. Typed(K)'
  BY <1>1, <1>2, <1>3, <1>4, <1>5, <1>8 DEF Typed
<1>10. Shape'
  BY <1>2, <1>3, <1>4 DEF Shape, Merging, Idle, Empty
<1>11. Conserved(K)' /\ MergeConserved(K)'
  BY <1>2 DEF Conserved, MergeConserved, Merging
<1>12. InOrder'
  BY <1>2, <1>3, <1>4, <1>5, EmptyOrdered DEF InOrder, Merging
<1>13. OnDisk(K)'
  <2>1. PICK w \in Weights(K) : w = FileOf(K)
    BY <1>1, SizesAreWeights DEF Typed
  <2>2. a = W(w, input) /\ W(w, <<>>) = 0 /\ LW(w, <<>>) = 0
    BY <1>1, <1>6, <2>1, Accounting, WEmpty, LWEmpty
  <2>3. charged' = a + 0 + 0 + 0 + 0
    BY <1>7
  <2> QED BY <1>2, <1>3, <2>1, <2>2, <2>3 DEF OnDisk
<1>14. InMemory(K)'
  <2>1. W(SizeOf(K), <<>>) = 0 /\ SmallRows' = SmallRows
    BY <1>2, WEmpty DEF SmallRows
  <2>2. Eighth \in Nat
    BY SortConstants DEF Eighth
  <2>3. SmallRows => \A r \in K : r.size <= Eighth
    BY <1>1 DEF InMemory
  <2>4. 0 <= 3 * Eighth
    BY <2>2
  <2> QED BY <1>2, <2>1, <2>3, <2>4 DEF InMemory, Eighth
<1> QED BY <1>9, <1>10, <1>11, <1>12, <1>13, <1>14 DEF SortInvOf

\* One row weighs its own weight.
LEMMA OneRow ==
  ASSUME NEW K, NEW s \in Seq(K), Len(s) <= 1, s # <<>>
  PROVE  s[1] \in K /\ \A w \in Weights(K) : W(w, s) = w[s[1]]
<1>1. Len(s) = 1
  <2>1. PICK n \in Nat : n = Len(s)
    BY LenProperties
  <2>2. n # 0 /\ n <= 1
    BY <2>1, EmptySeq
  <2> QED BY <2>1, <2>2
<1>2. s[1] \in K
  BY <1>1, ElementOfSeq
<1>3. ASSUME NEW w \in Weights(K) PROVE W(w, s) = w[s[1]]
  <2>1. PICK t \in Seq(K) : t = Tail(s)
    BY HeadTailProperties
  <2>2. Len(t) = 0
    BY <1>1, <2>1, HeadTailProperties
  <2>3. t = <<>>
    BY <2>2, EmptySeq
  <2>4. W(w, s) = w[s[1]] + W(w, t)
    BY <2>1, WTail
  <2>5. w[s[1]] \in Nat
    BY <1>2 DEF Weights
  <2> QED BY <2>3, <2>4, <2>5, WEmpty
<1> QED BY <1>2, <1>3

\* The row that is read next, and what the input has delivered with it.
LEMMA NextChunkRow ==
  ASSUME NEW K, Typed(K),
         UNCHANGED input, pos' = IF pending = <<>> /\ pos < Len(input) THEN pos + 1 ELSE pos
  PROVE  /\ Source \in Seq(K) /\ Len(Source) <= 1 /\ pos' \in 0 .. Len(input)
         /\ Source = <<>> => pending = <<>> /\ pos' = Len(input)
         /\ \A w \in Weights(K) :
               SumTo(Vals(w, input), pos') + W(w, pending) = SumTo(Vals(w, input), pos) + W(w, Source)
<1>1. PICK s \in Seq(K) : s = input
  BY DEF Typed
<1>2. PICK n \in 0 .. Len(s) : n = pos
  BY <1>1 DEF Typed
<1>3. Len(s) \in Nat
  BY LenProperties
<1>4. CASE pending # <<>>
  <2>1. Source = pending /\ pos' = pos
    BY <1>4 DEF Source
  <2>2. ASSUME NEW w \in Weights(K)
        PROVE  SumTo(Vals(w, input), pos') + W(w, pending) = SumTo(Vals(w, input), pos) + W(w, Source)
    BY <2>1
  <2> QED BY <1>4, <2>1, <2>2 DEF Typed
<1>5. CASE pending = <<>> /\ n < Len(s)
  <2>1. Source = <<s[n + 1]>> /\ pos' = n + 1
    BY <1>1, <1>2, <1>5 DEF Source
  <2>2. n + 1 \in 1 .. Len(s) /\ n + 1 \in 0 .. Len(s)
    BY <1>3, <1>5
  <2>3. PICK x \in K : x = s[n + 1]
    BY <2>2, ElementOfSeq
  <2>4. PICK t \in Seq(K) : t = <<x>>
    <3>1. <<x>> \in Seq(K)
      OBVIOUS
    <3> QED BY <3>1
  <2>5. Len(t) = 1 /\ t[1] = x /\ t # <<>>
    BY <2>4
  <2>6. ASSUME NEW w \in Weights(K)
        PROVE  SumTo(Vals(w, input), pos') + W(w, pending) = SumTo(Vals(w, input), pos) + W(w, Source)
    <3>1. PICK y \in Nat : y = w[x]
      BY DEF Weights
    <3>2. PICK d \in Int : d = SumTo(Vals(w, s), n)
      BY Delivered
    <3>3. SumTo(Vals(w, s), n + 1) = d + y
      BY <1>5, <2>3, <3>1, <3>2, Delivered
    <3>4. W(w, t) = y
      <4>1. Len(t) <= 1 /\ t # <<>>
        BY <2>5
      <4>2. \A v \in Weights(K) : W(v, t) = v[t[1]]
        BY <4>1, OneRow
      <4> QED BY <2>5, <3>1, <4>2
    <3>5. W(w, pending) = 0 /\ W(w, Source) = y
      BY <1>5, <2>1, <2>3, <2>4, <3>4, WEmpty
    <3>6. SumTo(Vals(w, input), pos') = d + y /\ SumTo(Vals(w, input), pos) = d
      BY <1>1, <1>2, <2>1, <3>2, <3>3
    <3>7. (d + y) + 0 = d + y
      OBVIOUS
    <3> QED BY <3>5, <3>6, <3>7
  <2>7. Source = t
    BY <2>1, <2>3, <2>4
  <2> QED BY <1>1, <2>1, <2>2, <2>5, <2>6, <2>7
<1>6. CASE pending = <<>> /\ ~(n < Len(s))
  <2>1. Source = pending /\ pos' = pos /\ pos = Len(input)
    BY <1>1, <1>2, <1>3, <1>6 DEF Source
  <2>2. ASSUME NEW w \in Weights(K)
        PROVE  SumTo(Vals(w, input), pos') + W(w, pending) = SumTo(Vals(w, input), pos) + W(w, Source)
    BY <2>1
  <2> QED BY <1>6, <2>1, <2>2 DEF Typed
<1> QED BY <1>4, <1>5, <1>6

\* A row that is read joins the run, waits for the next one, or ends the input.
LEMMA ReadKeeps ==
  ASSUME NEW K, SortInvOf(K), ReadRow
  PROVE  SortInvOf(K)'
<1>1. Typed(K) /\ Shape /\ Conserved(K) /\ MergeConserved(K) /\ InOrder /\ OnDisk(K) /\ InMemory(K)
  BY DEF SortInvOf
<1>2. /\ sorting = "read" /\ level' = 0
      /\ pos' = IF pending = <<>> /\ pos < Len(input) THEN pos + 1 ELSE pos
      /\ UNCHANGED <<input, levels, run, left, merged, charged, stopped, failures>>
  BY DEF ReadRow
<1>3. /\ ~writer.is /\ ~run.is /\ ~merged.is /\ writer.rows = <<>> /\ run.rows = <<>> /\ merged.rows = <<>> /\ Idle
      /\ K \subseteq SortRows /\ SizeOf(K) \in Weights(K)
  BY <1>1, <1>2, SpoolFacts, SizesAreWeights DEF Shape, Typed, Merging
<1>4. /\ Source \in Seq(K) /\ Len(Source) <= 1 /\ pos' \in 0 .. Len(input)
      /\ Source = <<>> => pending = <<>> /\ pos' = Len(input)
      /\ \A w \in Weights(K) :
            SumTo(Vals(w, input), pos') + W(w, pending) = SumTo(Vals(w, input), pos) + W(w, Source)
  BY <1>1, <1>2, NextChunkRow
<1>5. PICK t \in Seq(K) : t = Source /\ Len(t) <= 1
  BY <1>4
<1>6. PICK r \in Seq(K) : r = rows
  BY <1>1 DEF Typed
<1>7. OnDisk(K)'
  <2>1. writer'.rows = <<>>
    <3>1. writer' = writer \/ writer' = None \/ writer' = Some(<<>>)
      BY DEF ReadRow
    <3> QED BY <1>3, <3>1, EmptySeq, SpoolFacts
  <2> QED BY <1>1, <1>2, <1>3, <2>1 DEF OnDisk
<1>8. ASSUME NEW w \in Weights(K), NEW r2 \in Seq(K), NEW t2 \in Seq(K), rows' = r2, pending' = t2,
             W(w, r2) + W(w, t2) = W(w, r) + W(w, t), writer'.rows = <<>>
      PROVE  (SumTo(Vals(w, input), pos) = Here(w))'
  <2>1. SumTo(Vals(w, input), pos) = Here(w)
    BY <1>1, <1>2 DEF Conserved
  <2>2. PICK a, b, c, a2, b2, a3 \in Nat :
          /\ a = W(w, pending) /\ b = W(w, r) /\ c = LW(w, levels) /\ a3 = W(w, t) /\ a2 = W(w, t2) /\ b2 = W(w, r2)
    BY <1>1, <1>6, SortAmounts, WeighedFacts DEF WeighedOf
  <2>3. W(w, <<>>) = 0
    BY WEmpty
  <2>4. PICK d, d2 \in Int : d = SumTo(Vals(w, input), pos) /\ d2 = SumTo(Vals(w, input), pos')
    <3>1. PICK s \in Seq(K) : s = input
      BY <1>1 DEF Typed
    <3>2. PICK m \in 0 .. Len(s) : m = pos
      BY <1>1, <3>1 DEF Typed
    <3>3. PICK m2 \in 0 .. Len(s) : m2 = pos'
      BY <1>4, <3>1
    <3>4. SumTo(Vals(w, s), m) \in Int /\ SumTo(Vals(w, s), m2) \in Int
      BY Delivered
    <3> QED BY <3>1, <3>2, <3>3, <3>4
  <2>5. d2 + a = d + a3
    BY <1>4, <1>5, <2>2, <2>4
  <2>6. b2 + a2 = b + a3
    BY <1>8, <2>2
  <2>7. Here(w) = a + b + c + 0 + 0 + 0
    BY <1>2, <1>3, <1>6, <2>2, <2>3 DEF Here, Written
  <2>8. Here(w)' = a2 + b2 + c + 0 + 0 + 0
    <3>1. Written(w)' = 0
      BY <1>8, <2>3 DEF Written
    <3> QED BY <1>2, <1>3, <1>8, <2>2, <2>3, <3>1 DEF Here
  <2>9. d = a + b + c + 0 + 0 + 0
    BY <2>1, <2>4, <2>7
  <2>10. d2 = a2 + b2 + c + 0 + 0 + 0
    BY <2>5, <2>6, <2>9
  <2>11. SumTo(Vals(w, input), pos)' = d2
    BY <1>2, <2>4
  <2> QED BY <2>8, <2>10, <2>11
<1>9. SmallRows' = SmallRows /\ Eighth' = Eighth /\ Eighth \in Nat
  BY <1>2, SortConstants DEF SmallRows, Eighth
<1>10. CASE Source # <<>> /\ ~Full(Source[1])
  <2>1. rows' = Append(rows, Source[1]) /\ pending' = <<>> /\ sorting' = sorting /\ writer' = writer
    BY <1>10 DEF ReadRow
  <2>2. PICK x \in K : x = t[1] /\ \A w \in Weights(K) : W(w, t) = w[x]
    <3>1. t # <<>>
      BY <1>5, <1>10
    <3> QED BY <1>5, <3>1, OneRow
  <2>3. PICK r2 \in Seq(K) : r2 = Append(r, x)
    BY AppendProperties
  <2>4. rows' = r2
    BY <1>5, <1>6, <2>1, <2>2, <2>3
  <2>5. <<>> \in Seq(K) /\ Len(<<>>) = 0
    BY EmptySeq
  <2>6. ASSUME NEW w \in Weights(K)
        PROVE  W(w, r2) + W(w, <<>>) = W(w, r) + W(w, t) /\ W(w, r2) = W(w, r) + w[x] /\ W(w, r) \in Nat /\ w[x] \in Nat
    <3>1. W(w, r2) = W(w, r) + w[x] /\ W(w, <<>>) = 0 /\ W(w, r) \in Nat /\ w[x] \in Nat
      BY <2>3, WeighedFacts DEF WeighedOf
    <3> QED BY <2>2, <3>1
  <2>7. Typed(K)'
    BY <1>1, <1>2, <1>4, <2>1, <2>4, <2>5 DEF Typed
  <2>8. Shape'
    BY <1>2, <1>3, <2>1 DEF Shape, Merging, Idle
  <2>9. Conserved(K)'
    <3> SUFFICES ASSUME NEW w \in Weights(K) PROVE (SumTo(Vals(w, input), pos) = Here(w))'
      BY DEF Conserved
    <3>1. W(w, r2) + W(w, <<>>) = W(w, r) + W(w, t)
      BY <2>6
    <3>2. PICK t2 \in Seq(K) : t2 = <<>>
      BY <2>5
    <3>3. W(w, r2) + W(w, t2) = W(w, r) + W(w, t)
      BY <3>1, <3>2
    <3>4. rows' = r2 /\ pending' = t2 /\ writer'.rows = <<>>
      BY <1>3, <2>1, <2>4, <3>2
    <3> QED BY <1>8, <3>3, <3>4
  <2>10. MergeConserved(K)' /\ InOrder'
    BY <1>1, <1>2, <2>1 DEF MergeConserved, Merging, InOrder
  <2>11. InMemory(K)'
    <3> SUFFICES ASSUME SmallRows PROVE (\A q \in K : q.size <= Eighth) /\ W(SizeOf(K), r2) <= 3 * Eighth
      BY <1>9, <2>4 DEF InMemory
    <3>1. \A q \in K : q.size <= Eighth
      BY <1>1 DEF InMemory
    <3>2. PICK w \in Weights(K) : w = SizeOf(K)
      BY <1>3
    <3>3. w[x] = x.size /\ x.size \in Nat /\ x.size <= Eighth
      BY <1>3, <3>1, <3>2 DEF SizeOf, SortRows
    <3>4. PICK a, b, y \in Nat : a = W(w, r) /\ b = W(w, r2) /\ y = x.size
      BY <2>3, <3>3, WeighedFacts DEF WeighedOf
    <3>5. b = a + y
      BY <2>6, <3>3, <3>4
    <3>6. CASE r = <<>>
      <4>1. a = 0
        BY <3>4, <3>6, WEmpty
      <4> QED BY <1>9, <3>1, <3>2, <3>3, <3>4, <3>5, <4>1
    <3>7. CASE r # <<>>
      <4>1. memory_size(r) = a
        BY <1>3, <3>2, <3>4, SizesAreWeights
      <4>2. ~(a + y > Limit)
        BY <1>5, <1>6, <1>10, <2>2, <3>4, <3>7, <4>1 DEF Full
      <4>3. SortRun <= 3 * Eighth
        BY DEF SmallRows, Eighth
      <4>4. Limit <= SortRun /\ Limit \in Int
        BY SortConstants DEF Limit
      <4>5. b <= 3 * Eighth
        BY <1>9, <3>5, <4>2, <4>3, <4>4, SortConstants
      <4> QED BY <3>1, <3>2, <3>4, <4>5
    <3> QED BY <3>6, <3>7
  <2> QED BY <1>7, <2>7, <2>8, <2>9, <2>10, <2>11 DEF SortInvOf
<1>11. CASE ~(Source # <<>> /\ ~Full(Source[1]))
  <2>1. /\ pending' = t /\ rows' \in sort_unstable_by(r)
        /\ sorting' = (IF rows = <<>> THEN "flatten" ELSE "write")
        /\ writer' = (IF rows = <<>> THEN None ELSE Some(<<>>))
    BY <1>5, <1>6, <1>11 DEF ReadRow
  <2>2. PICK r2 \in Seq(K) : /\ r2 = rows' /\ Len(r2) = Len(r) /\ Ordered(r2)
                             /\ \A w \in Weights(K) : W(w, r2) = W(w, r)
    <3>1. PICK r2 \in sort_unstable_by(r) : r2 = rows'
      BY <2>1
    <3>2. r2 \in Seq(K) /\ Len(r2) = Len(r) /\ Ordered(r2)
      <4>1. [i \in K |-> 0] \in Weights(K)
        BY DEF Weights
      <4> QED BY <4>1, WRearranged
    <3>3. \A w \in Weights(K) : W(w, r2) = W(w, r)
      BY WRearranged
    <3> QED BY <3>1, <3>2, <3>3
  <2>3. writer'.rows = <<>> /\ writer' \in SpoolsOf(K) /\ (rows # <<>> => writer'.is) /\ (rows = <<>> => ~writer'.is)
    BY <2>1, EmptySeq, SpoolFacts
  <2>4. rows = <<>> => Source = <<>> /\ pending' = <<>> /\ rows' = <<>>
    <3>1. rows = <<>> => Source = <<>>
      BY <1>11 DEF Full
    <3>2. rows = <<>> => r2 = <<>>
      BY <1>6, <2>2, EmptySeq
    <3> QED BY <1>5, <2>1, <2>2, <3>1, <3>2
  <2>5. Typed(K)'
    BY <1>1, <1>2, <1>4, <1>5, <2>1, <2>2, <2>3 DEF Typed
  <2>6. Shape'
    <3>1. CASE rows = <<>>
      BY <1>2, <1>3, <1>4, <2>1, <2>3, <2>4, <3>1 DEF Shape, Merging, Idle, Empty
    <3>2. CASE rows # <<>>
      BY <1>2, <1>3, <2>1, <2>3, <3>2 DEF Shape, Merging, Idle, Empty
    <3> QED BY <3>1, <3>2
  <2>7. Conserved(K)'
    <3> SUFFICES ASSUME NEW w \in Weights(K) PROVE (SumTo(Vals(w, input), pos) = Here(w))'
      BY DEF Conserved
    <3>1. W(w, r2) + W(w, t) = W(w, r) + W(w, t)
      BY <2>2
    <3> QED BY <1>8, <2>1, <2>2, <2>3, <3>1
  <2>8. MergeConserved(K)' /\ InOrder'
    <3>1. ~Merging'
      BY <2>1, <2>3 DEF Merging
    <3>2. Joint(<<>>, rows')
      BY DEF Joint
    <3> QED BY <1>1, <1>2, <2>2, <2>3, <3>1, <3>2, EmptyOrdered DEF MergeConserved, InOrder
  <2>9. InMemory(K)'
    BY <1>1, <1>3, <1>6, <1>9, <2>2 DEF InMemory
  <2> QED BY <1>7, <2>5, <2>6, <2>7, <2>8, <2>9 DEF SortInvOf
<1> QED BY <1>10, <1>11

\* At every moment every row of the input is in exactly one place, every run is sorted
\* and the disk quota is charged with what the files hold.
THEOREM SortInvariance == SortSpec => []SortInv
<1>1. SortInit => SortInv
  <2> SUFFICES ASSUME SortInit PROVE SortInv
    OBVIOUS
  <2>1. input \in Inputs /\ input \in Seq(SortRows)
    BY SortConstants DEF SortInit
  <2>2. PICK s \in Seq(SortRows) : s = input
    BY <2>1
  <2>3. PICK K : K = {s[i] : i \in 1 .. Len(s)}
    OBVIOUS
  <2>4. K \subseteq SortRows /\ s \in Seq(K) /\ Range(s) = K
    <3>1. DOMAIN s = 1 .. Len(s) /\ Len(s) \in Nat /\ s \in [1 .. Len(s) -> SortRows]
      BY LenProperties
    <3>2. s \in [1 .. Len(s) -> K]
      BY <2>3, <3>1
    <3>3. \A i \in 1 .. Len(s) : s[i] \in SortRows
      BY ElementOfSeq
    <3> QED BY <2>3, <3>1, <3>2, <3>3 DEF Range
  <2>5. /\ None \in SpoolsOf(K) /\ ~None.is /\ None.rows = <<>> /\ <<>> \in Seq(K) /\ <<>> \in Seq(SpoolsOf(K))
        /\ Len(<<>>) = 0
    BY EmptySeq, SpoolFacts
  <2>6. left \in Seq(SpoolsOf(K)) /\ Len(left) = 2 /\ left[1].rows = <<>> /\ left[2].rows = <<>>
    BY <2>5 DEF SortInit
  <2>7. PICK F \in Weights(K) : F = FileOf(K)
    BY <2>4, SizesAreWeights
  <2>8. charged = W(F, s) /\ W(F, s) \in Nat
    BY <2>2, <2>4, <2>7, SizesAreWeights, Weighed DEF SortInit
  <2>9. charged <= SortDisk /\ pos \in 0 .. Len(input)
    <3>1. Len(s) \in Nat
      BY LenProperties
    <3> QED BY <2>2, <3>1 DEF SortInit
  <2>10. Typed(K)
    BY <2>1, <2>2, <2>4, <2>5, <2>6, <2>8, <2>9 DEF Typed, SortInit
  <2>11. Shape /\ MergeConserved(K) /\ InOrder
    BY <2>5, <2>6, EmptyOrdered DEF Shape, Merging, Idle, MergeConserved, InOrder, SortInit
  <2>12. Conserved(K)
    <3> SUFFICES ASSUME NEW w \in Weights(K) PROVE SumTo(Vals(w, input), pos) = Here(w)
      BY DEF Conserved
    <3>1. SumTo(Vals(w, s), 0) = 0
      <4>1. 0 \in 0 .. Len(s)
        BY <2>2, <2>9 DEF SortInit
      <4> QED BY <2>4, <4>1, Delivered
    <3>2. Here(w) = 0 + 0 + 0 + 0 + 0 + 0
      BY <2>5, WEmpty, LWEmpty DEF Here, Written, SortInit
    <3> QED BY <2>2, <3>1, <3>2 DEF SortInit
  <2>13. OnDisk(K)
    <3>1. W(F, input) + W(F, run.rows) + W(F, merged.rows) + W(F, writer.rows) + LW(F, levels) = W(F, s) + 0 + 0 + 0 + 0
      BY <2>2, <2>5, WEmpty, LWEmpty DEF SortInit
    <3> QED BY <2>7, <2>8, <3>1 DEF OnDisk
  <2>14. InMemory(K)
    <3>1. W(SizeOf(K), rows) = 0
      BY WEmpty DEF SortInit
    <3>2. 0 <= 3 * Eighth
      BY SortConstants DEF Eighth
    <3>3. SmallRows => \A q \in K : q.size <= Eighth
      BY <2>2, <2>4 DEF SmallRows, Eighth
    <3> QED BY <3>1, <3>2, <3>3 DEF InMemory
  <2> QED BY <2>4, <2>10, <2>11, <2>12, <2>13, <2>14 DEF SortInv, SortInvOf
<1>2. SortInv /\ [SortNext]_sortVars => SortInv'
  <2> SUFFICES ASSUME SortInv, [SortNext]_sortVars PROVE SortInv'
    OBVIOUS
  <2>1. PICK K \in SUBSET SortRows : SortInvOf(K)
    BY DEF SortInv
  <2>2. Stopped => SortInvOf(K)'
    BY <2>1, FailKeeps DEF Stopped
  <2>3. Refused => SortInvOf(K)'
    BY <2>1, FailKeeps DEF Refused
  <2>4. Fault => SortInvOf(K)'
    <3> SUFFICES ASSUME Fault PROVE SortInvOf(K)'
      OBVIOUS
    <3>1. CASE Fail(0)
      BY <2>1, <3>1, FailKeeps
    <3>2. CASE Due # <<>> /\ Fail(Due[1].size + EntryBytes)
      <4>1. Due[1].size + EntryBytes \in Int
        <5>1. PICK r \in Seq(K) : /\ r # <<>> /\ Due = <<r[1]>>
          <6>1. Typed(K)
            BY <2>1 DEF SortInvOf
          <6>2. rows \in Seq(K) /\ left[1].rows \in Seq(K) /\ left[2].rows \in Seq(K)
            BY <6>1, Spools DEF Typed
          <6>3. left[Side].rows \in Seq(K)
            BY <6>2 DEF Side
          <6>4. Due = Head1(rows) \/ Due = Head1(left[Side].rows)
            BY <3>2 DEF Due
          <6> QED BY <3>2, <6>2, <6>3, <6>4 DEF Head1
        <5>2. r[1] \in K
          <6>1. 1 \in 1 .. Len(r)
            BY <5>1, EmptySeq
          <6> QED BY <6>1, ElementOfSeq
        <5>3. Due[1] = r[1]
          BY <5>1
        <5> QED BY <5>2, <5>3, SortConstants DEF SortRows
      <4>2. PICK n \in Int : n = Due[1].size + EntryBytes
        BY <4>1
      <4> QED BY <2>1, <3>2, <4>2, FailKeeps
    <3> QED BY <3>1, <3>2 DEF Fault
  <2>5. SortInvOf(K)'
    BY <2>1, <2>2, <2>3, <2>4, ReadKeeps, WriteKeeps, FinishRunKeeps, PlaceKeeps, CarryKeeps, MergeRowKeeps,
       FinishMergeKeeps, TakeLevelKeeps, FinishLevelKeeps, EndLevelsKeeps, EndDigestKeeps, UntouchedKeeps
       DEF SortNext, SortStep
  <2> QED BY <2>5 DEF SortInv
<1> QED BY <1>1, <1>2, PTL DEF SortSpec

\* The invariant says what a finished sort promises.
LEMMA InvariantImplies == SortInv => SortExact
<1> SUFFICES ASSUME SortInv PROVE SortExact
  OBVIOUS
<1>1. PICK K \in SUBSET SortRows : SortInvOf(K)
  BY DEF SortInv
<1>2. Typed(K) /\ Shape /\ Conserved(K) /\ InOrder /\ OnDisk(K) /\ InMemory(K) /\ K \subseteq SortRows
  BY <1>1 DEF SortInvOf, Typed
<1>3. DiskAccounted
  BY <1>2, Accounting
<1>4. SortTypeOK
  <2>1. charged \in 0 .. SortDisk
    <3>1. charged >= 0
      <4>1. PICK a, o \in Nat : a = file_bytes(input) /\ o = Owned
        BY <1>2, Accounting
      <4>2. charged = a + o
        BY <1>2, <4>1, Accounting
      <4> QED BY <4>2
    <3> QED BY <1>2, <3>1, SortConstants DEF Typed
  <2>2. \A s \in Range(levels) \cup {run, merged} : s.is \in BOOLEAN
    <3>1. \A s \in Range(levels) : s \in SpoolsOf(K)
      BY <1>2, Spools DEF Range
    <3>2. run \in SpoolsOf(K) /\ merged \in SpoolsOf(K)
      BY <1>2 DEF Typed
    <3>3. \A p \in SpoolsOf(K) : p.is \in BOOLEAN
      BY SpoolFacts
    <3> QED BY <3>1, <3>2, <3>3
  <2> QED BY <1>2, <2>1, <2>2 DEF SortTypeOK, Typed
<1>5. SortedPermutation
  <2> SUFFICES ASSUME sorting = "done"
               PROVE  /\ Ordered(merged.rows)
                      /\ \A r \in Range(input) \cup Range(merged.rows) : Count(input, r) = Count(merged.rows, r)
    BY DEF SortedPermutation
  <2>1. PICK s \in Seq(K) : s = input
    BY <1>2 DEF Typed
  <2>2. PICK m \in Seq(K) : m = merged.rows
    BY <1>2, Spools
  <2>3. ASSUME NEW x PROVE Count(s, x) = Count(m, x)
    <3>1. PICK w \in Weights(K) : w = One(K, x)
      BY <1>2, SizesAreWeights
    <3>2. Count(s, x) = W(w, s) /\ Count(m, x) = W(w, m)
      BY <1>2, <3>1, CountIsWeight
    <3>3. SumTo(Vals(w, input), pos) = Here(w)
      BY <1>2 DEF Conserved
    <3>4. pos = Len(input) /\ Empty /\ ~run.is /\ \A i \in 1 .. Len(levels) : ~levels[i].is
      BY <1>2 DEF Shape
    <3>5. SumTo(Vals(w, input), pos) = W(w, s)
      <4>1. Len(s) \in 0 .. Len(s)
        <5>1. Len(s) \in Nat
          BY LenProperties
        <5> QED BY <5>1
      <4>2. SumTo(Vals(w, s), Len(s)) = W(w, s)
        BY <4>1, Delivered
      <4> QED BY <2>1, <3>4, <4>2
    <3>6. LW(w, levels) = 0
      BY <1>2, <3>4, WeighedFacts DEF LevelsOf, Typed
    <3>7. run.rows = <<>>
      BY <1>2, <3>4, SpoolFacts DEF Typed
    <3>8. PICK e \in Nat : e = W(w, m)
      BY Weighed
    <3>9. Here(w) = 0 + 0 + 0 + 0 + e + 0
      BY <2>2, <3>4, <3>6, <3>7, <3>8, WEmpty DEF Here, Written, Empty
    <3>10. 0 + 0 + 0 + 0 + e + 0 = e
      OBVIOUS
    <3>11. W(w, s) = W(w, m)
      BY <3>3, <3>5, <3>8, <3>9, <3>10
    <3> QED BY <3>2, <3>11
  <2> QED BY <1>2, <2>1, <2>2, <2>3 DEF InOrder
<1>6. HeldWithinLease
  <2> SUFFICES ASSUME SmallRows PROVE Held <= SortMemory \div 2
    BY DEF HeldWithinLease
  <2>1. PICK w \in Weights(K) : w = SizeOf(K)
    BY <1>2, SizesAreWeights
  <2>2. PICK g \in Nat : g = Eighth
    BY SortConstants DEF Eighth
  <2>3. \A q \in K : w[q] <= g /\ w[q] \in Nat
    BY <1>2, <2>1, <2>2 DEF InMemory, SizeOf, SortRows
  <2>4. ASSUME NEW s \in Seq(K), Len(s) <= 1 PROVE W(w, s) <= g /\ W(w, s) \in Nat
    <3>1. CASE s = <<>>
      <4>1. W(w, s) = 0
        BY <3>1, WEmpty
      <4> QED BY <4>1
    <3>2. CASE s # <<>>
      BY <2>3, <2>4, <3>2, OneRow
    <3> QED BY <3>1, <3>2
  <2>5. ASSUME NEW s \in Seq(K) PROVE Head1(s) \in Seq(K) /\ Len(Head1(s)) <= 1 /\ (s = <<>> => Head1(s) = <<>>)
    <3>1. CASE s = <<>>
      BY <3>1, EmptySeq DEF Head1
    <3>2. CASE s # <<>>
      <4>1. 1 \in 1 .. Len(s)
        BY <3>2, EmptySeq
      <4>2. PICK x \in K : x = s[1]
        BY <4>1, ElementOfSeq
      <4>3. <<x>> \in Seq(K) /\ Len(<<x>>) = 1
        OBVIOUS
      <4> QED BY <3>2, <4>2, <4>3 DEF Head1
    <3> QED BY <3>1, <3>2
  <2>6. PICK p, r, a, b \in Seq(K) : /\ p = pending /\ r = rows /\ a = Head1(left[1].rows) /\ b = Head1(left[2].rows)
    BY <1>2, <2>5, Spools DEF Typed
  <2>7. memory_size(p) = W(w, p) /\ memory_size(r) = W(w, r) /\ memory_size(a) = W(w, a) /\ memory_size(b) = W(w, b)
    BY <1>2, <2>1, SizesAreWeights
  <2>8. Len(p) <= 1 /\ Len(a) <= 1 /\ Len(b) <= 1
    BY <1>2, <2>5, <2>6, Spools DEF Typed
  <2>9. PICK np, nr, na, nb \in Nat : np = W(w, p) /\ nr = W(w, r) /\ na = W(w, a) /\ nb = W(w, b)
    BY Weighed
  <2>10. np <= g /\ na <= g /\ nb <= g
    BY <2>4, <2>8, <2>9
  <2>11. nr <= 3 * g
    BY <1>2, <2>1, <2>2, <2>6, <2>9 DEF InMemory
  <2>12. g = SortMemory \div 8 /\ 4 * g <= SortMemory \div 2
    BY <2>2, SortConstants DEF Eighth
  <2>13. Held = nr + np + IF writer.is THEN na + nb ELSE 0
    BY <2>6, <2>7, <2>9 DEF Held
  <2>14. CASE ~writer.is
    <3>1. Held = nr + np + 0
      BY <2>13, <2>14
    <3> QED BY <2>10, <2>11, <2>12, <3>1, SortConstants
  <2>15. CASE writer.is /\ Merging
    <3>1. rows = <<>>
      BY <1>2, <2>15 DEF Shape, Merging, Empty
    <3>2. nr = 0
      BY <2>6, <2>9, <3>1, WEmpty
    <3>3. Held = nr + np + (na + nb)
      BY <2>13, <2>15
    <3> QED BY <2>10, <2>12, <3>2, <3>3, SortConstants
  <2>16. CASE writer.is /\ ~Merging
    <3>1. Idle
      BY <1>2, <2>16 DEF Shape
    <3>2. a = <<>> /\ b = <<>>
      BY <2>6, <3>1 DEF Idle, Head1
    <3>3. na = 0 /\ nb = 0
      BY <2>9, <3>2, WEmpty
    <3>4. Held = nr + np + (na + nb)
      BY <2>13, <2>16
    <3> QED BY <2>10, <2>11, <2>12, <3>3, <3>4, SortConstants
  <2> QED BY <2>14, <2>15, <2>16
<1> QED BY <1>3, <1>4, <1>5, <1>6 DEF SortExact

\* A sort that succeeds has put out exactly the rows of its input, in order, and one
\* that fails or succeeds owns no more disk than its output (ExternalSorter), for every
\* input, row size and quota.
THEOREM SortIsExact == SortSpec => []SortExact
  BY SortInvariance, InvariantImplies, PTL
===============================================================================
