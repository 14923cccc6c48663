-------------------------- MODULE PerfEventBuffer --------------------------
(***************************************************************************)
(* proxies/pmu_event_proxy: the ring buffer that the kernel fills with     *)
(* sample records and PerfEventBuffer reads through RingBufferView, one    *)
(* field after the other, while the kernel goes on writing.  Offsets are   *)
(* virtual: they only grow (modulo the width of size_t) and are reduced    *)
(* modulo the size of the buffer at every access.  A field takes one unit: *)
(* a record is a header with its type and size, the instruction pointer    *)
(* and the group's values.                                                 *)
(***************************************************************************)
EXTENDS Integers, Sequences

CONSTANTS
    data_size,      \* units in the buffer, a power of two
    OffsetModulus,  \* 2^w for w-bit offsets, a multiple of data_size
    RecordSizes,    \* units of a record, header included
    MaxRecords      \* bound: records the kernel writes

ASSUME PerfEventBufferAssumption ==
    /\ data_size \in Nat \ {0} /\ OffsetModulus \in Nat
    /\ OffsetModulus % data_size = 0 /\ OffsetModulus > data_size
    /\ RecordSizes \subseteq 2 .. data_size
    /\ MaxRecords \in Nat

VARIABLES
    ring,       \* contents of the buffer
    data_head,  \* written by the kernel
    data_tail,  \* written by the reader
    writing,    \* the record the kernel has written but not published, or <<>>
    view,       \* RingBufferView of the reader: [head, tail]
    reader,     \* "idle", "parse", "commit"
    fields,     \* fields read so far
    written,    \* history: the records the kernel published
    records     \* history: the records ReadSampleRecord returned

bufferVars ==
    <<ring, data_head, data_tail, writing, view, reader, fields, written, records>>

Offset(o) == o % data_size
Plus(o, n) == (o + n) % OffsetModulus
Distance(head, tail) == (head + OffsetModulus - tail) % OffsetModulus

\* The units of record number n: the header has the size.
RecordUnits(n, size) == [i \in 1 .. size |-> <<n, i, IF i = 1 THEN size ELSE 0>>]
UnitSize(unit) == unit[3]

BufferInit ==
    /\ ring = [o \in 0 .. data_size - 1 |-> <<0, 0, 0>>]
    /\ data_head = 0 /\ data_tail = 0
    /\ writing = <<>>
    /\ view = [head |-> 0, tail |-> 0]
    /\ reader = "idle"
    /\ fields = <<>>
    /\ written = <<>> /\ records = <<>>

(* The kernel, in two steps: the units, where there is room for them, and
   then the head that makes them visible.                                  *)
KernelWrite(size) ==
    /\ writing = <<>>
    /\ Len(written) < MaxRecords
    /\ Distance(data_head, data_tail) + size <= data_size
    /\ writing' = RecordUnits(Len(written) + 1, size)
    /\ ring' = [o \in DOMAIN ring |->
                   LET i == Distance(o, Offset(data_head)) % data_size
                   IN  IF i < size THEN writing'[i + 1] ELSE ring[o]]
    /\ UNCHANGED <<data_head, data_tail, view, reader, fields, written, records>>

KernelPublish ==
    /\ writing # <<>>
    /\ data_head' = Plus(data_head, Len(writing))
    /\ written' = Append(written, writing)
    /\ writing' = <<>>
    /\ UNCHANGED <<ring, data_tail, view, reader, fields, records>>

(* RingBufferView.                                                         *)
ViewSize == Distance(view.head, view.tail)
Peek(o) == ring[Offset(o)]

(* NextEventType() and the beginning of ReadSampleRecord(): GetCurrentView()
   copies the head once.  Nothing to read leaves the reader idle.          *)
GetCurrentView ==
    /\ reader = "idle"
    /\ Distance(data_head, data_tail) >= 1
    /\ view' = [head |-> data_head, tail |-> data_tail]
    /\ reader' = "parse"
    /\ fields' = <<>>
    /\ UNCHANGED <<ring, data_head, data_tail, writing, written, records>>

(* Parse(), field by field, up to the size that the header gives.          *)
ReadField ==
    /\ reader = "parse"
    /\ ViewSize >= 1
    /\ fields' = Append(fields, Peek(view.tail))
    /\ view' = [view EXCEPT !.tail = Plus(@, 1)]
    /\ reader' = IF Len(fields') = UnitSize(fields'[1]) THEN "commit" ELSE "parse"
    /\ UNCHANGED <<ring, data_head, data_tail, writing, written, records>>

CommitReads ==
    /\ reader = "commit"
    /\ data_tail' = view.tail
    /\ records' = Append(records, fields)
    /\ reader' = "idle"
    /\ UNCHANGED <<ring, data_head, writing, view, fields, written>>

BufferNext ==
    \/ \E size \in RecordSizes : KernelWrite(size)
    \/ KernelPublish
    \/ GetCurrentView
    \/ ReadField
    \/ CommitReads

BufferSpec == BufferInit /\ [][BufferNext]_bufferVars

(* What ReadSampleRecord returns is, record by record and field by field,
   what the kernel published, whatever is written between two reads and
   wherever a record wraps around the end of the buffer; a record is never
   cut off by the view, and the CHECKs of the views and of CommitReads hold.*)
RecordsInOrder ==
    /\ records = SubSeq(written, 1, Len(records))
    /\ reader = "parse" => ViewSize >= 1
    /\ ViewSize <= data_size
    /\ reader = "commit" => Distance(data_head, view.tail) <= data_size
    /\ Distance(data_head, data_tail) <= data_size

-----------------------------------------------------------------------------
(* Why: an inductive invariant.  There is a true offset, that never wraps,
   where each record begins, and the offsets of the code are those modulo
   OffsetModulus.                                                          *)

Units == Nat \X Nat \X Nat

(* A record that says how long it is.                                      *)
Framed(r) == Len(r) \in RecordSizes /\ UnitSize(r[1]) = Len(r)

BufferTypeOK ==
    /\ ring \in [0 .. data_size - 1 -> Units]
    /\ writing \in Seq(Units) /\ (writing # <<>> => Framed(writing))
    /\ written \in Seq(Seq(Units)) /\ \A k \in 1 .. Len(written) : Framed(written[k])
    /\ records \in Seq(Seq(Units)) /\ fields \in Seq(Units)
    /\ view \in [head : Nat, tail : Nat] /\ data_head \in Nat /\ data_tail \in Nat
    /\ reader \in {"idle", "parse", "commit"}

(* The reader is in the first record that it has not returned.             *)
ReaderInv ==
    /\ Len(records) <= Len(written)
    /\ \A k \in 1 .. Len(records) : records[k] = written[k]
    /\ reader # "idle" =>
           LET r == written[Len(records) + 1]
           IN  /\ Len(records) < Len(written)
               /\ IF reader = "parse" THEN Len(fields) < Len(r) ELSE Len(fields) = Len(r)
               /\ \A i \in 1 .. Len(fields) : fields[i] = r[i]

Progress == IF reader = "idle" THEN 0 ELSE Len(fields)

(* P[k] is the true offset of record k, H of the next one to be written and
   T of the first one not returned.                                        *)
Places(P) ==
    /\ P \in Seq(Nat) /\ Len(P) = Len(written) + 1
    /\ \A k \in 1 .. Len(written) : P[k + 1] = P[k] + Len(written[k])
    /\ \A j, k \in 1 .. Len(P) : j <= k => P[j] <= P[k]

Offsets(P) ==
    LET H == P[Len(written) + 1]
        T == P[Len(records) + 1]
    IN  /\ H + Len(writing) <= T + data_size
        /\ data_head = H % OffsetModulus /\ data_tail = T % OffsetModulus
        /\ view.tail = (T + Progress) % OffsetModulus
        /\ \E h \in Len(records) + 1 .. Len(written) + 1 :
               /\ view.head = P[h] % OffsetModulus
               /\ reader # "idle" => h > Len(records) + 1

(* What has not been returned yet is in the ring.                          *)
Contents(P) ==
    /\ \A k \in Len(records) + 1 .. Len(written) : \A i \in 1 .. Len(written[k]) :
           ring[(P[k] + (i - 1)) % data_size] = written[k][i]
    /\ \A i \in 1 .. Len(writing) :
           ring[(P[Len(written) + 1] + (i - 1)) % data_size] = writing[i]

BufferInv ==
    /\ BufferTypeOK /\ ReaderInv
    /\ \E P \in Seq(Nat) : Places(P) /\ Offsets(P) /\ Contents(P)
=============================================================================
