-------------------------- MODULE BinaryLogChannel --------------------------
(***************************************************************************)
(* orchestrator/binary_log_channel.{h,cc} and util/byte_io.cc: the stream  *)
(* of log entries from the orchestrator to its parent process.  An entry   *)
(* is a header with the size of the body, then the body.  Read and Write   *)
(* move as many bytes as the pipe takes or holds and try again; either     *)
(* process may go away between two system calls.                           *)
(*                                                                         *)
(* A byte is a record that knows what it is a byte of, a header has        *)
(* HeaderBytes of them and a body BodyBytes[kind].  The descriptor is a    *)
(* pipe or a socket pair, as binary_log_channel.h asks for: a write fails  *)
(* because the reader is gone, and then fails for good.  EINTR repeats the *)
(* call and changes nothing.  One thread sends and one receives, as in the *)
(* orchestrator, so lock_ is always free.                                  *)
(***************************************************************************)
EXTENDS SpanUtil, SequencesExt

CONSTANTS
    EntryKinds,     \* the kinds of entries
    BodyBytes,      \* the size of the body of each kind
    HeaderBytes,    \* sizeof(uint64_t)
    PipeBytes       \* the capacity of the pipe

ASSUME ChannelAssumption ==
    /\ BodyBytes \in [EntryKinds -> Nat \ {0}]   \* a timestamp at least
    /\ HeaderBytes \in Nat \ {0}
    /\ PipeBytes \in Nat \ {0}

VARIABLES
    producer_ok,    \* constructor_status_ of the producer: ClearFlags worked
    pipe,           \* the bytes in the pipe, the oldest first
    writer_open,    \* the producer's end
    reader_open,    \* the consumer's end
    sending,        \* what Send still has to write; <<>> outside Send
    send_status,    \* what the last Send returned
    begun,          \* entries that Send was called with
    written,        \* entries whose last byte has entered the pipe
    reading,        \* the bytes of the entry that Receive has read so far
    received,       \* entries that Receive has returned
    cut,            \* the writer went away inside an entry
    recv_status     \* "ok", or the error the consumer stopped at

channelVars == <<producer_ok, pipe, writer_open, reader_open, sending,
                 send_status, begun, written, reading, received, cut,
                 recv_status>>

\* An entry of the log: what it is about and which of its kind it is.
Entries == [kind : EntryKinds, n : Nat]
EntryBytes(e) == HeaderBytes + BodyBytes[e.kind]

Header(size) == [k \in 1..HeaderBytes |-> [of |-> "size", value |-> size, at |-> k]]
Body(e) == [k \in 1..BodyBytes[e.kind] |-> [of |-> "body", value |-> e, at |-> k]]

ChannelInit ==
    /\ producer_ok \in BOOLEAN
    /\ pipe = <<>>
    /\ writer_open = TRUE
    /\ reader_open = TRUE
    /\ sending = <<>>
    /\ send_status = "ok"
    /\ begun = <<>>
    /\ written = <<>>
    /\ reading = <<>>
    /\ received = <<>>
    /\ cut = FALSE
    /\ recv_status = "ok"

----------------------------------------------------------------------------
(* BinaryLogProducer *)

\* Send(entry), up to the first call of write: the header and the body follow
\* each other.  (A Send that returned is one with nothing left to write.)
SendBegin(e) ==
    /\ sending = <<>>
    /\ IF producer_ok
       THEN /\ sending' = Header(BodyBytes[e.kind]) \o Body(e)
            /\ send_status' = "sending"
            /\ begun' = Append(begun, e)
       ELSE /\ send_status' = "internal"
            /\ UNCHANGED <<sending, begun>>
    /\ UNCHANGED <<cut, producer_ok, pipe, writer_open, reader_open, written,
                   reading, received,
                   recv_status>>

\* One write(2) of Write's loop: it blocks while the pipe is full and may take
\* fewer bytes than it was given.
WriteSome(k) ==
    /\ sending # <<>>
    /\ reader_open
    /\ k <= PipeBytes - Len(pipe)
    /\ pipe' = pipe \o SubSeq(sending, 1, k)
    /\ sending' = SubSeq(sending, k + 1, Len(sending))
    /\ written' = IF sending' = <<>> THEN Append(written, Last(begun)) ELSE written
    /\ send_status' = IF sending' = <<>> THEN "ok" ELSE send_status
    /\ UNCHANGED <<cut, producer_ok, writer_open, reader_open, begun, reading,
                   received, recv_status>>

\* Mutant: any error of write(2) is tried again, like EINTR.
WriteFails_Retries ==
    /\ sending # <<>>
    /\ ~reader_open
    /\ UNCHANGED channelVars

\* write(2) finds the reader gone (SIGPIPE is ignored): EndOfChannelError when
\* it was the header's, an errno status when it was the body's.
WriteFails ==
    /\ sending # <<>>
    /\ ~reader_open
    /\ send_status' = IF sending[1].of = "size" THEN "EOC" ELSE "error"
    /\ sending' = <<>>
    /\ UNCHANGED <<cut, producer_ok, pipe, writer_open, reader_open, begun,
                   written, reading,
                   received, recv_status>>

\* ~BinaryLogProducer, or the end of its process in the middle of a Send.
CloseWriter ==
    /\ writer_open' = FALSE
    /\ sending' = <<>>
    /\ cut' = /\ sending # <<>>
              /\ Len(sending) < EntryBytes(Last(begun))

----------------------------------------------------------------------------
(* BinaryLogConsumer, called in a loop until it returns an error *)

HeaderRead == Len(reading) >= HeaderBytes
\* Load64 of the header; writers only ever leave whole headers here.
ProtoSize == reading[1].value
Wanted == IF HeaderRead THEN HeaderBytes + ProtoSize ELSE HeaderBytes

\* ParseFromString of the body.
Parses(bytes) == \E e \in Range(begun) : bytes = Body(e)
Parsed(bytes) == CHOOSE e \in Range(begun) : bytes = Body(e)

\* Both calls of Read in Receive have got what they asked for.
EntryRead(bytes) ==
    /\ Len(bytes) >= HeaderBytes
    /\ Len(bytes) = HeaderBytes + bytes[1].value

\* One read(2) of Read's loop; the one that completes the body ends Receive.
ReadSome(k) ==
    /\ recv_status = "ok"
    /\ reader_open
    /\ k <= Len(pipe)
    /\ k <= Wanted - Len(reading)
    /\ pipe' = SubSeq(pipe, k + 1, Len(pipe))
    /\ LET bytes == reading \o SubSeq(pipe, 1, k)
           body == SubSeq(bytes, HeaderBytes + 1, Len(bytes))
       IN  IF ~EntryRead(bytes)
           THEN /\ reading' = bytes
                /\ UNCHANGED <<received, recv_status>>
           ELSE /\ reading' = <<>>
                /\ IF Parses(body)
                   THEN /\ received' = Append(received, Parsed(body))
                        /\ UNCHANGED recv_status
                   ELSE /\ recv_status' = "data_loss"
                        /\ UNCHANGED received
    /\ UNCHANGED <<cut, producer_ok, writer_open, reader_open, sending,
                   send_status, begun, written>>

\* Mutant: a stream that ends inside an entry ends like any other.
StatusAtEof_AlwaysEoc == "EOC"

\* What Receive makes of a Read that the end of the file cut short.  The errno
\* it reports for a short body was set by something else; an OK status in a
\* StatusOr becomes an internal error.
StatusAtEof ==
    IF reading = <<>> THEN "EOC"
    ELSE IF ~HeaderRead THEN "data_loss" ELSE "error"

\* read(2) returns 0: nothing in the pipe and nobody who could write.
ReadEof ==
    /\ recv_status = "ok"
    /\ reader_open
    /\ pipe = <<>>
    /\ ~writer_open
    /\ recv_status' = StatusAtEof
    /\ reading' = <<>>
    /\ UNCHANGED <<cut, producer_ok, pipe, writer_open, reader_open, sending,
                   send_status, begun,
                   written, received>>

\* ~BinaryLogConsumer, after an error or because the parent stops listening.
CloseReader ==
    /\ reader_open
    /\ reader_open' = FALSE
    /\ UNCHANGED <<cut, producer_ok, pipe, writer_open, sending, send_status,
                   begun, written,
                   reading, received, recv_status>>

----------------------------------------------------------------------------
(* What the bytes on their way mean *)

\* Where in the stream of all bytes each entry ends, and what its bytes are.
Ends(entries) == Sums([i \in DOMAIN entries |-> EntryBytes(entries[i])])
EntryByte(e, j) ==
    IF j <= HeaderBytes
    THEN [of |-> "size", value |-> BodyBytes[e.kind], at |-> j]
    ELSE [of |-> "body", value |-> e, at |-> j - HeaderBytes]

Bytes == {EntryByte(e, j) : e \in Entries, j \in Nat}

\* The reader has the stream up to an entry that it has not read to its end;
\* what it will read next follows from there.
Unreceived == reading \o pipe
ReadFrom == Ends(begun)[Len(received)]
WrittenTo == ReadFrom + Len(Unreceived)

ChannelTypeOK ==
    /\ {producer_ok, writer_open, reader_open, cut} \subseteq BOOLEAN
    /\ {begun, written, received} \subseteq Seq(Entries)
    /\ {pipe, sending, reading} \subseteq Seq(Bytes)
    /\ recv_status \in {"ok", "EOC", "data_loss", "error"}

HistoryInv ==
    /\ received = SubSeq(begun, 1, Len(received)) /\ Len(received) <= Len(written)
    /\ written = SubSeq(begun, 1, Len(written)) /\ Len(written) <= Len(begun)

\* Send writes the rest of the last entry.
SendingInv ==
    sending # <<>> =>
      /\ writer_open
      /\ begun # <<>> /\ Len(sending) <= EntryBytes(Last(begun))
      /\ \A k \in 1..Len(sending) :
           sending[k] = EntryByte(Last(begun),
                                  EntryBytes(Last(begun)) - Len(sending) + k)
      /\ reader_open => Len(written) = Len(begun) - 1

\* Nothing is lost while somebody reads: the bytes follow one another as the
\* entries do, up to where the writer is or was.
StreamInv ==
    reader_open /\ recv_status = "ok" =>
      /\ \A i \in 1..Len(begun), k \in 1..Len(Unreceived) :
           Ends(begun)[i - 1] < ReadFrom + k /\ ReadFrom + k <= Ends(begun)[i] =>
             Unreceived[k] = EntryByte(begun[i], ReadFrom + k - Ends(begun)[i - 1])
      /\ reading # <<>> =>
           /\ Len(received) < Len(begun)
           /\ Len(reading) < EntryBytes(begun[Len(received) + 1])
      /\ writer_open => WrittenTo + Len(sending) = Ends(begun)[Len(begun)]
      /\ ~cut /\ sending = <<>> => WrittenTo = Ends(begun)[Len(written)]
      /\ cut => /\ Len(written) < Len(begun)
                /\ Ends(begun)[Len(written)] < WrittenTo
                /\ WrittenTo < Ends(begun)[Len(written) + 1]

\* Nothing is sent after the end.
ClosedInv ==
    /\ recv_status # "ok" => ~writer_open
    /\ cut => ~writer_open
    /\ reader_open /\ sending = <<>> /\ writer_open => written = begun

ChannelInv ==
    ChannelTypeOK /\ HistoryInv /\ SendingInv /\ StreamInv /\ ClosedInv

=============================================================================
