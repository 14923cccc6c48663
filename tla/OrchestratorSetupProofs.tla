----------------------- MODULE OrchestratorSetupProofs -----------------------
(***************************************************************************)
(* Proofs about OrchestratorSetup and the binary log channel, for any      *)
(* shard files, flags, sizes of entries and capacity of the pipe.          *)
(*                                                                         *)
(* SetupInv is inductive.  Its part on the channel says where the reader   *)
(* and the writer are in the stream of all bytes of the entries that were  *)
(* begun: Ends gives the positions, as partial sums.                       *)
(***************************************************************************)
EXTENDS OrchestratorSetup, SpanUtilProofs, FiniteSetTheorems

-----------------------------------------------------------------------------
(* The stream of the entries                                                 *)

LEMMA EntryFacts ==
  ASSUME NEW e \in Entries
  PROVE  /\ BodyBytes[e.kind] \in Nat \ {0}
         /\ HeaderBytes \in Nat \ {0}
         /\ EntryBytes(e) = HeaderBytes + BodyBytes[e.kind]
         /\ EntryBytes(e) \in Nat \ {0}
BY ChannelAssumption DEF Entries, EntryBytes

LEMMA EndsFacts ==
  ASSUME NEW b \in Seq(Entries)
  PROVE  /\ Ends(b)[0] = 0
         /\ \A i \in 1..Len(b) : Ends(b)[i] = Ends(b)[i - 1] + EntryBytes(b[i])
         /\ \A i \in 0..Len(b) : Ends(b)[i] \in Nat
         /\ \A i, j \in 0..Len(b) : i < j => Ends(b)[i] < Ends(b)[j]
         /\ \A i, j \in 0..Len(b) : i <= j => Ends(b)[i] <= Ends(b)[j]
<1> DEFINE s == [i \in DOMAIN b |-> EntryBytes(b[i])]
<1>1. s \in Seq(Nat \ {0}) /\ Len(s) = Len(b) /\ \A i \in 1..Len(b) : s[i] = EntryBytes(b[i])
  BY EntryFacts
<1>2. s \in Seq(Nat)
  BY <1>1
<1>3. Ends(b) = Sums(s)
  BY DEF Ends
<1> HIDE DEF s
<1>4. /\ \A i \in 0..Len(b) : Ends(b)[i] \in Nat
      /\ \A i, j \in 0..Len(b) : i < j => Ends(b)[i] < Ends(b)[j]
  BY <1>1, <1>2, <1>3, SumsFacts, SumsIncrease
<1>5. ASSUME NEW i \in 0..Len(b), NEW j \in 0..Len(b), i <= j
      PROVE  Ends(b)[i] <= Ends(b)[j]
  <2>1. CASE i = j
    BY <2>1, <1>4
  <2>2. CASE i < j
    BY <2>2, <1>4
  <2> QED BY <1>5, <2>1, <2>2
<1> QED BY <1>1, <1>2, <1>3, <1>4, <1>5, SumsFacts

LEMMA EndsAppend ==
  ASSUME NEW b \in Seq(Entries), NEW e \in Entries
  PROVE  /\ Len(Append(b, e)) = Len(b) + 1
         /\ \A i \in 0..Len(b) : Ends(Append(b, e))[i] = Ends(b)[i]
<1> DEFINE c == Append(b, e)
           s == [i \in DOMAIN b |-> EntryBytes(b[i])]
           t == [i \in DOMAIN c |-> EntryBytes(c[i])]
<1>0. c \in Seq(Entries) /\ Len(c) = Len(b) + 1 /\ \A i \in 1..Len(b) : c[i] = b[i]
  OBVIOUS
<1> HIDE DEF c
<1>1. s \in Seq(Nat) /\ Len(s) = Len(b) /\ \A i \in 1..Len(b) : s[i] = EntryBytes(b[i])
  BY EntryFacts
<1>2. t \in Seq(Nat) /\ Len(t) = Len(c) /\ \A i \in 1..Len(c) : t[i] = EntryBytes(c[i])
  BY EntryFacts, <1>0
<1>3. Ends(b) = Sums(s) /\ Ends(c) = Sums(t)
  BY DEF Ends
<1> HIDE DEF s, t
<1>4. Len(s) <= Len(t) /\ \A i \in 1..Len(s) : s[i] = t[i]
  BY <1>0, <1>1, <1>2
<1>5. \A i \in 0..Len(s) : Sums(s)[i] = Sums(t)[i]
  BY <1>1, <1>2, <1>4, SumsPrefix
<1> QED BY <1>0, <1>1, <1>3, <1>5 DEF c

\* What Send writes are the bytes of the entry.
LEMMA SentBytes ==
  ASSUME NEW e \in Entries
  PROVE  LET bytes == Header(BodyBytes[e.kind]) \o Body(e)
         IN  /\ bytes \in Seq(Bytes)
             /\ Len(bytes) = EntryBytes(e)
             /\ \A k \in 1..Len(bytes) : bytes[k] = EntryByte(e, k)
<1> DEFINE h == Header(BodyBytes[e.kind])
           d == Body(e)
           H == HeaderBytes
           B == BodyBytes[e.kind]
<1>1. H \in Nat \ {0} /\ B \in Nat \ {0} /\ EntryBytes(e) = H + B
  BY EntryFacts
<1>2. \A k \in 1..H : h[k] = EntryByte(e, k)
  BY <1>1 DEF Header, EntryByte
<1>3. \A k \in 1..B : d[k] = EntryByte(e, H + k)
  BY <1>1 DEF Body, EntryByte
<1>4. \A j \in Nat : EntryByte(e, j) \in Bytes
  BY DEF Bytes
<1>5. h \in Seq(Bytes) /\ Len(h) = H
  <2>1. h = [k \in 1..H |-> h[k]]
    BY DEF Header
  <2>2. \A k \in 1..H : h[k] \in Bytes
    BY <1>1, <1>2, <1>4
  <2> HIDE DEF h
  <2> QED BY <1>1, <2>1, <2>2
<1>6. d \in Seq(Bytes) /\ Len(d) = B
  <2>1. d = [k \in 1..B |-> d[k]]
    BY DEF Body
  <2>2. \A k \in 1..B : d[k] \in Bytes
    BY <1>1, <1>3, <1>4
  <2> HIDE DEF d
  <2> QED BY <1>1, <2>1, <2>2
<1> HIDE DEF h, d
<1>7. /\ h \o d \in Seq(Bytes) /\ Len(h \o d) = H + B
      /\ \A k \in 1..(H + B) : (h \o d)[k] = IF k <= H THEN h[k] ELSE d[k - H]
  BY <1>1, <1>5, <1>6
<1>8. ASSUME NEW k \in 1..(H + B) PROVE (h \o d)[k] = EntryByte(e, k)
  <2>1. CASE k <= H
    BY <2>1, <1>1, <1>2, <1>7
  <2>2. CASE ~(k <= H)
    <3>1. k - H \in 1..B /\ H + (k - H) = k
      BY <2>2, <1>1
    <3> QED BY <3>1, <2>2, <1>3, <1>7
  <2> QED BY <2>1, <2>2
<1> QED BY <1>1, <1>7, <1>8 DEF h, d

\* A position of the stream is in one entry only.
LEMMA WhichEntry ==
  ASSUME NEW b \in Seq(Entries), NEW i \in 1..Len(b), NEW j \in 1..Len(b),
         NEW x \in Nat,
         Ends(b)[i - 1] < x, x <= Ends(b)[i],
         Ends(b)[j - 1] < x, x <= Ends(b)[j]
  PROVE  i = j
<1>1. /\ \A k \in 0..Len(b) : Ends(b)[k] \in Nat
      /\ \A k, m \in 0..Len(b) : k <= m => Ends(b)[k] <= Ends(b)[m]
  BY EndsFacts
<1>2. i \in 0..Len(b) /\ j \in 0..Len(b) /\ i - 1 \in 0..Len(b) /\ j - 1 \in 0..Len(b)
  OBVIOUS
<1>3. ASSUME i < j PROVE FALSE
  <2>1. i <= j - 1
    BY <1>3
  <2>2. Ends(b)[i] <= Ends(b)[j - 1]
    BY <1>1, <1>2, <2>1
  <2> QED BY <1>1, <1>2, <2>2
<1>4. ASSUME j < i PROVE FALSE
  <2>1. j <= i - 1
    BY <1>4
  <2>2. Ends(b)[j] <= Ends(b)[i - 1]
    BY <1>1, <1>2, <2>1
  <2> QED BY <1>1, <1>2, <2>2
<1> QED BY <1>2, <1>3, <1>4

\* Where the reader and the writer are.
LEMMA Positions ==
  ASSUME ChannelInv
  PROVE  /\ begun \in Seq(Entries) /\ Len(begun) \in Nat
         /\ Len(received) \in 0..Len(begun) /\ Len(written) \in 0..Len(begun)
         /\ Len(received) <= Len(written)
         /\ ReadFrom \in Nat
         /\ reading \in Seq(Bytes) /\ pipe \in Seq(Bytes) /\ sending \in Seq(Bytes)
         /\ Unreceived \in Seq(Bytes)
         /\ Len(Unreceived) = Len(reading) + Len(pipe)
         /\ WrittenTo \in Nat
<1>1. /\ begun \in Seq(Entries) /\ written \in Seq(Entries) /\ received \in Seq(Entries)
      /\ reading \in Seq(Bytes) /\ pipe \in Seq(Bytes) /\ sending \in Seq(Bytes)
  BY DEF ChannelInv, ChannelTypeOK
<1>2. /\ Len(begun) \in Nat
      /\ Len(received) \in 0..Len(begun) /\ Len(written) \in 0..Len(begun)
      /\ Len(received) <= Len(written)
  BY <1>1 DEF ChannelInv, HistoryInv
<1>3. ReadFrom \in Nat
  BY <1>1, <1>2, EndsFacts DEF ReadFrom
<1>4. Unreceived \in Seq(Bytes) /\ Len(Unreceived) = Len(reading) + Len(pipe)
  BY <1>1 DEF Unreceived
<1> QED BY <1>1, <1>2, <1>3, <1>4 DEF WrittenTo

\* Send begins an entry where the last one ended.
LEMMA SendBeginChannel ==
  ASSUME NEW e \in Entries, ChannelInv, writer_open, SendBegin(e)
  PROVE  ChannelInv'
<1>1. CASE ~producer_ok
  <2>1. UNCHANGED <<producer_ok, pipe, writer_open, reader_open, sending, begun,
                    written, reading, received, cut, recv_status>>
    BY <1>1 DEF SendBegin
  <2> QED BY <2>1 DEF ChannelInv, ChannelTypeOK, HistoryInv, SendingInv, StreamInv,
                      ClosedInv, Unreceived, ReadFrom, WrittenTo
<1>2. CASE producer_ok
  <2> DEFINE n == Len(begun)
             bytes == Header(BodyBytes[e.kind]) \o Body(e)
  <2>1. /\ sending = <<>> /\ sending' = bytes /\ begun' = Append(begun, e)
        /\ UNCHANGED <<cut, producer_ok, pipe, writer_open, reader_open, written,
                       reading, received, recv_status>>
    BY <1>2 DEF SendBegin
  <2>2. /\ bytes \in Seq(Bytes) /\ Len(bytes) = EntryBytes(e)
        /\ \A k \in 1..Len(bytes) : bytes[k] = EntryByte(e, k)
    BY SentBytes
  <2> HIDE DEF bytes
  <2>3. /\ begun \in Seq(Entries) /\ n \in Nat
        /\ Len(received) \in 0..n /\ Len(written) \in 0..n
        /\ Len(received) <= Len(written)
        /\ ReadFrom \in Nat /\ Unreceived \in Seq(Bytes) /\ WrittenTo \in Nat
    BY Positions
  <2>4. /\ begun' \in Seq(Entries) /\ Len(begun') = n + 1 /\ begun'[n + 1] = e
        /\ \A i \in 1..n : begun'[i] = begun[i]
        /\ Last(begun') = e /\ begun' # <<>>
    BY <2>1, <2>3 DEF Last
  <2>5. \A i \in 0..n : Ends(begun')[i] = Ends(begun)[i]
    BY <2>1, <2>3, EndsAppend
  <2>6. ReadFrom' = ReadFrom /\ Unreceived' = Unreceived /\ WrittenTo' = WrittenTo
    BY <2>1, <2>3, <2>5 DEF ReadFrom, Unreceived, WrittenTo
  <2>7. ChannelTypeOK'
    BY <2>1, <2>2, <2>4 DEF ChannelInv, ChannelTypeOK
  <2>8. HistoryInv'
    <3>1. /\ received = SubSeq(begun, 1, Len(received))
          /\ written = SubSeq(begun, 1, Len(written))
      BY DEF ChannelInv, HistoryInv
    <3>2. \A m \in 0..n : SubSeq(begun', 1, m) = SubSeq(begun, 1, m)
      BY <2>1, <2>3
    <3> QED BY <2>1, <2>3, <2>4, <3>1, <3>2 DEF HistoryInv
  <2>9. ASSUME reader_open PROVE written = begun
    BY <2>1, <2>9 DEF ChannelInv, ClosedInv
  <2>10. SendingInv'
    <3>1. \A k \in 1..Len(sending') :
            sending'[k] = EntryByte(e, EntryBytes(e) - Len(sending') + k)
      BY <2>1, <2>2, EntryFacts
    <3>2. reader_open' => Len(written') = Len(begun') - 1
      BY <2>1, <2>3, <2>4, <2>9
    <3> QED BY <2>1, <2>2, <2>4, <3>1, <3>2, EntryFacts DEF SendingInv
  <2>11. StreamInv'
    <3> SUFFICES ASSUME reader_open, recv_status = "ok" PROVE StreamInv'
      BY <2>1 DEF StreamInv
    <3>0. StreamInv
      BY DEF ChannelInv
    <3>1. ~cut
      BY DEF ChannelInv, ClosedInv
    <3>2. WrittenTo = Ends(begun)[n] /\ WrittenTo = ReadFrom + Len(Unreceived)
      BY <2>1, <2>3, <3>0 DEF StreamInv, WrittenTo
    <3>3. ASSUME NEW i \in 1..Len(begun'), NEW k \in 1..Len(Unreceived),
                 Ends(begun')[i - 1] < ReadFrom + k,
                 ReadFrom + k <= Ends(begun')[i]
          PROVE  Unreceived[k] = EntryByte(begun'[i],
                                           ReadFrom + k - Ends(begun')[i - 1])
      <4>1. CASE i = n + 1
        <5>1. i - 1 = n /\ n \in 0..n
          BY <4>1, <2>3
        <5>2. Ends(begun')[i - 1] = WrittenTo
          BY <5>1, <2>5, <3>2
        <5> QED BY <5>2, <3>2, <3>3, <2>3
      <4>2. CASE i # n + 1
        <5>1. i \in 1..n /\ i - 1 \in 0..n /\ i \in 0..n
          BY <4>2, <2>3, <2>4
        <5>2. Ends(begun')[i - 1] = Ends(begun)[i - 1] /\ Ends(begun')[i] = Ends(begun)[i]
              /\ begun'[i] = begun[i]
          BY <5>1, <2>4, <2>5
        <5> QED BY <5>1, <5>2, <3>0, <3>3 DEF StreamInv
      <4> QED BY <4>1, <4>2
    <3>4. reading # <<>> => /\ Len(received) < Len(begun')
                            /\ Len(reading) < EntryBytes(begun'[Len(received) + 1])
      BY <3>0, <2>3, <2>4 DEF StreamInv
    <3>5. WrittenTo + Len(sending') = Ends(begun')[Len(begun')]
      <4>0. n + 1 \in 1..Len(begun') /\ \A i \in 1..Len(begun') :
              Ends(begun')[i] = Ends(begun')[i - 1] + EntryBytes(begun'[i])
        <5>1. n + 1 \in 1..Len(begun')
          BY <2>3, <2>4
        <5> QED BY <2>4, <5>1, EndsFacts
      <4>1. Ends(begun')[n + 1] = Ends(begun')[(n + 1) - 1] + EntryBytes(begun'[n + 1])
        BY <4>0
      <4>2. (n + 1) - 1 = n /\ n \in 0..n
        BY <2>3
      <4>3. Ends(begun')[n + 1] = Ends(begun)[n] + EntryBytes(e)
        BY <4>1, <4>2, <2>4, <2>5
      <4> QED BY <4>3, <3>2, <2>1, <2>2, <2>4
    <3>6. sending' # <<>>
      BY <2>1, <2>2, EntryFacts
    <3> QED BY <3>1, <3>3, <3>4, <3>5, <3>6, <2>1, <2>6 DEF StreamInv
  <2>12. ClosedInv'
    <3>1. sending' # <<>>
      BY <2>1, <2>2, EntryFacts
    <3> QED BY <3>1, <2>1 DEF ChannelInv, ClosedInv
  <2> QED BY <2>7, <2>8, <2>10, <2>11, <2>12 DEF ChannelInv
<1> QED BY <1>1, <1>2

\* write(2) moves bytes from Send to the end of the stream.
LEMMA WriteSomeChannel ==
  ASSUME ChannelInv, NEW k \in 1..Len(sending), WriteSome(k)
  PROVE  ChannelInv'
<1> DEFINE n == Len(begun)
           L == Len(sending)
           U == Unreceived
           e == begun[n]
<1>1. /\ sending # <<>> /\ reader_open
      /\ pipe' = pipe \o SubSeq(sending, 1, k)
      /\ sending' = SubSeq(sending, k + 1, L)
      /\ written' = IF sending' = <<>> THEN Append(written, Last(begun)) ELSE written
      /\ UNCHANGED <<cut, producer_ok, writer_open, reader_open, begun, reading,
                     received, recv_status>>
  BY DEF WriteSome
<1>2. /\ begun \in Seq(Entries) /\ n \in Nat
      /\ Len(received) \in 0..n /\ Len(written) \in 0..n
      /\ Len(received) <= Len(written)
      /\ ReadFrom \in Nat /\ U \in Seq(Bytes) /\ WrittenTo \in Nat
      /\ reading \in Seq(Bytes) /\ pipe \in Seq(Bytes) /\ sending \in Seq(Bytes)
      /\ Len(U) = Len(reading) + Len(pipe)
  BY Positions
<1>3. /\ writer_open /\ begun # <<>> /\ L <= EntryBytes(e)
      /\ \A j \in 1..L : sending[j] = EntryByte(e, EntryBytes(e) - L + j)
      /\ Len(written) = n - 1
  BY <1>1 DEF ChannelInv, SendingInv, Last
<1>4. n \in 1..n /\ n \in 0..n /\ n - 1 \in 0..n /\ e \in Entries /\ Last(begun) = e
      /\ EntryBytes(e) \in Nat \ {0} /\ L \in Nat \ {0}
  BY <1>1, <1>2, <1>3, EntryFacts DEF Last
<1>5. /\ sending' \in Seq(Bytes) /\ Len(sending') = L - k
      /\ \A j \in 1..(L - k) : sending'[j] = sending[k + j]
      /\ (sending' = <<>>) <=> (k = L)
  <2>1. k + 1 \in Nat \ {0} /\ L \in Nat /\ k + 1 <= L + 1 /\ L - (k + 1) + 1 = L - k
        /\ \A j \in 1..(L - k) : (k + 1) + j - 1 = k + j
    BY <1>4
  <2>2. /\ sending' \in Seq(Bytes) /\ Len(sending') = L - k
        /\ \A j \in 1..(L - k) : sending'[j] = sending[(k + 1) + j - 1]
    <3> DEFINE s == SubSeq(sending, k + 1, L)
    <3> HIDE DEF L
    <3>0. sending \in Seq(Bytes) /\ L <= Len(sending)
      BY <1>2 DEF L
    <3>1. /\ s \in Seq(Bytes) /\ Len(s) = L - (k + 1) + 1
          /\ \A m \in 1..(L - (k + 1) + 1) : s[m] = sending[(k + 1) + m - 1]
      BY <3>0, <2>1, Sub
    <3>2. sending' = s
      BY <1>1 DEF L
    <3> QED BY <3>1, <3>2, <2>1, Zenon
  <2>3. (sending' = <<>>) <=> (L - k = 0)
    BY <2>2, Empty
  <2>4. (L - k = 0) <=> (k = L)
    BY <1>4
  <2>5. \A j \in 1..(L - k) : sending'[j] = sending[k + j]
    BY <2>1, <2>2
  <2> QED BY <2>2, <2>3, <2>4, <2>5
<1>6. /\ pipe' \in Seq(Bytes) /\ Len(pipe') = Len(pipe) + k
      /\ U' \in Seq(Bytes) /\ Len(U') = Len(U) + k
      /\ \A m \in 1..Len(U) : U'[m] = U[m]
      /\ \A m \in 1..k : U'[Len(U) + m] = sending[m]
  <2> DEFINE w == SubSeq(sending, 1, k)
  <2>1. w \in Seq(Bytes) /\ Len(w) = k /\ \A m \in 1..k : w[m] = sending[m]
    BY <1>2, <1>4, Sub
  <2>2. pipe' = pipe \o w /\ U = reading \o pipe /\ U' = reading \o pipe'
    BY <1>1 DEF Unreceived
  <2> HIDE DEF w, U
  <2>3. U' = U \o w
    <3>1. /\ reading \in Seq(Bytes) /\ pipe \in Seq(Bytes) /\ w \in Seq(Bytes)
      BY <1>2, <2>1
    <3>2. (reading \o pipe) \o w = reading \o (pipe \o w)
      BY <3>1, CatCat
    <3> QED BY <2>2, <3>2, Zenon
  <2>4. pipe' \in Seq(Bytes) /\ Len(pipe') = Len(pipe) + k
    BY <1>2, <2>1, <2>2, Cat
  <2>5. /\ U' \in Seq(Bytes) /\ Len(U') = Len(U) + k
        /\ \A m \in 1..Len(U) : U'[m] = U[m]
        /\ \A m \in 1..k : U'[Len(U) + m] = w[m]
    <3>1. U \in Seq(Bytes) /\ w \in Seq(Bytes)
      BY <1>2, <2>1
    <3>2. /\ U \o w \in Seq(Bytes) /\ Len(U \o w) = Len(U) + Len(w)
          /\ \A m \in 1..Len(U) : (U \o w)[m] = U[m]
          /\ \A m \in 1..Len(w) : (U \o w)[Len(U) + m] = w[m]
      BY <3>1, Cat
    <3> QED BY <3>2, <2>1, <2>3, Zenon
  <2> QED BY <2>1, <2>4, <2>5
<1> HIDE DEF U, L, n, e
<1>7. /\ ReadFrom' = ReadFrom /\ WrittenTo = ReadFrom + Len(U)
      /\ WrittenTo' = WrittenTo + k /\ Len(U) \in Nat
  <2>1. ReadFrom' = ReadFrom
    BY <1>1 DEF ReadFrom
  <2>2. WrittenTo = ReadFrom + Len(U) /\ WrittenTo' = ReadFrom' + Len(U')
    BY DEF WrittenTo, U
  <2>3. Len(U) \in Nat
    BY <1>2
  <2> QED BY <2>1, <2>2, <2>3, <1>2, <1>6
<1>8. k = L => written' = begun
  <2>1. written = SubSeq(begun, 1, n - 1)
    BY <1>3 DEF ChannelInv, HistoryInv, n
  <2> QED BY <2>1, <1>1, <1>2, <1>4, <1>5, SMTT(30) DEF n, e
<1>9. k # L => written' = written /\ sending' # <<>>
  BY <1>1, <1>5
<1>10. ChannelTypeOK'
  BY <1>1, <1>2, <1>5, <1>6, <1>8, <1>9 DEF ChannelInv, ChannelTypeOK
<1>11. HistoryInv'
  <2>1. begun = SubSeq(begun, 1, n)
    BY <1>2 DEF n
  <2>2. CASE k = L
    BY <2>1, <2>2, <1>1, <1>2, <1>8 DEF ChannelInv, HistoryInv, n
  <2>3. CASE k # L
    BY <2>3, <1>1, <1>9 DEF ChannelInv, HistoryInv
  <2> QED BY <2>2, <2>3
<1>12. SendingInv'
  <2> SUFFICES ASSUME sending' # <<>> PROVE SendingInv'
    BY DEF SendingInv
  <2>1. k # L /\ k < L
    BY <1>4, <1>5 DEF L
  <2>2. ASSUME NEW j \in 1..Len(sending')
        PROVE  sending'[j] = EntryByte(e, EntryBytes(e) - Len(sending') + j)
    <3>1. j \in 1..(L - k) /\ k + j \in 1..L
          /\ EntryBytes(e) - L + (k + j) = EntryBytes(e) - Len(sending') + j
      BY <2>1, <1>4, <1>5 DEF L
    <3> QED BY <3>1, <1>3, <1>5
  <2>3. Len(sending') <= EntryBytes(e)
    BY <1>3, <1>4, <1>5, <2>1
  <2>4. Last(begun)' = e
    BY <1>1, <1>4
  <2> QED BY <2>1, <2>2, <2>3, <2>4, <1>1, <1>3, <1>9 DEF SendingInv, n
<1>13. StreamInv'
  <2> SUFFICES ASSUME recv_status = "ok" PROVE StreamInv'
    BY <1>1 DEF StreamInv
  <2>0. StreamInv /\ ~cut
    BY <1>3 DEF ChannelInv, ClosedInv
  <2>1. WrittenTo + L = Ends(begun)[n]
    BY <2>0, <1>1, <1>3 DEF StreamInv, n, L
  <2>2. /\ Ends(begun)[n] = Ends(begun)[n - 1] + EntryBytes(e)
        /\ Ends(begun)[n] \in Nat /\ Ends(begun)[n - 1] \in Nat
    BY <1>2, <1>4, EndsFacts DEF n, e
  <2>3. ASSUME NEW i \in 1..n, NEW m \in 1..Len(U'),
               Ends(begun)[i - 1] < ReadFrom + m, ReadFrom + m <= Ends(begun)[i]
        PROVE  U'[m] = EntryByte(begun[i], ReadFrom + m - Ends(begun)[i - 1])
    <3>1. CASE m <= Len(U)
      <4>1. m \in 1..Len(U)
        BY <3>1, <1>2
      <4> QED BY <4>1, <1>6, <2>0, <2>3, <1>1 DEF StreamInv, U, n
    <3>2. CASE ~(m <= Len(U))
      <4>1. PICK j \in 1..k : m = Len(U) + j
        <5>1. m - Len(U) \in 1..k /\ m = Len(U) + (m - Len(U))
          BY <3>2, <1>6, <1>7
        <5> QED BY <5>1
      <4>0. j \in 1..L
        BY <1>4 DEF L
      <4>2. ReadFrom + m = Ends(begun)[n - 1] + (EntryBytes(e) - L + j)
        <5>1. /\ ReadFrom \in Int /\ Len(U) \in Int /\ L \in Int /\ EntryBytes(e) \in Int
              /\ Ends(begun)[n - 1] \in Int /\ j \in Int
              /\ ReadFrom + Len(U) + L = Ends(begun)[n - 1] + EntryBytes(e)
          BY <2>1, <2>2, <1>2, <1>4, <1>7, SMTT(30)
        <5> QED BY <4>1, <5>1, SMTT(30)
      <4>3. /\ Ends(begun)[n - 1] < ReadFrom + m /\ ReadFrom + m <= Ends(begun)[n]
            /\ ReadFrom + m \in Nat
        <5>1. ReadFrom \in Nat /\ EntryBytes(e) \in Nat /\ L \in Nat /\ L <= EntryBytes(e)
              /\ m \in Nat /\ Ends(begun)[n - 1] \in Nat
              /\ Ends(begun)[n] = Ends(begun)[n - 1] + EntryBytes(e)
          BY <2>2, <1>2, <1>3, <1>4, <1>6, <1>7
        <5> HIDE DEF n
        <5> QED BY <5>1, <4>0, <4>2
      <4>4. i = n
        BY <4>3, <2>3, <1>2, <1>4, WhichEntry DEF n
      <4>5. U'[m] = EntryByte(e, EntryBytes(e) - L + j)
        BY <4>0, <4>1, <1>3, <1>6
      <4>6. ReadFrom + m - Ends(begun)[n - 1] = EntryBytes(e) - L + j
        <5>1. /\ ReadFrom \in Int /\ m \in Int /\ EntryBytes(e) \in Int /\ L \in Int
              /\ j \in Int /\ Ends(begun)[n - 1] \in Int
          BY <2>2, <1>2, <1>4
        <5> QED BY <4>2, <5>1, SMTT(30)
      <4> QED BY <4>4, <4>5, <4>6 DEF e
    <3> QED BY <3>1, <3>2
  <2>4. WrittenTo' + Len(sending') = Ends(begun)[n]
    BY <1>2, <1>4, <1>5, <1>7, <2>1 DEF L
  <2>5. sending' = <<>> => WrittenTo' = Ends(begun)[Len(written')]
    <3> SUFFICES ASSUME sending' = <<>> PROVE WrittenTo' = Ends(begun)[n] /\ Len(written') = n
      OBVIOUS
    <3>1. Len(sending') = 0 /\ k = L
      BY <1>5
    <3>2. WrittenTo' \in Nat
      BY <1>2, <1>7
    <3> QED BY <3>1, <3>2, <1>8, <2>4 DEF n
  <2> QED BY <1>1, <1>7, <2>0, <2>3, <2>4, <2>5 DEF StreamInv, U, n
<1>14. ClosedInv'
  BY <1>1, <1>5, <1>8 DEF ChannelInv, ClosedInv
<1> QED BY <1>10, <1>11, <1>12, <1>13, <1>14 DEF ChannelInv

\* write(2) fails when nobody reads; nothing of the stream matters any more.
LEMMA WriteFailsChannel ==
  ASSUME ChannelInv, WriteFails
  PROVE  ChannelInv'
<1>1. /\ ~reader_open /\ sending' = <<>>
      /\ UNCHANGED <<cut, producer_ok, pipe, writer_open, reader_open, begun,
                     written, reading, received, recv_status>>
  BY DEF WriteFails
<1> QED BY <1>1 DEF ChannelInv, ChannelTypeOK, HistoryInv, SendingInv, StreamInv,
                    ClosedInv

LEMMA CloseReaderChannel ==
  ASSUME ChannelInv, CloseReader
  PROVE  ChannelInv'
<1>1. /\ reader_open' = FALSE
      /\ UNCHANGED <<cut, producer_ok, pipe, writer_open, sending, begun,
                     written, reading, received, recv_status>>
  BY DEF CloseReader
<1> QED BY <1>1 DEF ChannelInv, ChannelTypeOK, HistoryInv, SendingInv, StreamInv,
                    ClosedInv

LEMMA ReadEofChannel ==
  ASSUME ChannelInv, ReadEof
  PROVE  ChannelInv'
<1>1. /\ recv_status' \in {"EOC", "data_loss", "error"} /\ ~writer_open /\ reading' = <<>>
      /\ UNCHANGED <<cut, producer_ok, pipe, writer_open, reader_open, sending,
                     begun, written, received>>
  BY DEF ReadEof, StatusAtEof
<1> QED BY <1>1 DEF ChannelInv, ChannelTypeOK, HistoryInv, SendingInv, StreamInv,
                    ClosedInv

\* The end of the process: what it had written of an entry, if anything, stays.
LEMMA CloseWriterChannel ==
  ASSUME ChannelInv, writer_open, CloseWriter,
         UNCHANGED <<producer_ok, pipe, reader_open, begun, written, reading,
                     received, recv_status>>
  PROVE  ChannelInv'
<1> DEFINE n == Len(begun)
           e == begun[n]
           L == Len(sending)
<1>1. /\ writer_open' = FALSE /\ sending' = <<>>
      /\ cut' = (sending # <<>> /\ L < EntryBytes(Last(begun)))
      /\ UNCHANGED <<producer_ok, pipe, reader_open, begun, written, reading,
                     received, recv_status>>
  BY DEF CloseWriter
<1>2. /\ begun \in Seq(Entries) /\ n \in Nat /\ Len(written) \in 0..n
      /\ sending \in Seq(Bytes) /\ WrittenTo \in Nat
  BY Positions
<1>3. /\ \A i \in 0..n : Ends(begun)[i] \in Nat
      /\ \A i \in 1..n : Ends(begun)[i] = Ends(begun)[i - 1] + EntryBytes(begun[i])
  BY <1>2, EndsFacts
<1>4. ChannelTypeOK'
  <2>1. <<>> \in Seq(Bytes)
    OBVIOUS
  <2> QED BY <1>1, <2>1 DEF ChannelInv, ChannelTypeOK
<1>5. HistoryInv' /\ SendingInv'
  BY <1>1 DEF ChannelInv, HistoryInv, SendingInv
<1>6. StreamInv'
  <2> SUFFICES ASSUME reader_open, recv_status = "ok" PROVE StreamInv'
    BY <1>1 DEF StreamInv
  <2>0. StreamInv /\ SendingInv /\ ClosedInv
    BY DEF ChannelInv
  <2>1. WrittenTo + L = Ends(begun)[n]
    BY <2>0 DEF StreamInv
  <2>2. ASSUME sending = <<>> PROVE WrittenTo = Ends(begun)[Len(written)] /\ ~cut'
    BY <2>0, <2>2, <1>1 DEF StreamInv, ClosedInv
  <2>3. ASSUME sending # <<>>
        PROVE  IF cut' THEN /\ Len(written) < n
                            /\ Ends(begun)[Len(written)] < WrittenTo
                            /\ WrittenTo < Ends(begun)[Len(written) + 1]
                       ELSE WrittenTo = Ends(begun)[Len(written)]
    <3>1. /\ begun # <<>> /\ L <= EntryBytes(e) /\ Len(written) = n - 1
          /\ Last(begun) = e
      BY <2>0, <2>3 DEF SendingInv, Last
    <3>2. n \in 1..n /\ n - 1 \in 0..n /\ n \in 0..n /\ e \in Entries /\ L \in Nat \ {0}
          /\ (n - 1) + 1 = n
      BY <3>1, <2>3, <1>2
    <3>3. /\ Ends(begun)[n] = Ends(begun)[n - 1] + EntryBytes(e)
          /\ Ends(begun)[n] \in Nat /\ Ends(begun)[n - 1] \in Nat
          /\ EntryBytes(e) \in Nat
      BY <3>2, <1>3, EntryFacts
    <3>4. cut' <=> L < EntryBytes(e)
      BY <3>1, <2>3, <1>1
    <3> HIDE DEF n, e, L
    <3>5. CASE L < EntryBytes(e)
      <4>1. Ends(begun)[n - 1] < WrittenTo /\ WrittenTo < Ends(begun)[n]
        BY <3>5, <3>2, <3>3, <2>1, <1>2
      <4>2. Len(written) < n
        BY <3>1, <3>2
      <4> QED BY <4>1, <4>2, <3>1, <3>2, <3>4, <3>5
    <3>6. CASE ~(L < EntryBytes(e))
      <4>1. Ends(begun)[n - 1] = WrittenTo
        BY <3>6, <3>1, <3>2, <3>3, <2>1, <1>2
      <4> QED BY <4>1, <3>1, <3>4, <3>6
    <3> QED BY <3>5, <3>6
  <2>4. WrittenTo' = WrittenTo /\ ReadFrom' = ReadFrom /\ Unreceived' = Unreceived
    BY <1>1 DEF WrittenTo, ReadFrom, Unreceived
  <2> QED BY <2>0, <2>2, <2>3, <2>4, <1>1 DEF StreamInv
<1>7. ClosedInv'
  BY <1>1 DEF ClosedInv
<1> QED BY <1>4, <1>5, <1>6, <1>7 DEF ChannelInv

\* While there are bytes to read, the reader is at an entry that was begun, and
\* these are its bytes.
LEMMA NextEntry ==
  ASSUME ChannelInv, reader_open, recv_status = "ok", Len(Unreceived) > 0
  PROVE  /\ Len(received) < Len(begun) /\ begun[Len(received) + 1] \in Entries
         /\ ReadFrom = Ends(begun)[Len(received)]
         /\ Ends(begun)[Len(received) + 1]
              = ReadFrom + EntryBytes(begun[Len(received) + 1])
         /\ WrittenTo <= Ends(begun)[Len(begun)]
         /\ \A k \in 1..Len(Unreceived) :
              k <= EntryBytes(begun[Len(received) + 1]) =>
                Unreceived[k] = EntryByte(begun[Len(received) + 1], k)
<1> DEFINE n == Len(begun)
           r == Len(received)
           e == begun[r + 1]
           w == Len(written)
           U == Unreceived
           R == ReadFrom
<1>1. /\ begun \in Seq(Entries) /\ n \in Nat /\ r \in 0..n /\ w \in 0..n
      /\ R \in Nat /\ U \in Seq(Bytes) /\ WrittenTo \in Nat /\ sending \in Seq(Bytes)
  BY Positions
<1>2. /\ \A i \in 0..n : Ends(begun)[i] \in Nat
      /\ \A i \in 1..n : Ends(begun)[i] = Ends(begun)[i - 1] + EntryBytes(begun[i])
      /\ \A i, j \in 0..n : i <= j => Ends(begun)[i] <= Ends(begun)[j]
  BY <1>1, EndsFacts
<1>3. R = Ends(begun)[r] /\ WrittenTo = R + Len(U)
  BY DEF ReadFrom, WrittenTo
<1>4. StreamInv /\ SendingInv
  BY DEF ChannelInv
<1>5. WrittenTo <= Ends(begun)[n]
  <2>0. n \in 0..n
    BY <1>1
  <2>1. CASE writer_open
    <3>1. WrittenTo + Len(sending) = Ends(begun)[n]
      BY <2>1, <1>4 DEF StreamInv
    <3> QED BY <2>0, <3>1, <1>1, <1>2
  <2>2. CASE ~writer_open /\ ~cut
    <3>1. WrittenTo = Ends(begun)[w]
      BY <2>2, <1>4 DEF StreamInv, SendingInv
    <3> QED BY <2>0, <3>1, <1>1, <1>2
  <2>3. CASE cut
    <3>1. w < n /\ WrittenTo < Ends(begun)[w + 1]
      BY <2>3, <1>4 DEF StreamInv
    <3>2. w + 1 \in 0..n /\ w + 1 <= n
      BY <3>1, <1>1
    <3> QED BY <2>0, <3>1, <3>2, <1>1, <1>2
  <2> QED BY <2>1, <2>2, <2>3
<1>6. r < n
  <2>1. WrittenTo > R
    BY <1>1, <1>3
  <2>2. Ends(begun)[n] \in Nat
    BY <1>1, <1>2
  <2> QED BY <2>1, <2>2, <1>1, <1>3, <1>5
<1>7. r + 1 \in 1..n /\ (r + 1) - 1 = r /\ e \in Entries /\ EntryBytes(e) \in Nat
      /\ Ends(begun)[r + 1] = R + EntryBytes(e)
  <2>1. r + 1 \in 1..n /\ (r + 1) - 1 = r
    BY <1>1, <1>6
  <2>2. e \in Entries /\ EntryBytes(e) \in Nat
    BY <2>1, <1>1, EntryFacts
  <2> QED BY <2>1, <2>2, <1>2, <1>3
<1>8. ASSUME NEW k \in 1..Len(U), k <= EntryBytes(e)
      PROVE  U[k] = EntryByte(e, k)
  <2>1. /\ Ends(begun)[(r + 1) - 1] < R + k /\ R + k <= Ends(begun)[r + 1]
        /\ R + k - Ends(begun)[(r + 1) - 1] = k
    BY <1>1, <1>3, <1>7, <1>8, SMTT(30)
  <2>2. U[k] = EntryByte(begun[r + 1], R + k - Ends(begun)[(r + 1) - 1])
    BY <2>1, <1>4, <1>7 DEF StreamInv
  <2> QED BY <2>1, <2>2
<1> QED BY <1>3, <1>5, <1>6, <1>7, <1>8

\* A body is parsed to the entry that it was made of.
LEMMA BodyParses ==
  ASSUME NEW e \in Entries, e \in Range(begun), NEW body, body = Body(e)
  PROVE  Parses(body) /\ Parsed(body) = e
<1>1. BodyBytes[e.kind] \in Nat \ {0}
  BY EntryFacts
<1>2. ASSUME NEW f, Body(f) = Body(e) PROVE f = e
  <2>1. Body(e)[1].value = e
    BY <1>1 DEF Body
  <2>2. 1 \in DOMAIN Body(f)
    <3>1. 1 \in DOMAIN Body(e)
      BY <1>1 DEF Body
    <3> QED BY <3>1, <1>2
  <2>3. Body(f)[1].value = f
    BY <2>2 DEF Body
  <2> QED BY <2>1, <2>3, <1>2
<1> QED BY <1>2 DEF Parses, Parsed

\* Receive reads on in the entry that it is at, or returns it.
LEMMA ReadSomeChannel ==
  ASSUME ChannelInv, NEW k \in 1..Len(pipe), ReadSome(k)
  PROVE  ChannelInv' /\ recv_status' = "ok"
<1> DEFINE n == Len(begun)
           r == Len(received)
           e == begun[r + 1]
           U == Unreceived
           R == ReadFrom
           H == HeaderBytes
           bytes == reading \o SubSeq(pipe, 1, k)
           rest == SubSeq(pipe, k + 1, Len(pipe))
           body == SubSeq(bytes, H + 1, Len(bytes))
<1>1. /\ recv_status = "ok" /\ reader_open
      /\ k <= Wanted - Len(reading)
      /\ pipe' = rest
      /\ ~EntryRead(bytes) => reading' = bytes /\ UNCHANGED <<received, recv_status>>
      /\ EntryRead(bytes) /\ Parses(body) =>
           /\ reading' = <<>> /\ received' = Append(received, Parsed(body))
           /\ UNCHANGED recv_status
      /\ UNCHANGED <<cut, producer_ok, writer_open, reader_open, sending, begun, written>>
  BY DEF ReadSome
<1>2. /\ begun \in Seq(Entries) /\ n \in Nat
      /\ r \in 0..n /\ Len(written) \in 0..n /\ r <= Len(written)
      /\ R \in Nat /\ U \in Seq(Bytes) /\ WrittenTo \in Nat
      /\ reading \in Seq(Bytes) /\ pipe \in Seq(Bytes) /\ sending \in Seq(Bytes)
      /\ Len(U) = Len(reading) + Len(pipe)
  BY Positions
<1>3. /\ bytes \in Seq(Bytes) /\ Len(bytes) = Len(reading) + k
      /\ rest \in Seq(Bytes) /\ Len(rest) = Len(pipe) - k
      /\ U = bytes \o rest
      /\ \A j \in 1..Len(reading) : bytes[j] = reading[j]
  <2> DEFINE w == SubSeq(pipe, 1, k)
  <2>1. k \in 0..Len(pipe) /\ Len(pipe) \in Nat
    BY <1>2
  <2>2. w \in Seq(Bytes) /\ Len(w) = k
    BY <1>2, <2>1, Sub
  <2>3. rest \in Seq(Bytes) /\ Len(rest) = Len(pipe) - k
    BY <1>2, <2>1, Sub
  <2>4. pipe = w \o rest
    BY <1>2, <2>1, CutInTwo
  <2> HIDE DEF w, rest
  <2>5. U = reading \o (w \o rest)
    BY <2>4 DEF Unreceived
  <2>6. U = (reading \o w) \o rest
    <3>1. reading \in Seq(Bytes) /\ w \in Seq(Bytes) /\ rest \in Seq(Bytes)
      BY <2>2, <2>3, <1>2
    <3> QED BY <2>5, <3>1, CatCat
  <2>7. /\ reading \o w \in Seq(Bytes) /\ Len(reading \o w) = Len(reading) + k
        /\ \A j \in 1..Len(reading) : (reading \o w)[j] = reading[j]
    <3>1. reading \in Seq(Bytes) /\ w \in Seq(Bytes)
      BY <2>2, <1>2
    <3>2. /\ reading \o w \in Seq(Bytes) /\ Len(reading \o w) = Len(reading) + Len(w)
          /\ \A j \in 1..Len(reading) : (reading \o w)[j] = reading[j]
      BY <3>1, Cat
    <3> QED BY <2>2, <3>2
  <2> QED BY <2>3, <2>6, <2>7 DEF w
<1> HIDE DEF bytes, rest
<1>4. /\ Len(bytes) \in Nat \ {0} /\ Len(bytes) <= Len(U)
      /\ Len(U) = Len(bytes) + Len(rest) /\ Len(rest) \in Nat
  <2>1. Len(reading) \in Nat /\ Len(pipe) \in Nat /\ k \in Nat \ {0} /\ k <= Len(pipe)
    BY <1>2
  <2> QED BY <2>1, <1>2, <1>3
<1>5. /\ \A j \in 1..Len(bytes) : U[j] = bytes[j]
      /\ \A j \in 1..Len(rest) : U[Len(bytes) + j] = rest[j]
  BY <1>3, Cat
<1>6. /\ r < n /\ e \in Entries /\ R = Ends(begun)[r]
      /\ Ends(begun)[r + 1] = R + EntryBytes(e)
      /\ WrittenTo <= Ends(begun)[n]
      /\ \A j \in 1..Len(U) : j <= EntryBytes(e) => U[j] = EntryByte(e, j)
  <2>1. Len(U) > 0
    BY <1>4
  <2> QED BY <1>1, <2>1, NextEntry
<1>7. /\ H \in Nat \ {0} /\ BodyBytes[e.kind] \in Nat \ {0}
      /\ EntryBytes(e) = H + BodyBytes[e.kind]
      /\ EntryBytes(e) \in Nat \ {0}
  BY <1>6, EntryFacts
<1> HIDE DEF U, e, body
<1>8. bytes[1].value = BodyBytes[e.kind]
  <2>1. 1 \in 1..Len(bytes) /\ 1 \in 1..Len(U) /\ 1 <= EntryBytes(e) /\ 1 <= H
    BY <1>4, <1>7
  <2>2. bytes[1] = EntryByte(e, 1)
    BY <2>1, <1>5, <1>6
  <2> QED BY <2>1, <2>2 DEF EntryByte
<1>9. Len(bytes) <= EntryBytes(e)
  <2>1. CASE HeaderRead
    <3>1. Len(reading) >= H /\ 1 \in 1..Len(reading)
      BY <2>1, <1>2, <1>7 DEF HeaderRead
    <3>2. reading[1] = bytes[1]
      BY <3>1, <1>3
    <3>3. Wanted = H + BodyBytes[e.kind]
      BY <2>1, <3>2, <1>8 DEF Wanted, ProtoSize
    <3> QED BY <3>3, <1>1, <1>2, <1>3, <1>7
  <2>2. CASE ~HeaderRead
    <3>1. Wanted = H
      BY <2>2 DEF Wanted
    <3> QED BY <3>1, <1>1, <1>2, <1>3, <1>7, SMTT(30)
  <2> QED BY <2>1, <2>2
<1>10. EntryRead(bytes) <=> Len(bytes) = EntryBytes(e)
  BY <1>4, <1>7, <1>8 DEF EntryRead
<1>0. StreamInv /\ SendingInv /\ HistoryInv /\ ClosedInv /\ ChannelTypeOK
  BY DEF ChannelInv
<1>11. CASE ~EntryRead(bytes)
  <2>1. /\ reading' = bytes /\ pipe' = rest
        /\ UNCHANGED <<received, recv_status, cut, producer_ok, writer_open,
                       reader_open, sending, begun, written>>
    BY <1>11, <1>1
  <2>2. U' = U /\ R' = R /\ WrittenTo' = WrittenTo
    BY <2>1, <1>3 DEF U, Unreceived, ReadFrom, WrittenTo
  <2>3. Len(bytes) < EntryBytes(e)
    BY <1>4, <1>7, <1>9, <1>10, <1>11
  <2>4. ChannelTypeOK'
    BY <2>1, <1>0, <1>3 DEF ChannelTypeOK
  <2>5. HistoryInv' /\ SendingInv' /\ ClosedInv'
    BY <2>1, <1>0 DEF HistoryInv, SendingInv, ClosedInv
  <2>6. StreamInv'
    BY <2>1, <2>2, <2>3, <1>0, <1>1, <1>6 DEF StreamInv, U, e
  <2> QED BY <2>1, <2>4, <2>5, <2>6, <1>1 DEF ChannelInv
<1>12. CASE EntryRead(bytes)
  <2>1. Len(bytes) = EntryBytes(e)
    BY <1>10, <1>12
  <2>2. body = Body(e)
    <3> DEFINE B == BodyBytes[e.kind]
    <3>1. /\ body \in Seq(Bytes) /\ Len(body) = B
          /\ \A m \in 1..B : body[m] = bytes[H + m]
      <4>1. /\ H + 1 \in Nat \ {0} /\ Len(bytes) \in Nat /\ H + 1 <= Len(bytes) + 1
            /\ Len(bytes) - (H + 1) + 1 = B
            /\ \A m \in 1..B : (H + 1) + m - 1 = H + m
        <5>1. H \in Nat \ {0} /\ B \in Nat \ {0} /\ Len(bytes) = H + B
          BY <2>1, <1>7
        <5> HIDE DEF B, H
        <5> QED BY <5>1
      <4>2. /\ body \in Seq(Bytes) /\ Len(body) = Len(bytes) - (H + 1) + 1
            /\ \A m \in 1..(Len(bytes) - (H + 1) + 1) :
                 body[m] = bytes[(H + 1) + m - 1]
        BY <4>1, <1>3, Sub, SMTT(30) DEF body
      <4> QED BY <4>1, <4>2
    <3>2. ASSUME NEW m \in 1..B PROVE body[m] = Body(e)[m]
      <4>1. H + m \in 1..Len(bytes) /\ H + m \in 1..Len(U) /\ H + m <= EntryBytes(e)
            /\ ~(H + m <= H) /\ (H + m) - H = m
        BY <2>1, <1>4, <1>7, SMTT(30)
      <4>2. body[m] = EntryByte(e, H + m)
        BY <4>1, <3>1, <1>5, <1>6
      <4>3. EntryByte(e, H + m) = [of |-> "body", value |-> e, at |-> m]
        BY <4>1 DEF EntryByte
      <4> QED BY <4>2, <4>3 DEF Body
    <3>3. body = [m \in 1..B |-> body[m]] /\ Body(e) = [m \in 1..B |-> Body(e)[m]]
      <4>1. Body(e) = [m \in 1..B |-> Body(e)[m]]
        BY DEF Body
      <4>2. body = [m \in 1..B |-> body[m]]
        BY <3>1, <1>7
      <4> QED BY <4>1, <4>2
    <3> HIDE DEF B
    <3> QED BY <3>2, <3>3
  <2>3. e \in Range(begun)
    <3>1. r + 1 \in DOMAIN begun
      BY <1>2, <1>6
    <3> QED BY <3>1 DEF Range, e
  <2>4. /\ reading' = <<>> /\ pipe' = rest /\ received' = Append(received, e)
        /\ UNCHANGED <<recv_status, cut, producer_ok, writer_open,
                       reader_open, sending, begun, written>>
    BY <2>2, <2>3, <1>1, <1>6, <1>12, BodyParses
  <2>5. received \in Seq(Entries) /\ received' \in Seq(Entries) /\ Len(received') = r + 1
    BY <2>4, <1>0, <1>6 DEF ChannelTypeOK
  <2>6. U' = rest
    <3>1. U' = <<>> \o rest
      BY <2>4 DEF U, Unreceived
    <3> QED BY <3>1, <1>3
  <2>7. R' = R + Len(bytes) /\ WrittenTo' = WrittenTo
    <3>1. R' = Ends(begun)[r + 1]
      BY <2>4, <2>5 DEF ReadFrom
    <3>2. R' = R + Len(bytes)
      BY <3>1, <2>1, <1>6
    <3>3. WrittenTo = R + Len(U) /\ WrittenTo' = R' + Len(U')
      BY DEF WrittenTo, U
    <3> QED BY <3>2, <3>3, <2>6, <1>2, <1>4
  <2>8. r + 1 <= Len(written)
    <3> SUFFICES ASSUME ~(r + 1 <= Len(written)) PROVE FALSE
      OBVIOUS
    <3>1. Len(written) = r /\ r + 1 \in 0..n /\ r \in 0..n
      BY <1>2, <1>6
    <3>2. /\ Ends(begun)[r] < Ends(begun)[r + 1] /\ Ends(begun)[r + 1] <= WrittenTo
          /\ Ends(begun)[r + 1] \in Nat /\ Ends(begun)[r] \in Nat
      <4>1. WrittenTo = R + Len(U)
        BY DEF WrittenTo, U
      <4>2. Ends(begun)[r + 1] = R + Len(bytes)
        BY <2>1, <1>6
      <4>3. /\ R \in Nat /\ Len(U) \in Nat /\ Len(bytes) \in Nat
            /\ 0 < Len(bytes) /\ Len(bytes) <= Len(U) /\ Ends(begun)[r] = R
        BY <1>2, <1>4, <1>6, <1>7, <2>1, SMTT(30)
      <4> HIDE DEF R, U, r
      <4> QED BY <4>1, <4>2, <4>3
    <3>3. CASE sending # <<>>
      <4>1. r = n - 1 /\ WrittenTo + Len(sending) = Ends(begun)[n] /\ n = r + 1
        BY <3>1, <3>3, <1>0, <1>1, <1>2 DEF SendingInv, StreamInv
      <4>2. Len(sending) \in Nat \ {0}
        BY <3>3, <1>2
      <4> QED BY <4>1, <4>2, <3>2, <1>2
    <3>4. CASE sending = <<>> /\ ~cut
      BY <3>1, <3>2, <3>4, <1>0, <1>1, <1>2 DEF StreamInv
    <3>5. CASE cut
      BY <3>1, <3>2, <3>5, <1>0, <1>1, <1>2 DEF StreamInv
    <3> QED BY <3>3, <3>4, <3>5
  <2>9. ChannelTypeOK'
    <3>1. <<>> \in Seq(Bytes)
      OBVIOUS
    <3> QED BY <3>1, <2>4, <2>5, <1>0, <1>3 DEF ChannelTypeOK
  <2>10. HistoryInv'
    <3>1. received = SubSeq(begun, 1, r)
      BY <1>0 DEF HistoryInv
    <3>2. Append(received, e) = SubSeq(begun, 1, r + 1)
      BY <3>1, <1>2, <1>6 DEF e
    <3> QED BY <2>4, <2>5, <2>8, <3>2, <1>0 DEF HistoryInv
  <2>11. SendingInv' /\ ClosedInv'
    BY <2>4, <1>0 DEF SendingInv, ClosedInv
  <2>12. StreamInv'
    <3>1. ASSUME NEW i \in 1..n, NEW m \in 1..Len(rest),
                 Ends(begun)[i - 1] < R' + m, R' + m <= Ends(begun)[i]
          PROVE  rest[m] = EntryByte(begun[i], R' + m - Ends(begun)[i - 1])
      <4>1. i \in 0..n /\ i - 1 \in 0..n
        BY <1>2
      <4>2. Ends(begun)[i] \in Nat /\ Ends(begun)[i - 1] \in Nat
        BY <4>1, <1>2, EndsFacts
      <4>3. Len(bytes) + m \in 1..Len(U) /\ R + (Len(bytes) + m) = R' + m
        BY <1>2, <1>4, <2>7
      <4>4. R + ((Len(bytes) + m) - Ends(begun)[i - 1]) = R' + (m - Ends(begun)[i - 1])
        <5>1. /\ R' = R + Len(bytes) /\ R \in Nat /\ Len(bytes) \in Nat /\ m \in Nat
          BY <1>2, <1>4, <2>7
        <5> HIDE DEF R
        <5> QED BY <5>1, <4>2
      <4>5. U[Len(bytes) + m]
              = EntryByte(begun[i], R + ((Len(bytes) + m) - Ends(begun)[i - 1]))
        BY <3>1, <4>3, <1>0, <1>1 DEF StreamInv, U
      <4> QED BY <4>4, <4>5, <1>5
    <3>2. WrittenTo' = WrittenTo /\ U' = rest /\ reading' = <<>>
      BY <2>4, <2>6, <2>7
    <3> QED BY <3>1, <3>2, <2>4, <1>0, <1>1 DEF StreamInv, U
  <2> QED BY <2>4, <2>9, <2>10, <2>11, <2>12, <1>1 DEF ChannelInv
<1> QED BY <1>11, <1>12

\* At the end of the stream the reader has what was written, or knows that the
\* last entry was cut.
LEMMA AtEof ==
  ASSUME ChannelInv, ReadEof
  PROVE  /\ reading = <<>> => received = written /\ ~cut
         /\ reading # <<>> => cut
<1> DEFINE n == Len(begun)
           r == Len(received)
           w == Len(written)
<1>1. recv_status = "ok" /\ reader_open /\ pipe = <<>> /\ ~writer_open
  BY DEF ReadEof
<1>2. /\ begun \in Seq(Entries) /\ n \in Nat
      /\ r \in 0..n /\ w \in 0..n /\ r <= w
      /\ ReadFrom \in Nat /\ reading \in Seq(Bytes) /\ WrittenTo \in Nat
      /\ Len(Unreceived) = Len(reading) + Len(pipe)
  BY Positions
<1>3. /\ \A i \in 0..n : Ends(begun)[i] \in Nat
      /\ \A i \in 1..n : Ends(begun)[i] = Ends(begun)[i - 1] + EntryBytes(begun[i])
      /\ \A i, j \in 0..n : i < j => Ends(begun)[i] < Ends(begun)[j]
      /\ \A i, j \in 0..n : i <= j => Ends(begun)[i] <= Ends(begun)[j]
  BY <1>2, EndsFacts
<1>4. WrittenTo = Ends(begun)[r] + Len(reading) /\ Len(reading) \in Nat
  BY <1>1, <1>2 DEF WrittenTo, ReadFrom
<1>5. StreamInv /\ HistoryInv /\ sending = <<>>
  BY <1>1 DEF ChannelInv, SendingInv
<1>6. ASSUME cut PROVE w < n /\ Ends(begun)[w] < WrittenTo /\ WrittenTo < Ends(begun)[w + 1]
  BY <1>1, <1>5, <1>6 DEF StreamInv
<1>7. ASSUME ~cut PROVE WrittenTo = Ends(begun)[w]
  BY <1>1, <1>5, <1>7 DEF StreamInv
<1>8. ASSUME reading = <<>> PROVE received = written /\ ~cut
  <2>1. WrittenTo = Ends(begun)[r]
    BY <1>2, <1>3, <1>4, <1>8
  <2>2. ~cut
    BY <2>1, <1>2, <1>3, <1>6
  <2>3. r = w
    BY <2>1, <2>2, <1>2, <1>3, <1>7
  <2> QED BY <2>2, <2>3, <1>5 DEF HistoryInv
<1>9. ASSUME reading # <<>>, ~cut PROVE FALSE
  <2>1. r < n /\ Len(reading) < EntryBytes(begun[r + 1]) /\ Len(reading) > 0
    BY <1>1, <1>2, <1>5, <1>9 DEF StreamInv
  <2>2. r + 1 \in 1..n /\ r + 1 \in 0..n /\ (r + 1) - 1 = r
    BY <2>1, <1>2
  <2>3. begun[r + 1] \in Entries /\ EntryBytes(begun[r + 1]) \in Nat
    BY <2>2, <1>2, EntryFacts
  <2>4. Ends(begun)[r + 1] = Ends(begun)[r] + EntryBytes(begun[r + 1])
    BY <2>2, <1>3
  <2>5. /\ Ends(begun)[r] < Ends(begun)[w] /\ Ends(begun)[w] < Ends(begun)[r + 1]
        /\ Ends(begun)[r] \in Nat /\ Ends(begun)[w] \in Nat
    BY <2>1, <2>3, <2>4, <1>2, <1>3, <1>4, <1>7, <1>9
  <2>6. r # w
    BY <2>5
  <2>7. r + 1 <= w
    BY <2>6, <1>2
  <2>8. Ends(begun)[r + 1] <= Ends(begun)[w] /\ Ends(begun)[r + 1] \in Nat
    BY <2>2, <2>7, <1>2, <1>3
  <2> QED BY <2>5, <2>8
<1> QED BY <1>8, <1>9

-----------------------------------------------------------------------------
(* Shards and resources                                                      *)

LEMMA MinOfTwo ==
  ASSUME NEW a \in Int, NEW b \in Int
  PROVE  Min({a, b}) = IF a <= b THEN a ELSE b
<1> DEFINE m == IF a <= b THEN a ELSE b
<1>1. m \in {a, b} /\ \A y \in {a, b} : m <= y
  OBVIOUS
<1>2. \A x \in {a, b} : (\A y \in {a, b} : x <= y) => x = m
  OBVIOUS
<1> HIDE DEF m
<1>3. Min({a, b}) = m
  BY <1>1, <1>2 DEF Min
<1> QED BY <1>3 DEF m

LEMMA ContentsFacts ==
  ASSUME NEW c, c.num_bytes \in Nat, c \in Contents(c.num_bytes)
  PROVE  /\ c.size \in Nat
         /\ /\ c.magic /\ c.header_size = HeaderSize /\ c.num_bytes = c.size
            /\ c.recorded = c.data
            => c = Intact(c.size)
<1>0. HeaderSize \in Nat
  BY SetupAssumption
<1>1. PICK size \in 0..c.num_bytes :
        c \in {Intact(size), OtherVersion(size)} \cup Damaged(Intact(size))
  BY DEF Contents
<1>2. CASE c = Intact(size)
  BY <1>2 DEF Intact
<1>3. CASE c = OtherVersion(size)
  BY <1>0, <1>3 DEF OtherVersion, Intact
<1>4. CASE c \in Damaged(Intact(size))
  <2> DEFINE i == Intact(size)
  <2>0. /\ i.size = size /\ i.num_bytes = size /\ i.data = "original"
        /\ i.recorded = "original" /\ DOMAIN i = {"size", "magic", "header_size",
             "num_bytes", "data", "recorded"}
    BY DEF Intact
  <2>1. \/ \E n \in 0..(i.size - 1) : c = [i EXCEPT !.size = n, !.data = "cut"]
        \/ c = [i EXCEPT !.size = @ + 1, !.data = "longer"]
        \/ c = [i EXCEPT !.magic = FALSE, !.data = "other"]
        \/ c = [i EXCEPT !.header_size = @ + 1, !.num_bytes = @ + 1, !.data = "other"]
        \/ c = [i EXCEPT !.data = "other"]
        \/ c = [i EXCEPT !.recorded = "other"]
    BY <1>4 DEF Damaged
  <2> HIDE DEF i
  <2>2. c.size \in Nat
    <3>1. size \in Nat
      OBVIOUS
    <3>2. ASSUME NEW n \in 0..(i.size - 1), c = [i EXCEPT !.size = n, !.data = "cut"]
          PROVE  c.size \in Nat
      BY <2>0, <3>1, <3>2
    <3>3. ASSUME c = [i EXCEPT !.size = @ + 1, !.data = "longer"] PROVE c.size \in Nat
      BY <2>0, <3>1, <3>3
    <3>4. ASSUME \/ c = [i EXCEPT !.magic = FALSE, !.data = "other"]
                 \/ c = [i EXCEPT !.header_size = @ + 1, !.num_bytes = @ + 1, !.data = "other"]
                 \/ c = [i EXCEPT !.data = "other"]
                 \/ c = [i EXCEPT !.recorded = "other"]
          PROVE  c.size \in Nat
      BY <2>0, <3>1, <3>4
    <3> QED BY <2>1, <3>2, <3>3, <3>4
  <2>3. c.data # c.recorded
    BY <2>0, <2>1
  <2> QED BY <2>2, <2>3
<1> QED BY <1>1, <1>2, <1>3, <1>4

\* ValidateShard accepts nothing but what the generator wrote.
LEMMA ValidShardIsIntact ==
  ASSUME NEW s, IsShard(s), s.ok, ValidateShard(s)
  PROVE  s.header = Intact(s.file_size) /\ s.file_size \in Nat
BY ContentsFacts DEF IsShard, ValidateShard

LEMMA LoadCorpusFacts ==
  ASSUME NEW f, IsFile(f), NEW works \in BOOLEAN
  PROVE  /\ IsShard(LoadCorpus(f, works))
         /\ LoadCorpus(f, works).ok => LoadCorpus(f, works).file_size \in Nat
         /\ ~LoadCorpus(f, works).ok => LoadCorpus(f, works).code \in {"internal", "errno"}
<1> DEFINE c == f.contents
           good == [ok |-> TRUE, header |-> c,
                    header_bytes |-> Min({c.size, HeaderSize}),
                    file_size |-> c.size, checksum |-> c.data]
<1>1. c.num_bytes \in Nat /\ c \in Contents(c.num_bytes) /\ c.size \in Nat /\ f.xz \in BOOLEAN
  BY ContentsFacts DEF IsFile
<1>2. LoadCorpus(f, works) \in {Error("internal"), Error("errno"), good}
  BY <1>1 DEF LoadCorpus, ReadXzipFile, ReadPlainFile, WriteSharedMemoryFile, Error
<1>3. IsShard(good) /\ good.ok /\ good.file_size \in Nat
  BY <1>1 DEF IsShard
<1>4. \A code : IsShard(Error(code)) /\ ~Error(code).ok /\ Error(code).code = code
  BY DEF IsShard, Error
<1> HIDE DEF good
<1> QED BY <1>2, <1>3, <1>4

\* A sequence of naturals has a largest element.
LEMMA LargestElement ==
  ASSUME NEW n \in Nat \ {0}, NEW d \in [1..n -> Nat]
  PROVE  \E i \in 1..n : \A j \in 1..n : d[j] <= d[i]
<1> DEFINE P == {k \in 0..n : k > 0 => \E i \in 1..k : \A j \in 1..k : d[j] <= d[i]}
<1>1. 0 \in P
  OBVIOUS
<1>2. ASSUME NEW k \in 0..(n - 1), k \in P PROVE k + 1 \in P
  <2>0. k + 1 \in 1..(k + 1) /\ k + 1 \in 0..n /\ k + 1 \in 1..n
    OBVIOUS
  <2>1. CASE k = 0
    <3>1. \A j \in 1..(k + 1) : d[j] <= d[k + 1]
      BY <2>0, <2>1
    <3> QED BY <2>0, <3>1
  <2>2. CASE k > 0
    <3>1. PICK i \in 1..k : \A j \in 1..k : d[j] <= d[i]
      BY <1>2, <2>2
    <3>2. d[i] \in Nat /\ d[k + 1] \in Nat /\ i \in 1..(k + 1)
      BY <2>0
    <3>3. \A j \in 1..(k + 1) : d[j] \in Nat /\ (j \in 1..k \/ j = k + 1)
      OBVIOUS
    <3>4. CASE d[i] <= d[k + 1]
      <4>1. ASSUME NEW j \in 1..(k + 1) PROVE d[j] <= d[k + 1]
        <5>1. CASE j = k + 1
          BY <5>1, <3>2
        <5>2. CASE j \in 1..k
          <6>1. d[j] <= d[i] /\ d[j] \in Nat
            BY <5>2, <3>1, <3>3
          <6> QED BY <6>1, <3>2, <3>4
        <5> QED BY <5>1, <5>2, <3>3
      <4> QED BY <2>0, <4>1
    <3>5. CASE ~(d[i] <= d[k + 1])
      <4>1. \A j \in 1..(k + 1) : d[j] <= d[i]
        BY <3>1, <3>2, <3>3, <3>5
      <4> QED BY <2>0, <3>2, <4>1
    <3> QED BY <3>4, <3>5
  <2> QED BY <2>1, <2>2
<1> HIDE DEF P
<1>3. 0..n \subseteq P
  BY <1>1, <1>2, InductionUpTo
<1>4. n \in P
  BY <1>3
<1> QED BY <1>4 DEF P

LEMMA LargestOnDiskIsAPath ==
  ASSUME NEW files, NEW paths \in Seq(Paths), paths # <<>>,
         \A p \in Paths : IsFile(files[p])
  PROVE  LargestOnDisk(files, paths) \in Paths
<1> DEFINE n == Len(paths)
           d == [i \in 1..n |-> files[paths[i]].disk]
           D == {files[paths[i]].disk : i \in DOMAIN paths}
           I(m) == {i \in DOMAIN paths : files[paths[i]].disk = m}
<1>1. n \in Nat \ {0} /\ DOMAIN paths = 1..n /\ d \in [1..n -> Nat]
  BY DEF IsFile
<1>2. PICK i \in 1..n : \A j \in 1..n : d[j] <= d[i]
  BY <1>1, LargestElement
<1>3. d[i] \in D /\ \A y \in D : d[i] >= y
  BY <1>1, <1>2
<1>4. Max(D) \in D
  BY <1>3 DEF Max
<1>5. I(Max(D)) \in SUBSET Nat /\ I(Max(D)) # {}
  <2>1. PICK j \in DOMAIN paths : files[paths[j]].disk = Max(D)
    BY <1>4
  <2>2. j \in I(Max(D))
    BY <2>1
  <2>3. I(Max(D)) \subseteq 1..n
    BY <1>1
  <2> HIDE DEF I, D
  <2> QED BY <2>2, <2>3, <1>1
<1>6. PICK m \in I(Max(D)) : \A k \in I(Max(D)) : m <= k
  BY <1>5, LeastElement
<1>7. Min(I(Max(D))) \in I(Max(D))
  BY <1>6 DEF Min
<1>8. Min(I(Max(D))) \in DOMAIN paths
  BY <1>7
<1> QED BY <1>1, <1>8 DEF LargestOnDisk

LEMMA EstimateFacts ==
  ASSUME NEW files, NEW paths \in Seq(Paths), paths # <<>>,
         \A p \in Paths : IsFile(files[p]), NEW works \in BOOLEAN,
         NEW largest, largest = EstimateLargestCorpusSizeMB(files, paths, works)
  PROVE  /\ largest.ok \in BOOLEAN
         /\ largest.ok => largest.mb \in Nat
         /\ ~largest.ok => largest.code \in {"internal", "errno"}
<1> DEFINE s == LoadCorpus(files[LargestOnDisk(files, paths)], works)
<1>1. IsFile(files[LargestOnDisk(files, paths)])
  BY LargestOnDiskIsAPath
<1>2. /\ s.ok \in BOOLEAN
      /\ s.ok => s.file_size \in Nat
      /\ ~s.ok => s.code \in {"internal", "errno"}
  BY <1>1, LoadCorpusFacts DEF IsShard
<1> HIDE DEF s
<1>3. s.ok => RoundUpToMb(s.file_size) \in Nat
  <2> SUFFICES ASSUME s.ok PROVE RoundUpToMb(s.file_size) \in Nat
    OBVIOUS
  <2>1. UnitsPerMb \in Nat \ {0} /\ s.file_size \in Nat
    BY <1>2, SetupAssumption
  <2> DEFINE a == s.file_size + UnitsPerMb - 1
  <2>2. a \in Nat
    BY <2>1
  <2> HIDE DEF a
  <2>3. a \div UnitsPerMb \in Nat
    BY <2>1, <2>2, DivMod
  <2> QED BY <2>3 DEF RoundUpToMb, a
<1>4. largest = IF \E i \in DOMAIN paths : files[paths[i]].io = "unreadable"
                THEN [ok |-> FALSE, code |-> "errno"]
                ELSE IF ~s.ok THEN s
                ELSE [ok |-> TRUE, mb |-> RoundUpToMb(s.file_size)]
  BY DEF EstimateLargestCorpusSizeMB, s, Error
<1>5. CASE \E i \in DOMAIN paths : files[paths[i]].io = "unreadable"
  <2>1. largest = [ok |-> FALSE, code |-> "errno"]
    BY <1>4, <1>5
  <2> QED BY <2>1
<1>6. CASE ~(\E i \in DOMAIN paths : files[paths[i]].io = "unreadable") /\ ~s.ok
  <2>1. largest = s
    BY <1>4, <1>6
  <2> QED BY <2>1, <1>2, <1>6
<1>7. CASE ~(\E i \in DOMAIN paths : files[paths[i]].io = "unreadable") /\ s.ok
  <2>1. largest = [ok |-> TRUE, mb |-> RoundUpToMb(s.file_size)]
    BY <1>4, <1>7
  <2> QED BY <2>1, <1>3, <1>7
<1> QED BY <1>5, <1>6, <1>7

LEMMA DivFacts ==
  ASSUME NEW a \in Nat, NEW b \in Nat \ {0}
  PROVE  a \div b \in Nat /\ b * (a \div b) <= a /\ (b <= a => a \div b > 0)
<1>1. a \div b \in Nat /\ a % b \in 0..(b - 1) /\ a = b * (a \div b) + (a % b)
  BY DivMod
<1>2. b * (a \div b) <= a
  BY <1>1
<1>3. ASSUME b <= a, a \div b = 0 PROVE FALSE
  <2>1. b * (a \div b) = 0
    BY <1>3
  <2> QED BY <1>1, <1>3, <2>1
<1> QED BY <1>1, <1>2, <1>3

\* CapResourcesToMemLimit keeps within the limit and always keeps a shard.
LEMMA CapFacts ==
  ASSUME NEW lim \in Int, NEW mb \in Nat, NEW runners \in Nat \ {0},
         NEW total \in Nat \ {0},
         NEW cap, cap = CapResources(lim, mb, runners, total)
  PROVE  /\ cap.ok \in BOOLEAN
         /\ cap.ok => /\ cap.runners \in 1..runners /\ cap.shards \in 1..total
                      /\ RunnerMb * cap.runners + mb * cap.shards <= lim
         /\ ~cap.ok => /\ cap.code \in {"exhausted", "sigfpe"}
                       /\ cap.code = "sigfpe" => mb = 0
<1> DEFINE budget == lim - mb
           n == Min({runners, budget \div RunnerMb})
           left == (budget - RunnerMb * n) + mb
           k == Min({total, left \div mb})
<1>0. RunnerMb \in Nat \ {0}
  BY SetupAssumption
<1>1. cap = IF budget <= 0 \/ n = 0 THEN [ok |-> FALSE, code |-> "exhausted"]
            ELSE IF mb = 0 THEN [ok |-> FALSE, code |-> "sigfpe"]
            ELSE IF k <= 0 THEN [ok |-> FALSE, code |-> "check"]
            ELSE [ok |-> TRUE, runners |-> n, shards |-> k]
  BY DEF CapResources, Error
<1>2. CASE budget <= 0 \/ n = 0
  BY <1>1, <1>2
<1>3. CASE ~(budget <= 0 \/ n = 0) /\ mb = 0
  BY <1>1, <1>3
<1>4. CASE ~(budget <= 0 \/ n = 0) /\ mb # 0
  <2>1. budget \in Nat \ {0} /\ mb \in Nat \ {0} /\ n # 0 /\ budget + mb = lim
    BY <1>4
  <2> DEFINE q == budget \div RunnerMb
  <2>2. q \in Nat /\ RunnerMb * q <= budget
    BY <2>1, <1>0, DivFacts
  <2>3. n = IF runners <= q THEN runners ELSE q
    <3> HIDE DEF q
    <3>1. Min({runners, q}) = IF runners <= q THEN runners ELSE q
      BY <2>2, MinOfTwo
    <3> QED BY <3>1 DEF q
  <2> HIDE DEF q, budget
  <2>4. n \in 1..runners /\ n <= q
    <3> HIDE DEF n
    <3> QED BY <2>1, <2>2, <2>3
  <2> HIDE DEF n
  <2>5. RunnerMb * n \in Nat /\ RunnerMb * n <= budget
    <3>1. n * RunnerMb <= q * RunnerMb /\ n * RunnerMb \in Nat
      BY <2>2, <2>4, <1>0, TimesMonotonic
    <3> QED BY <3>1, <2>1, <2>2, <2>4, <1>0
  <2>6. left \in Nat /\ mb <= left /\ RunnerMb * n + left = lim
    BY <2>1, <2>5
  <2> HIDE DEF left
  <2> DEFINE z == left \div mb
  <2>7. z \in Nat /\ mb * z <= left /\ z > 0
    BY <2>1, <2>6, DivFacts
  <2>8. k = IF total <= z THEN total ELSE z
    <3> HIDE DEF z
    <3>1. Min({total, z}) = IF total <= z THEN total ELSE z
      BY <2>7, MinOfTwo
    <3> QED BY <3>1 DEF z
  <2> HIDE DEF z, k
  <2>9. k \in 1..total /\ k <= z
    BY <2>7, <2>8
  <2>10. mb * k \in Nat /\ mb * k <= left
    <3>1. k * mb <= z * mb /\ k * mb \in Nat
      BY <2>1, <2>7, <2>9, TimesMonotonic
    <3> QED BY <3>1, <2>1, <2>6, <2>7, <2>9
  <2>11. cap = [ok |-> TRUE, runners |-> n, shards |-> k]
    BY <1>1, <1>4, <2>9
  <2>12. RunnerMb * n + mb * k <= lim
    BY <2>5, <2>6, <2>10
  <2> QED BY <2>4, <2>9, <2>11, <2>12
<1> QED BY <1>2, <1>3, <1>4

\* The shard list is a list of shard files.
LEMMA ShardFilenames ==
  ASSUME NEW lines, Len(lines) \in Nat, NEW readable \in BOOLEAN
  PROVE  LoadShardFilenames(lines, readable) \in Seq(Paths)
<1> DEFINE n == Len(lines)
           V(g, i) == IF i = 0 THEN <<>>
                      ELSE IF lines[i] \in Paths THEN Append(g[i - 1], lines[i])
                      ELSE g[i - 1]
           Solves(g, k) == g = [i \in 0..k |-> V(g, i)]
           P == {k \in 0..n : \E g : Solves(g, k)}
           f == CHOOSE g : Solves(g, n)
<1>1. 0 \in P
  <2> DEFINE g == [i \in 0..0 |-> <<>>]
  <2>1. Solves(g, 0)
    OBVIOUS
  <2> HIDE DEF g
  <2>2. \E q : Solves(q, 0)
    BY <2>1
  <2> QED BY <2>2
<1>2. ASSUME NEW k \in 0..(n - 1), k \in P PROVE k + 1 \in P
  <2>1. PICK g : Solves(g, k)
    BY <1>2
  <2> DEFINE h == [i \in 0..(k + 1) |-> IF i = k + 1 THEN V(g, k + 1) ELSE g[i]]
  <2>2. \A i \in 0..k : g[i] = V(g, i)
    BY <2>1
  <2>3. \A i \in 0..(k + 1) : h[i] = V(h, i)
    <3>1. \A i \in 0..k : h[i] = g[i]
      OBVIOUS
    <3>2. ASSUME NEW i \in 0..(k + 1), i # 0 PROVE h[i - 1] = g[i - 1]
      <4>1. i - 1 \in 0..k
        BY <3>2
      <4> QED BY <3>1, <4>1
    <3>3. ASSUME NEW i \in 0..(k + 1) PROVE V(h, i) = V(g, i)
      BY <3>2
    <3>4. ASSUME NEW i \in 0..(k + 1) PROVE h[i] = V(g, i)
      <4> HIDE DEF V
      <4> QED BY <2>2
    <3> QED BY <3>3, <3>4
  <2>4. Solves(h, k + 1)
    BY <2>3
  <2> HIDE DEF h
  <2>5. \E q : Solves(q, k + 1)
    BY <2>4
  <2> QED BY <2>5
<1> HIDE DEF P
<1>3. 0..n \subseteq P
  BY <1>1, <1>2, InductionUpTo
<1>4. n \in P
  BY <1>3
<1>5. Solves(f, n)
  BY <1>4 DEF P
<1> HIDE DEF f
<1>6. \A i \in 0..n : f[i] = V(f, i)
  BY <1>5
<1> DEFINE Q == {i \in 0..n : f[i] \in Seq(Paths)}
<1>7. 0 \in Q
  <2>1. f[0] = <<>> /\ 0 \in 0..n
    BY <1>6
  <2>2. <<>> \in Seq(Paths)
    OBVIOUS
  <2> QED BY <2>1, <2>2
<1>8. ASSUME NEW i \in 0..(n - 1), i \in Q PROVE i + 1 \in Q
  <2>1. i + 1 \in 0..n /\ i + 1 # 0 /\ (i + 1) - 1 = i /\ f[i] \in Seq(Paths)
    BY <1>8
  <2>2. f[i + 1] = IF lines[i + 1] \in Paths THEN Append(f[i], lines[i + 1]) ELSE f[i]
    BY <2>1, <1>6
  <2>3. f[i + 1] \in Seq(Paths)
    BY <2>1, <2>2
  <2> QED BY <2>1, <2>3
<1> HIDE DEF Q
<1>9. 0..n \subseteq Q
  BY <1>7, <1>8, InductionUpTo
<1>10. f[n] \in Seq(Paths)
  BY <1>9 DEF Q
<1>11. LoadShardFilenames(lines, readable) = IF readable THEN f[n] ELSE <<>>
  BY DEF LoadShardFilenames, f
<1>12. <<>> \in Seq(Paths)
  OBVIOUS
<1> QED BY <1>10, <1>11, <1>12

-----------------------------------------------------------------------------
(* The steps of main                                                         *)

LEMMA InitInv == Init => SetupInv
<1> SUFFICES ASSUME Init PROVE SetupInv
  OBVIOUS
<1> USE DEF Init, ChannelInit
<1>1. SetupTypeOK
  <2>1. file \in [Paths -> Range(file)] /\ \A p \in Paths : IsFile(file[p])
    BY FileAssumption DEF Range
  <2>2. <<>> \in Seq(Paths)
    OBVIOUS
  <2> QED BY <2>1, <2>2, SetupAssumption DEF SetupTypeOK, Phases
<1>2. ProcessInv
  BY DEF ProcessInv
<1>3. ResourcesInv /\ ShardsInv /\ ThreadsInv /\ AbortsForCause
  BY DEF ResourcesInv, ShardsInv, ThreadsInv, AbortsForCause, Started, Listed, Capped
<1>4. ChannelInv
  <2>0. <<>> \in Seq(Entries) /\ <<>> \in Seq(Bytes) /\ Len(<<>>) = 0
    OBVIOUS
  <2>1. ChannelTypeOK
    BY <2>0 DEF ChannelTypeOK
  <2>2. HistoryInv /\ SendingInv /\ ClosedInv
    BY DEF HistoryInv, SendingInv, ClosedInv
  <2>3. Ends(begun)[0] = 0
    BY <2>0, EndsFacts
  <2>4. Unreceived = <<>> /\ ReadFrom = 0 /\ WrittenTo = 0
    BY <2>3 DEF Unreceived, ReadFrom, WrittenTo
  <2>5. StreamInv
    BY <2>0, <2>3, <2>4 DEF StreamInv
  <2> QED BY <2>1, <2>2, <2>5 DEF ChannelInv
<1>5. LogFramed
  BY DEF LogFramed, IsPrefix
<1> QED BY <1>1, <1>2, <1>3, <1>4, <1>5 DEF SetupInv

\* What the parent has is a prefix of what was sent.
LEMMA ReceivedIsPrefix ==
  ASSUME ChannelInv
  PROVE  IsPrefix(received, begun)
<1>1. /\ received = SubSeq(begun, 1, Len(received)) /\ Len(received) <= Len(begun)
      /\ received \in Seq(Entries) /\ begun \in Seq(Entries)
  BY DEF ChannelInv, ChannelTypeOK, HistoryInv
<1> QED BY <1>1 DEF IsPrefix

\* The process ends outside Send, or the watchdog ends it.
LEMMA ExitsInv ==
  ASSUME SetupInv, pc # "exited", NEW how,
         how \in {"success", "failure", "sigfpe", "check", "no_loader", "no_cpu",
                  "watchdog"},
         sending = <<>> \/ how = "watchdog",
         Exits(how), SetupTypeOK', AbortsForCause'
  PROVE  SetupInv'
<1>1. /\ exit' = how /\ pc' = "exited" /\ CloseWriter
      /\ UNCHANGED <<producer_ok, pipe, reader_open, begun, written, reading,
                     received, recv_status>>
  BY DEF Exits
<1>2. writer_open /\ recv_status = "ok"
  BY DEF SetupInv, ProcessInv, ChannelInv, ClosedInv
<1>3. ChannelInv'
  BY <1>1, <1>2, CloseWriterChannel DEF SetupInv
<1>4. ProcessInv'
  <2>1. writer_open' = FALSE /\ sending' = <<>> /\ (cut' => sending # <<>>)
    BY <1>1 DEF CloseWriter
  <2>2. how \in {"success", "failure"} /\ reader_open => written = begun
    BY <1>2 DEF SetupInv, ChannelInv, ClosedInv
  <2> QED BY <1>1, <2>1, <2>2 DEF ProcessInv, Silent
<1>5. ResourcesInv' /\ ShardsInv' /\ ThreadsInv'
  BY <1>1 DEF ResourcesInv, ShardsInv, ThreadsInv, Listed, Capped, Started
<1>6. LogFramed'
  <2>1. IsPrefix(received, begun)'
    BY <1>3, ReceivedIsPrefix, PTL
  <2> QED BY <1>1, <1>2, <2>1 DEF LogFramed
<1> QED BY <1>3, <1>4, <1>5, <1>6 DEF SetupInv

\* main goes on without touching the log.
LEMMA GoesOn ==
  ASSUME SetupInv, pc # "exited", pc' # "exited", sending = <<>>,
         UNCHANGED <<exit, channelVars>>
  PROVE  ProcessInv' /\ ChannelInv' /\ LogFramed' /\ AbortsForCause'
<1>1. UNCHANGED channelVars /\ UNCHANGED exit /\ exit = "none"
  BY DEF SetupInv, ProcessInv
<1>2. ChannelInv'
  BY <1>1 DEF SetupInv, channelVars, ChannelInv, ChannelTypeOK, HistoryInv, SendingInv,
              StreamInv, ClosedInv, Unreceived, ReadFrom, WrittenTo
<1>3. ProcessInv'
  BY <1>1 DEF SetupInv, channelVars, ProcessInv, Silent
<1>4. LogFramed'
  BY <1>1 DEF SetupInv, channelVars, LogFramed
<1>5. AbortsForCause'
  BY <1>1 DEF AbortsForCause
<1> QED BY <1>2, <1>3, <1>4, <1>5

LEMMA MainInv ==
  ASSUME SetupInv, NEW lines \in ShardLists, NEW readable \in BOOLEAN,
         NEW max_cpus \in MaxCpus, NEW limit_flag \in Limits,
         Main(lines, readable, max_cpus, limit_flag)
  PROVE  SetupInv'
<1> DEFINE names == LoadShardFilenames(lines, readable)
           runners == Min({cpus, IF max_cpus = 0 THEN cpus ELSE max_cpus})
<1>1. /\ pc = "main" /\ limit' = limit_flag
      /\ resources' = [shards |-> names, runners |-> runners]
      /\ UNCHANGED <<session, file, cpus, faults, estimate, shards, loader,
                     thread_args, failed>>
  BY DEF Main
<1>2. /\ sending = <<>> /\ exit = "none"
      /\ cpus \in Nat \ {0} /\ faults \in Nat /\ SetupTypeOK
  BY <1>1 DEF SetupInv, ProcessInv, SetupTypeOK, Silent
<1>3. runners \in 1..cpus
  <2>1. max_cpus \in Nat
    BY SetupAssumption
  <2>2. Min({cpus, cpus}) = cpus /\ Min({cpus, max_cpus}) = IF cpus <= max_cpus THEN cpus ELSE max_cpus
    BY <1>2, <2>1, MinOfTwo
  <2>3. CASE max_cpus = 0
    BY <2>2, <2>3, <1>2
  <2>4. CASE max_cpus # 0
    BY <2>1, <2>2, <2>4, <1>2
  <2> QED BY <2>3, <2>4
<1>4. names \in Seq(Paths)
  <2>1. Len(lines) \in Nat
    BY SetupAssumption
  <2> QED BY <2>1, ShardFilenames
<1> HIDE DEF names, runners
<1>5. /\ resources' \in [shards : Seq(Paths), runners : Nat]
      /\ resources'.shards = names /\ resources'.runners = runners
  BY <1>1, <1>3, <1>4
<1>6. CASE names = <<>>
  <2>1. Exits("failure")
    BY <1>5, <1>6 DEF Main
  <2>2. SetupTypeOK'
    BY <1>1, <1>2, <1>5, <2>1 DEF SetupTypeOK, Exits, Phases
  <2>3. AbortsForCause'
    BY <2>1 DEF AbortsForCause, Exits
  <2> QED BY <1>1, <1>2, <2>1, <2>2, <2>3, ExitsInv
<1>7. CASE names # <<>>
  <2>1. /\ pc' = (IF limit_flag = Unlimited THEN "metadata" ELSE "estimate")
        /\ UNCHANGED <<exit, channelVars>>
    BY <1>5, <1>7 DEF Main
  <2>2. SetupTypeOK'
    BY <1>1, <1>2, <1>5, <2>1 DEF SetupTypeOK, Phases
  <2>3. ProcessInv' /\ ChannelInv' /\ LogFramed' /\ AbortsForCause'
    BY <1>1, <1>2, <2>1, GoesOn
  <2>4. ResourcesInv'
    <3>1. runners > 0 /\ runners <= cpus + faults
      BY <1>2, <1>3
    <3> QED BY <1>1, <1>5, <1>7, <2>1, <3>1 DEF ResourcesInv, Listed, Capped
  <2>5. ShardsInv' /\ ThreadsInv'
    BY <2>1 DEF ShardsInv, ThreadsInv, Started
  <2> QED BY <2>2, <2>3, <2>4, <2>5 DEF SetupInv
<1> QED BY <1>6, <1>7

LEMMA CapResourcesInv ==
  ASSUME SetupInv, NEW works \in BOOLEAN, CapResourcesToMemLimit(works)
  PROVE  SetupInv'
<1> DEFINE largest == EstimateLargestCorpusSizeMB(file, resources.shards, works)
           cap == IF ~largest.ok THEN largest
                  ELSE CapResources(limit, largest.mb, resources.runners,
                                    Len(resources.shards))
<1>1. /\ pc = "estimate" /\ faults' \in {faults, faults + 1}
      /\ estimate' = (IF largest.ok THEN largest.mb ELSE 0)
      /\ UNCHANGED <<limit, session, file, cpus, shards, loader, thread_args, failed>>
  BY DEF CapResourcesToMemLimit, NoFault, Fault
<1>2. /\ sending = <<>> /\ exit = "none" /\ SetupTypeOK
      /\ resources \in [shards : Seq(Paths), runners : Nat]
      /\ cpus \in Nat \ {0} /\ faults \in Nat
      /\ resources.shards # <<>> /\ resources.runners > 0
      /\ resources.runners <= cpus + faults
      /\ \A p \in Paths : IsFile(file[p])
      /\ limit \in Int /\ limit # Unlimited
  BY <1>1, SetupAssumption
     DEF SetupInv, ProcessInv, SetupTypeOK, Silent, ResourcesInv, Listed, Phases
<1>3. /\ largest.ok \in BOOLEAN
      /\ largest.ok => largest.mb \in Nat
      /\ ~largest.ok => largest.code \in {"internal", "errno"}
  BY <1>2, EstimateFacts
<1>4. /\ resources.runners \in Nat \ {0} /\ Len(resources.shards) \in Nat \ {0}
      /\ resources.shards \in Seq(Paths)
  BY <1>2
<1> HIDE DEF largest
<1>5. /\ cap.ok \in BOOLEAN
      /\ cap.ok => /\ largest.ok
                   /\ cap.runners \in 1..resources.runners
                   /\ cap.shards \in 1..Len(resources.shards)
                   /\ RunnerMb * cap.runners + largest.mb * cap.shards <= limit
      /\ ~cap.ok => /\ cap.code \in {"internal", "errno", "exhausted", "sigfpe"}
                    /\ cap.code = "sigfpe" => largest.ok /\ largest.mb = 0
  <2>1. CASE ~largest.ok
    BY <1>3, <2>1
  <2>2. CASE largest.ok
    <3>0. PICK q : q = CapResources(limit, largest.mb, resources.runners,
                                    Len(resources.shards))
      OBVIOUS
    <3>1. /\ q.ok \in BOOLEAN
          /\ q.ok => /\ q.runners \in 1..resources.runners
                     /\ q.shards \in 1..Len(resources.shards)
                     /\ RunnerMb * q.runners + largest.mb * q.shards <= limit
          /\ ~q.ok => /\ q.code \in {"exhausted", "sigfpe"}
                      /\ q.code = "sigfpe" => largest.mb = 0
      <4>1. /\ limit \in Int /\ largest.mb \in Nat /\ resources.runners \in Nat \ {0}
            /\ Len(resources.shards) \in Nat \ {0}
        BY <1>2, <1>3, <1>4, <2>2
      <4>2. PICK lim \in Int, mb \in Nat, runners \in Nat \ {0}, total \in Nat \ {0} :
              lim = limit /\ mb = largest.mb /\ runners = resources.runners
              /\ total = Len(resources.shards)
        BY <4>1
      <4>3. q = CapResources(lim, mb, runners, total)
        BY <3>0, <4>2
      <4>4. /\ q.ok \in BOOLEAN
            /\ q.ok => /\ q.runners \in 1..runners /\ q.shards \in 1..total
                       /\ RunnerMb * q.runners + mb * q.shards <= lim
            /\ ~q.ok => /\ q.code \in {"exhausted", "sigfpe"}
                        /\ q.code = "sigfpe" => mb = 0
        BY <4>3, CapFacts
      <4> QED BY <4>2, <4>4
    <3>2. cap = q
      BY <2>2, <3>0
    <3> HIDE DEF cap
    <3> QED BY <2>2, <3>1, <3>2
  <2> QED BY <1>3, <2>1, <2>2
<1> HIDE DEF cap
<1>6. estimate' \in Nat /\ (largest.ok => estimate' = largest.mb) /\ faults' \in Nat
      /\ faults <= faults'
  BY <1>1, <1>2, <1>3
<1>7. CASE cap.ok
  <2>1. PICK f \in Injection(1..cap.shards, DOMAIN resources.shards) :
           resources' = [shards |-> [i \in 1..cap.shards |-> resources.shards[f[i]]],
                         runners |-> cap.runners]
    BY <1>7 DEF CapResourcesToMemLimit, cap, largest
  <2>2. pc' = "metadata" /\ UNCHANGED <<exit, channelVars>>
    BY <1>7 DEF CapResourcesToMemLimit, cap, largest
  <2>3. f \in [1..cap.shards -> DOMAIN resources.shards]
    BY <2>1 DEF Injection
  <2> DEFINE chosen == [i \in 1..cap.shards |-> resources.shards[f[i]]]
  <2>4. chosen \in Seq(Paths) /\ Len(chosen) = cap.shards /\ chosen # <<>>
    <3>1. \A i \in 1..cap.shards : resources.shards[f[i]] \in Paths
      BY <2>3, <1>4
    <3>2. cap.shards \in Nat \ {0}
      BY <1>4, <1>5, <1>7
    <3> QED BY <3>1, <3>2
  <2> HIDE DEF chosen
  <2>5. /\ resources' \in [shards : Seq(Paths), runners : Nat]
        /\ resources'.shards = chosen /\ resources'.runners = cap.runners
    BY <2>1, <2>4, <1>4, <1>5, <1>7 DEF chosen
  <2>6. SetupTypeOK'
    BY <1>1, <1>2, <1>6, <2>2, <2>5 DEF SetupTypeOK, Phases
  <2>7. ProcessInv' /\ ChannelInv' /\ LogFramed' /\ AbortsForCause'
    BY <1>1, <1>2, <2>2, GoesOn
  <2>8. ResourcesInv'
    <3>1. cap.runners > 0 /\ cap.runners <= cpus + faults'
      BY <1>2, <1>4, <1>5, <1>6, <1>7
    <3>2. RunnerMb * cap.runners + estimate' * Len(chosen) <= limit
      BY <2>4, <1>5, <1>6, <1>7
    <3> QED BY <1>1, <2>2, <2>4, <2>5, <3>1, <3>2 DEF ResourcesInv, Listed, Capped
  <2>9. ShardsInv' /\ ThreadsInv'
    BY <2>2 DEF ShardsInv, ThreadsInv, Started
  <2> QED BY <2>6, <2>7, <2>8, <2>9 DEF SetupInv
<1>8. CASE ~cap.ok
  <2> DEFINE how == IF cap.code \in {"sigfpe", "check"} THEN cap.code ELSE "failure"
  <2>1. Exits(how) /\ UNCHANGED resources
    BY <1>8 DEF CapResourcesToMemLimit, cap, largest
  <2>2. how \in {"failure", "sigfpe"} /\ (how = "sigfpe" => largest.ok /\ largest.mb = 0)
    BY <1>5, <1>8
  <2> HIDE DEF how
  <2>3. SetupTypeOK'
    BY <1>1, <1>2, <1>6, <2>1, <2>2 DEF SetupTypeOK, Exits, Phases
  <2>4. AbortsForCause'
    BY <1>1, <1>2, <1>6, <2>1, <2>2 DEF AbortsForCause, Exits
  <2> QED BY <1>1, <1>2, <2>1, <2>2, <2>3, <2>4, ExitsInv
<1> QED BY <1>5, <1>7, <1>8

\* What main and the loaders know of each other while the shards are loaded.
LEMMA Loads ==
  ASSUME SetupInv, Silent, pc # "main"
  PROVE  /\ sending = <<>> /\ exit = "none" /\ pc # "exited" /\ SetupTypeOK
         /\ resources \in [shards : Seq(Paths), runners : Nat]
         /\ resources.shards \in Seq(Paths) /\ resources.shards # <<>>
         /\ resources.runners \in Nat \ {0}
         /\ resources.runners <= cpus + faults
         /\ cpus \in Nat \ {0} /\ faults \in Nat
BY DEF SetupInv, ProcessInv, SetupTypeOK, ResourcesInv, Silent, Listed, Phases

LEMMA StartLoadersInv ==
  ASSUME SetupInv, NEW metadata_ok \in BOOLEAN, NEW hw \in HwConcurrency,
         StartLoaders(metadata_ok, hw)
  PROVE  SetupInv'
<1> DEFINE num_threads == Min({hw, Len(resources.shards)})
<1>1. /\ pc = "metadata"
      /\ UNCHANGED <<limit, session, file, cpus, faults, resources, estimate,
                     thread_args, failed>>
  BY DEF StartLoaders
<1>2. /\ sending = <<>> /\ exit = "none" /\ SetupTypeOK /\ pc # "exited"
      /\ resources.shards \in Seq(Paths)
  BY <1>1, Loads DEF Silent
<1>3. CASE ~metadata_ok \/ num_threads = 0
  <2> DEFINE how == IF metadata_ok THEN "no_loader" ELSE "failure"
  <2>1. Exits(how)
    BY <1>3 DEF StartLoaders
  <2>2. how \in {"no_loader", "failure"}
    OBVIOUS
  <2> HIDE DEF how
  <2>3. SetupTypeOK'
    BY <1>1, <1>2, <2>1, <2>2 DEF SetupTypeOK, Exits, Phases
  <2>4. AbortsForCause'
    BY <2>1, <2>2 DEF AbortsForCause, Exits
  <2> QED BY <1>2, <2>1, <2>2, <2>3, <2>4, ExitsInv
<1>4. CASE ~(~metadata_ok \/ num_threads = 0)
  <2>1. /\ pc' = "load" /\ UNCHANGED <<exit, channelVars>>
        /\ shards' = [i \in DOMAIN resources.shards |-> NotYetLoaded]
    BY <1>4 DEF StartLoaders
  <2>2. SetupTypeOK'
    BY <1>1, <1>2, <2>1 DEF SetupTypeOK, Phases
  <2>3. ProcessInv' /\ ChannelInv' /\ LogFramed' /\ AbortsForCause'
    BY <1>2, <2>1, GoesOn
  <2>4. ResourcesInv'
    BY <1>1, <2>1 DEF SetupInv, ResourcesInv, Listed, Capped, Phases
  <2>5. ShardsInv'
    <3>1. IsShard(NotYetLoaded)
      BY DEF IsShard, NotYetLoaded, Error
    <3>2. shards' \in [DOMAIN resources.shards -> Range(shards')]
      BY <2>1 DEF Range
    <3> QED BY <1>1, <2>1, <3>1, <3>2 DEF ShardsInv, Started
  <2>6. ThreadsInv'
    BY <2>1 DEF ThreadsInv, Started
  <2> QED BY <2>2, <2>3, <2>4, <2>5, <2>6 DEF SetupInv
<1> QED BY <1>3, <1>4

LEMMA LoadNextInv ==
  ASSUME SetupInv, NEW t, NEW works \in BOOLEAN, LoadNext(t, works)
  PROVE  SetupInv'
<1> DEFINE i == loader[t] + 1
           s == LoadCorpus(file[resources.shards[i]], works)
<1>1. /\ pc = "load" /\ faults' \in {faults, faults + 1}
      /\ shards' = [shards EXCEPT ![i] = s]
      /\ UNCHANGED <<pc, exit, limit, session, file, cpus, resources, estimate,
                     thread_args, failed, channelVars>>
  BY DEF LoadNext, Loading, NoFault, Fault
<1>2. /\ sending = <<>> /\ exit = "none" /\ SetupTypeOK /\ pc # "exited"
      /\ resources.shards \in Seq(Paths)
      /\ cpus \in Nat \ {0} /\ faults \in Nat
      /\ resources.runners \in Nat \ {0} /\ resources.runners <= cpus + faults
  BY <1>1, Loads DEF Silent
<1>3. faults' \in Nat /\ faults <= faults'
  BY <1>1, <1>2
<1>4. SetupTypeOK'
  BY <1>1, <1>2, <1>3 DEF SetupTypeOK
<1>5. ProcessInv' /\ ChannelInv' /\ LogFramed' /\ AbortsForCause'
  BY <1>1, <1>2, GoesOn
<1>6. ResourcesInv'
  <2>1. resources.runners <= cpus + faults'
    BY <1>2, <1>3
  <2> QED BY <1>1, <2>1 DEF SetupInv, ResourcesInv, Listed, Capped, Phases
<1>7. ShardsInv'
  <2>1. /\ shards \in [DOMAIN resources.shards -> Range(shards)]
        /\ \A j \in DOMAIN shards : IsShard(shards[j])
    BY <1>1 DEF SetupInv, ShardsInv
  <2>2. DOMAIN shards' = DOMAIN shards /\ shards' \in [DOMAIN shards -> Range(shards')]
    BY <1>1, <2>1 DEF Range
  <2>3. ASSUME NEW j \in DOMAIN shards' PROVE IsShard(shards'[j])
    <3>1. CASE j = i
      <4>1. resources.shards[i] \in Paths
        BY <3>1, <2>1, <2>2, <1>2
      <4>2. IsShard(s)
        BY <4>1, <1>2, LoadCorpusFacts DEF SetupTypeOK
      <4>3. shards'[j] = s
        BY <3>1, <2>2, <1>1
      <4> QED BY <4>2, <4>3
    <3>2. CASE j # i
      <4>1. shards'[j] = shards[j] /\ j \in DOMAIN shards
        BY <3>2, <2>2, <1>1
      <4> QED BY <4>1, <2>1
    <3> QED BY <3>1, <3>2
  <2> QED BY <1>1, <2>1, <2>2, <2>3 DEF ShardsInv, Started
<1>8. ThreadsInv'
  BY <1>1 DEF ThreadsInv, Started
<1> QED BY <1>4, <1>5, <1>6, <1>7, <1>8 DEF SetupInv

LEMMA JoinLoadersInv ==
  ASSUME SetupInv, JoinLoaders
  PROVE  SetupInv'
<1>1. /\ pc = "load"
      /\ UNCHANGED <<limit, session, file, cpus, faults, resources, estimate,
                     loader, thread_args, failed>>
  BY DEF JoinLoaders
<1>2. /\ sending = <<>> /\ exit = "none" /\ SetupTypeOK /\ pc # "exited"
      /\ resources.shards \in Seq(Paths)
  BY <1>1, Loads DEF Silent
<1>3. /\ shards \in [DOMAIN resources.shards -> Range(shards)]
      /\ \A j \in DOMAIN shards : IsShard(shards[j])
  BY <1>1 DEF SetupInv, ShardsInv
<1>4. CASE Exits("failure")
  <2>1. SetupTypeOK'
    BY <1>1, <1>2, <1>4 DEF SetupTypeOK, Exits, Phases
  <2>2. AbortsForCause'
    BY <1>4 DEF AbortsForCause, Exits
  <2> QED BY <1>2, <1>4, <2>1, <2>2, ExitsInv
<1>5. CASE ~Exits("failure")
  <2>1. /\ \A i \in DOMAIN Loaded : Loaded[i].ok
        /\ ValidateCorpus(Loaded)
        /\ pc' = "args" /\ shards' = Loaded /\ UNCHANGED <<exit, channelVars>>
    BY <1>5 DEF JoinLoaders
  <2>2. Loaded = shards
    <3>1. ASSUME Loaded = <<NotYetLoaded>> PROVE FALSE
      <4>1. 1 \in DOMAIN Loaded /\ Loaded[1] = NotYetLoaded
        BY <3>1
      <4> QED BY <4>1, <2>1 DEF NotYetLoaded, Error
    <3> QED BY <3>1 DEF Loaded
  <2>3. ASSUME NEW i \in DOMAIN shards
        PROVE  shards[i].header = Intact(shards[i].file_size) /\ shards[i].file_size \in Nat
    <3>1. IsShard(shards[i]) /\ shards[i].ok /\ ValidateShard(shards[i])
      BY <2>1, <2>2, <1>3 DEF ValidateCorpus
    <3> QED BY <3>1, ValidShardIsIntact
  <2>4. SetupTypeOK'
    BY <1>1, <1>2, <2>1 DEF SetupTypeOK, Phases
  <2>5. ProcessInv' /\ ChannelInv' /\ LogFramed' /\ AbortsForCause'
    BY <1>2, <2>1, GoesOn
  <2>6. ResourcesInv'
    BY <1>1, <2>1 DEF SetupInv, ResourcesInv, Listed, Capped, Phases
  <2>7. ShardsInv'
    BY <1>1, <1>3, <2>1, <2>2, <2>3 DEF ShardsInv, Started
  <2>8. ThreadsInv'
    BY <2>1 DEF ThreadsInv, Started
  <2> QED BY <2>4, <2>5, <2>6, <2>7, <2>8 DEF SetupInv
<1> QED BY <1>4, <1>5

\* A span without an element: there are more spans than elements.
LEMMA EmptySpan ==
  ASSUME NEW size \in Nat, NEW n \in Nat \ {0},
         NEW t \in 0..(n - 1), PartitionEvenly(size, n)[t] = {}
  PROVE  size < n
<1> DEFINE b == SpanBegin(size, n)[t]
           z == SpanSize(size, n, t)
<1>1. b \in Nat /\ z \in Nat
  BY SpanBeginFacts
<1>2. PartitionEvenly(size, n)[t] = b .. (b + z - 1)
  BY DEF PartitionEvenly
<1> HIDE DEF b, z
<1>3. z = 0
  <2> SUFFICES ASSUME z # 0 PROVE b \in b .. (b + z - 1)
    BY <1>2
  <2> QED BY <1>1
<1>4. size \div n \in Nat /\ (n <= size => size \div n > 0)
  BY DivFacts
<1>5. size \div n = 0
  BY <1>3, <1>4, DivMod DEF z, SpanSize
<1> QED BY <1>4, <1>5

LEMMA PrepareThreadsInv ==
  ASSUME SetupInv, NEW sequential \in BOOLEAN, NEW logged \in BOOLEAN,
         PrepareThreads(sequential, logged)
  PROVE  SetupInv'
<1> DEFINE n == IF sequential THEN 1 ELSE resources.runners
           spans == PartitionEvenly(cpus, n)
<1>1. /\ pc = "args" /\ session' = logged /\ thread_args' = spans
      /\ UNCHANGED <<limit, file, cpus, faults, resources, estimate, shards,
                     loader, failed>>
  BY DEF PrepareThreads
<1>2. /\ sending = <<>> /\ exit = "none" /\ SetupTypeOK /\ pc # "exited"
      /\ cpus \in Nat \ {0} /\ faults \in Nat
      /\ resources.runners \in Nat \ {0} /\ resources.runners <= cpus + faults
  BY <1>1, Loads DEF Silent
<1>3. n \in Nat \ {0} /\ cpus \in Nat
  BY <1>2
<1>4. DOMAIN spans = 0..(n - 1)
  BY DEF PartitionEvenly
<1>5. CASE \E t \in DOMAIN spans : spans[t] = {}
  <2>1. PICK t \in 0..(n - 1) : spans[t] = {}
    BY <1>4, <1>5
  <2>2. Exits("no_cpu")
    BY <1>5 DEF PrepareThreads
  <2>3. cpus < n
    <3> HIDE DEF n
    <3> QED BY <1>3, <2>1, EmptySpan
  <2>4. cpus < resources.runners /\ faults > 0
    BY <1>2, <2>3
  <2>5. SetupTypeOK'
    BY <1>1, <1>2, <2>2 DEF SetupTypeOK, Exits, Phases
  <2>6. AbortsForCause'
    BY <1>1, <2>2, <2>4 DEF AbortsForCause, Exits
  <2> QED BY <1>2, <2>2, <2>5, <2>6, ExitsInv
<1>6. CASE ~(\E t \in DOMAIN spans : spans[t] = {})
  <2>1. pc' \in {"log_start", "running"} /\ UNCHANGED <<exit, channelVars>>
    BY <1>6 DEF PrepareThreads
  <2>2. SetupTypeOK'
    BY <1>1, <1>2, <2>1 DEF SetupTypeOK, Phases
  <2>3. ProcessInv' /\ ChannelInv' /\ LogFramed' /\ AbortsForCause'
    BY <1>2, <2>1, GoesOn
  <2>4. ResourcesInv' /\ ShardsInv'
    BY <1>1, <2>1 DEF SetupInv, ResourcesInv, ShardsInv, Listed, Capped, Phases
  <2>5. ThreadsInv'
    <3>1. \A i, j \in 0..(n - 1) : i < j => \A x \in spans[i], y \in spans[j] : x < y
      <4> HIDE DEF n
      <4> QED BY <1>3, PartitionIsEven
    <3>2. ASSUME NEW t \in 0..(n - 1), NEW u \in 0..(n - 1), t # u,
                 NEW x \in spans[t], x \in spans[u]
          PROVE  FALSE
      <4>1. t < u \/ u < t
        BY <3>2
      <4>2. x < x
        BY <3>1, <3>2, <4>1
      <4>3. x \in Int
        BY DEF PartitionEvenly
      <4> QED BY <4>2, <4>3
    <3>3. \A t, u \in DOMAIN spans : t # u => spans[t] \cap spans[u] = {}
      BY <1>4, <3>2
    <3> QED BY <1>1, <1>6, <3>3 DEF ThreadsInv
  <2> QED BY <2>2, <2>3, <2>4, <2>5 DEF SetupInv
<1> QED BY <1>5, <1>6

\* While the session runs, main begins to send an entry.
LEMMA SendsInv ==
  ASSUME SetupInv, Started, pc' \in {"sending_start", "running", "returning"},
         NEW e \in Entries, SendBegin(e), failed' \in Nat,
         UNCHANGED <<exit, limit, session, file, cpus, faults, resources, estimate,
                     shards, loader, thread_args>>
  PROVE  SetupInv'
<1>1. exit = "none" /\ writer_open /\ recv_status = "ok" /\ ~cut /\ SetupTypeOK
  BY DEF SetupInv, ProcessInv, Started, ChannelInv, ClosedInv
<1>2. ChannelInv'
  BY <1>1, SendBeginChannel DEF SetupInv
<1>3. UNCHANGED <<cut, writer_open, reader_open, written, received, recv_status>>
  BY DEF SendBegin
<1>4. SetupTypeOK'
  BY <1>1 DEF SetupTypeOK, Phases
<1>5. ProcessInv'
  BY <1>1, <1>3 DEF ProcessInv, Silent
<1>6. ResourcesInv' /\ ShardsInv' /\ ThreadsInv' /\ AbortsForCause'
  BY <1>1 DEF SetupInv, ResourcesInv, ShardsInv, ThreadsInv, AbortsForCause, Started,
              Listed, Capped, Phases
<1>7. IsPrefix(received, begun)'
  BY <1>2, ReceivedIsPrefix, PTL
<1>8. LogFramed'
  BY <1>1, <1>3, <1>7 DEF LogFramed
<1> QED BY <1>2, <1>4, <1>5, <1>6, <1>8 DEF SetupInv

\* A step of the channel alone.
LEMMA ChannelStepInv ==
  ASSUME SetupInv, UNCHANGED setupVars, ChannelInv', ProcessInv', LogFramed'
  PROVE  SetupInv'
BY DEF SetupInv, setupVars, SetupTypeOK, ResourcesInv, ShardsInv, ThreadsInv,
       AbortsForCause, Started, Listed, Capped

LEMMA WriteInv ==
  ASSUME SetupInv, Write
  PROVE  SetupInv'
<1>1. /\ sending # <<>> /\ UNCHANGED setupVars
      /\ UNCHANGED <<cut, writer_open, reader_open, begun, received, recv_status>>
  BY DEF Write, WriteSome, WriteFails
<1>2. ChannelInv'
  BY WriteSomeChannel, WriteFailsChannel DEF Write, SetupInv
<1>3. writer_open /\ recv_status = "ok" /\ ~cut /\ exit = "none" /\ ~Silent
  BY <1>1 DEF SetupInv, ProcessInv, ChannelInv, SendingInv, ClosedInv
<1>4. ProcessInv'
  BY <1>1, <1>3 DEF SetupInv, ProcessInv, Silent, setupVars
<1>5. LogFramed'
  BY <1>1, <1>3 DEF SetupInv, LogFramed
<1> QED BY <1>1, <1>2, <1>4, <1>5, ChannelStepInv

LEMMA ReceiveInv ==
  ASSUME SetupInv, Receive
  PROVE  SetupInv'
<1>1. /\ UNCHANGED setupVars
      /\ UNCHANGED <<cut, writer_open, reader_open, sending, begun, written>>
      /\ reader_open
  BY DEF Receive, ReadSome, ReadEof
<1>2. ProcessInv'
  BY <1>1 DEF SetupInv, ProcessInv, Silent, setupVars
<1>3. CASE \E k \in 1..Len(pipe) : ReadSome(k)
  <2>1. ChannelInv' /\ recv_status' = "ok"
    BY <1>3, ReadSomeChannel DEF SetupInv
  <2>2. IsPrefix(received, begun)'
    BY <2>1, ReceivedIsPrefix, PTL
  <2>3. LogFramed'
    BY <2>1, <2>2 DEF LogFramed
  <2> QED BY <1>1, <1>2, <2>1, <2>3, ChannelStepInv
<1>4. CASE ReadEof
  <2>1. ChannelInv'
    BY <1>4, ReadEofChannel DEF SetupInv
  <2>2. /\ reading = <<>> => received = written /\ ~cut
        /\ reading # <<>> => cut
    BY <1>4, AtEof DEF SetupInv
  <2>3. /\ recv_status' = "EOC" => reading = <<>>
        /\ recv_status' # "EOC" => reading # <<>>
        /\ UNCHANGED received
    BY <1>4 DEF ReadEof, StatusAtEof
  <2>4. /\ cut => exit = "watchdog"
        /\ exit \in {"success", "failure"} => written = begun
        /\ IsPrefix(received, begun)
    BY <1>1 DEF SetupInv, ProcessInv, LogFramed
  <2>5. LogFramed'
    BY <1>1, <2>2, <2>3, <2>4 DEF LogFramed, setupVars
  <2> QED BY <1>1, <1>2, <2>1, <2>5, ChannelStepInv
<1> QED BY <1>3, <1>4 DEF Receive

LEMMA ParentInv ==
  ASSUME SetupInv, ParentStopsListening
  PROVE  SetupInv'
<1>1. /\ CloseReader /\ UNCHANGED setupVars /\ reader_open' = FALSE
      /\ UNCHANGED <<cut, writer_open, sending, begun, written, received, recv_status>>
  BY DEF ParentStopsListening, CloseReader
<1>2. ChannelInv'
  BY <1>1, CloseReaderChannel DEF SetupInv
<1>3. ProcessInv' /\ LogFramed'
  BY <1>1 DEF SetupInv, ProcessInv, LogFramed, Silent, setupVars
<1> QED BY <1>1, <1>2, <1>3, ChannelStepInv

\* Faults of the machine leave main and the log alone.
LEMMA FaultInv ==
  ASSUME SetupInv, (\E p \in Paths : FileReplaced(p)) \/ CpuLost
  PROVE  SetupInv'
<1>1. /\ Silent /\ pc # "main" /\ pc \notin {"args", "log_start"}
      /\ faults' = faults + 1
      /\ UNCHANGED <<pc, exit, limit, session, resources, estimate,
                     shards, loader, thread_args, failed, channelVars>>
  BY DEF FileReplaced, CpuLost, Loading, Fault, Silent
<1>2. /\ sending = <<>> /\ exit = "none" /\ SetupTypeOK /\ pc # "exited"
      /\ cpus \in Nat \ {0} /\ faults \in Nat
      /\ resources.runners \in Nat \ {0} /\ resources.runners <= cpus + faults
  BY <1>1, Loads
<1>3. cpus' \in Nat \ {0} /\ resources.runners <= cpus' + faults' /\ faults' \in Nat
  <2>1. CASE CpuLost
    BY <2>1, <1>1, <1>2 DEF CpuLost
  <2>2. CASE \E p \in Paths : FileReplaced(p)
    BY <2>2, <1>1, <1>2 DEF FileReplaced
  <2> QED BY <2>1, <2>2
<1>4. file' \in [Paths -> Range(file')] /\ \A p \in Paths : IsFile(file'[p])
  <2>0. file \in [Paths -> Range(file)] /\ \A p \in Paths : IsFile(file[p])
    BY <1>2 DEF SetupTypeOK
  <2>1. CASE CpuLost
    BY <2>0, <2>1 DEF CpuLost
  <2>2. CASE \E p \in Paths : FileReplaced(p)
    <3>1. PICK p \in Paths, f \in Files : file' = [file EXCEPT ![p] = f]
      BY <2>2 DEF FileReplaced
    <3>2. IsFile(f)
      BY FileAssumption
    <3> QED BY <2>0, <3>1, <3>2 DEF Range
  <2> QED BY <2>1, <2>2
<1>5. SetupTypeOK'
  BY <1>1, <1>2, <1>3, <1>4 DEF SetupTypeOK
<1>6. ProcessInv' /\ ChannelInv' /\ LogFramed' /\ AbortsForCause'
  BY <1>1, <1>2, GoesOn
<1>7. ResourcesInv'
  BY <1>1, <1>3 DEF SetupInv, ResourcesInv, Listed, Capped
<1>8. ShardsInv' /\ ThreadsInv'
  BY <1>1 DEF SetupInv, ShardsInv, ThreadsInv, Started
<1> QED BY <1>5, <1>6, <1>7, <1>8 DEF SetupInv

LEMMA LogStartInv ==
  ASSUME SetupInv, LogSessionStart
  PROVE  SetupInv'
<1> DEFINE e == [kind |-> "start", n |-> 0]
<1>1. /\ Started /\ pc' = "sending_start" /\ SendBegin(e)
      /\ UNCHANGED <<exit, limit, session, file, cpus, faults, resources, estimate,
                     shards, loader, thread_args, failed>>
  BY DEF LogSessionStart, Started
<1>2. e \in Entries
  BY SetupAssumption DEF Entries
<1>3. failed' \in Nat
  BY <1>1 DEF SetupInv, SetupTypeOK
<1> HIDE DEF e
<1> QED BY <1>1, <1>2, <1>3, SendsInv

LEMMA ResultFailedInv ==
  ASSUME SetupInv, ResultFailed
  PROVE  SetupInv'
<1> DEFINE e == [kind |-> "result", n |-> failed + 1]
<1>1. /\ Started /\ pc' = "running" /\ SendBegin(e) /\ failed' = failed + 1
      /\ UNCHANGED <<exit, limit, session, file, cpus, faults, resources, estimate,
                     shards, loader, thread_args>>
  BY DEF ResultFailed, Started
<1>2. failed \in Nat
  BY DEF SetupInv, SetupTypeOK
<1>3. e \in Entries /\ failed' \in Nat
  BY <1>1, <1>2, SetupAssumption DEF Entries
<1>4. PICK d \in Entries : d = e
  BY <1>3
<1> HIDE DEF e
<1> QED BY <1>1, <1>3, <1>4, SendsInv

\* Steps of a running session that send nothing.
LEMMA RunsOn ==
  ASSUME SetupInv, Started, pc' \in {"running", "returning"}, sending = <<>>,
         UNCHANGED <<exit, limit, session, file, cpus, faults, resources, estimate,
                     shards, loader, thread_args, failed, channelVars>>
  PROVE  SetupInv'
<1>1. ProcessInv' /\ ChannelInv' /\ LogFramed' /\ AbortsForCause'
  BY GoesOn DEF Started
<1>2. SetupTypeOK'
  BY DEF SetupInv, SetupTypeOK, Phases
<1>3. ResourcesInv' /\ ShardsInv' /\ ThreadsInv'
  BY DEF SetupInv, ResourcesInv, ShardsInv, ThreadsInv, Started, Listed, Capped, Phases
<1> QED BY <1>1, <1>2, <1>3 DEF SetupInv

\* The process ends while the session runs.
LEMMA RunEnds ==
  ASSUME SetupInv, Started, NEW how, how \in {"success", "failure", "watchdog"},
         sending = <<>> \/ how = "watchdog", Exits(how),
         UNCHANGED <<limit, session, file, cpus, faults, resources, estimate,
                     shards, loader, thread_args, failed>>
  PROVE  SetupInv'
<1>1. SetupTypeOK'
  BY DEF SetupInv, SetupTypeOK, Exits, Phases
<1>2. AbortsForCause'
  BY DEF AbortsForCause, Exits
<1>3. pc # "exited"
  BY DEF Started
<1> QED BY <1>1, <1>2, <1>3, ExitsInv

LEMMA SessionStepsInv ==
  ASSUME SetupInv, StartLogged \/ LogSessionSummary \/ Return \/ Watchdog
  PROVE  SetupInv'
<1>1. CASE StartLogged
  <2>1. /\ Started /\ sending = <<>>
        /\ UNCHANGED <<limit, session, file, cpus, faults, resources, estimate,
                       shards, loader, thread_args, failed>>
    BY <1>1 DEF StartLogged, Started
  <2>2. CASE send_status = "ok"
    <3>1. pc' = "running" /\ UNCHANGED <<exit, channelVars>>
      BY <1>1, <2>2 DEF StartLogged
    <3> QED BY <2>1, <3>1, RunsOn
  <2>3. CASE send_status # "ok"
    <3>1. Exits("failure")
      BY <1>1, <2>3 DEF StartLogged
    <3> QED BY <2>1, <3>1, RunEnds
  <2> QED BY <2>2, <2>3
<1>2. CASE LogSessionSummary
  <2> DEFINE e == [kind |-> "summary", n |-> failed]
  <2>1. /\ Started /\ sending = <<>> /\ pc' = "returning"
        /\ UNCHANGED <<exit, limit, session, file, cpus, faults, resources, estimate,
                       shards, loader, thread_args, failed>>
    BY <1>2 DEF LogSessionSummary, Started
  <2>2. SendBegin(e) \/ UNCHANGED channelVars
    BY <1>2 DEF LogSessionSummary
  <2>3. failed \in Nat /\ failed' \in Nat
    BY <2>1 DEF SetupInv, SetupTypeOK
  <2>4. PICK d \in Entries : d = e
    BY <2>3, SetupAssumption DEF Entries
  <2> HIDE DEF e
  <2>5. CASE SendBegin(e)
    BY <2>1, <2>3, <2>4, <2>5, SendsInv
  <2>6. CASE UNCHANGED channelVars
    BY <2>1, <2>6, RunsOn
  <2> QED BY <2>2, <2>5, <2>6
<1>3. CASE Return
  <2> DEFINE how == IF failed > 0 THEN "failure" ELSE "success"
  <2>1. /\ Started /\ sending = <<>> /\ Exits(how)
        /\ UNCHANGED <<limit, session, file, cpus, faults, resources, estimate,
                       shards, loader, thread_args, failed>>
    BY <1>3 DEF Return, Started
  <2>2. PICK h \in {"success", "failure"} : h = how
    OBVIOUS
  <2> HIDE DEF how
  <2> QED BY <2>1, <2>2, RunEnds
<1>4. CASE Watchdog
  <2>1. /\ Started /\ Exits("watchdog")
        /\ UNCHANGED <<limit, session, file, cpus, faults, resources, estimate,
                       shards, loader, thread_args, failed>>
    BY <1>4 DEF Watchdog, Started
  <2> QED BY <2>1, RunEnds
<1> QED BY <1>1, <1>2, <1>3, <1>4

-----------------------------------------------------------------------------
(* The theorems                                                              *)

LEMMA StepInv == SetupInv /\ [Next]_vars => SetupInv'
<1> SUFFICES ASSUME SetupInv, [Next]_vars PROVE SetupInv'
  OBVIOUS
<1>1. CASE \E lines \in ShardLists, readable \in BOOLEAN, n \in MaxCpus, l \in Limits :
             Main(lines, readable, n, l)
  BY <1>1, MainInv
<1>2. CASE \E works \in BOOLEAN : CapResourcesToMemLimit(works)
  BY <1>2, CapResourcesInv
<1>3. CASE \E ok \in BOOLEAN, hw \in HwConcurrency : StartLoaders(ok, hw)
  BY <1>3, StartLoadersInv
<1>4. CASE JoinLoaders
  BY <1>4, JoinLoadersInv
<1>5. CASE \E sequential, logged \in BOOLEAN : PrepareThreads(sequential, logged)
  BY <1>5, PrepareThreadsInv
<1>6. CASE LogSessionStart
  BY <1>6, LogStartInv
<1>7. CASE StartLogged \/ LogSessionSummary \/ Return \/ Watchdog
  BY <1>7, SessionStepsInv
<1>8. CASE Write
  BY <1>8, WriteInv
<1>9. CASE \E t \in DOMAIN loader : LoaderStep(t)
  BY <1>9, LoadNextInv DEF LoaderStep
<1>10. CASE ResultFailed
  BY <1>10, ResultFailedInv
<1>11. CASE Receive
  BY <1>11, ReceiveInv
<1>12. CASE ParentStopsListening
  BY <1>12, ParentInv
<1>13. CASE (\E p \in Paths : FileReplaced(p)) \/ CpuLost
  BY <1>13, FaultInv
<1>14. CASE UNCHANGED vars
  <2>1. UNCHANGED setupVars /\ UNCHANGED channelVars
    BY <1>14 DEF vars
  <2>2. ChannelInv' /\ ProcessInv' /\ LogFramed'
    BY <2>1 DEF SetupInv, setupVars, channelVars, ChannelInv, ChannelTypeOK, HistoryInv,
                SendingInv, StreamInv, ClosedInv, Unreceived, ReadFrom, WrittenTo,
                ProcessInv, Silent, LogFramed
  <2> QED BY <2>1, <2>2, ChannelStepInv
<1> QED BY <1>1, <1>2, <1>3, <1>4, <1>5, <1>6, <1>7, <1>8, <1>9, <1>10, <1>11, <1>12,
           <1>13, <1>14 DEF Next, MainStep

\* The invariant holds of every setup and every session: for any files, flags
\* and sizes, wherever the files are replaced, a CPU is lost, the parent goes
\* away or the watchdog strikes.
THEOREM SetupCorrect == Spec => []SetupInv
<1>1. Init => SetupInv
  BY InitInv
<1>2. SetupInv /\ [Next]_vars => SetupInv'
  BY StepInv
<1> QED BY <1>1, <1>2, PTL DEF Spec

\* Receive returns the entries of Send, in order and whole; it reports the end
\* of the channel only after the last one, and an error only for an entry that
\* the watchdog's _exit cut.
THEOREM LogIsFramed == Spec => []LogFramed
<1>1. SetupInv => LogFramed
  BY DEF SetupInv
<1> QED BY <1>1, SetupCorrect, PTL

\* A session starts with intact shards, runners and shards within the memory
\* limit as far as the estimate is right, and CPUs for every thread that no
\* other has; the setup dies of a CHECK or a signal for the three known reasons
\* only, and CHECK_GT(max_shards, 0) never fails.
THEOREM SetupIsSound == Spec => []SetupSound
<1>1. SetupInv => SetupSound
  <2> SUFFICES ASSUME SetupInv PROVE SetupSound
    OBVIOUS
  <2>1. IntactShardsOnly
    <3> SUFFICES ASSUME Started PROVE IntactShardsOnly
      BY DEF IntactShardsOnly
    <3>1. /\ shards \in [DOMAIN resources.shards -> Range(shards)]
          /\ resources.shards \in Seq(Paths)
          /\ \A i \in DOMAIN shards : shards[i].header = Intact(shards[i].file_size)
      BY DEF SetupInv, ShardsInv, SetupTypeOK
    <3>2. DOMAIN shards = 1..Len(resources.shards) /\ Len(resources.shards) \in Nat
      BY <3>1
    <3>3. Len(shards) = Len(resources.shards)
      <4>1. shards \in Seq(Range(shards))
        BY <3>1, <3>2
      <4> QED BY <4>1, <3>2
    <3> QED BY <3>1, <3>3 DEF IntactShardsOnly
  <2>2. WithinLimits
    <3> SUFFICES ASSUME Started PROVE WithinLimits
      BY DEF WithinLimits
    <3> DEFINE mb == [i \in DOMAIN shards |-> RoundUpToMb(shards[i].file_size)]
    <3>1. /\ shards \in [DOMAIN resources.shards -> Range(shards)]
          /\ resources.shards \in Seq(Paths) /\ estimate \in Nat
          /\ resources.runners \in Nat
          /\ \A i \in DOMAIN shards : shards[i].file_size \in Nat
      BY DEF SetupInv, ShardsInv, SetupTypeOK
    <3>2. DOMAIN shards = 1..Len(resources.shards) /\ Len(resources.shards) \in Nat
      BY <3>1
    <3>3. ASSUME NEW i \in DOMAIN shards PROVE RoundUpToMb(shards[i].file_size) \in Nat
      <4> DEFINE a == shards[i].file_size + UnitsPerMb - 1
      <4>1. UnitsPerMb \in Nat \ {0} /\ a \in Nat
        BY <3>1, SetupAssumption
      <4> HIDE DEF a
      <4>2. a \div UnitsPerMb \in Nat
        BY <4>1, DivMod
      <4> QED BY <4>2 DEF RoundUpToMb, a
    <3>4. mb \in Seq(Nat) /\ Len(mb) = Len(resources.shards) /\ DOMAIN mb = 1..Len(mb)
      BY <3>2, <3>3
    <3> HIDE DEF mb
    <3>5. ASSUME limit # Unlimited, ~ \E i \in DOMAIN mb : mb[i] > estimate
          PROVE  RunnerMb * resources.runners + Sums(mb)[Len(mb)] <= limit
      <4>1. \A i \in 1..Len(mb) : mb[i] <= estimate
        BY <3>1, <3>4, <3>5
      <4>2. Sums(mb)[Len(mb)] <= estimate * Len(mb) /\ Sums(mb)[Len(mb)] \in Nat
        <5>1. Sums(mb)[Len(mb)] <= estimate * Len(mb)
          BY <4>1, <3>1, <3>4, SumsBound
        <5>2. \A i \in 0..Len(mb) : Sums(mb)[i] \in Nat
          BY <3>4, SumsFacts
        <5>3. Len(mb) \in 0..Len(mb)
          BY <3>4
        <5> QED BY <5>1, <5>2, <5>3
      <4>3. RunnerMb * resources.runners + estimate * Len(mb) <= limit
        BY <3>4, <3>5 DEF SetupInv, ResourcesInv, Capped, Started, Phases
      <4>4. /\ RunnerMb * resources.runners \in Nat /\ estimate * Len(mb) \in Nat
            /\ limit \in Int
        BY <3>1, <3>4, <3>5, SetupAssumption DEF SetupInv, SetupTypeOK
      <4> QED BY <4>2, <4>3, <4>4
    <3>6. ThreadsInv
      BY DEF SetupInv
    <3> QED BY <3>5, <3>6 DEF WithinLimits, ThreadsInv, mb
  <2> QED BY <2>1, <2>2 DEF SetupSound, SetupInv
<1> QED BY <1>1, SetupCorrect, PTL

=============================================================================
