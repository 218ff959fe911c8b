-------------------------- MODULE FcgxWriterProofs --------------------------
(***************************************************************************)
(* Proofs about FcgxWriter and FcgxResponse, for every buffer length,      *)
(* every size of what the application writes, every point where a write    *)
(* fails, and any number of requests.                                      *)
(*                                                                         *)
(* The first part is about the streams (IInv, up to EndTheorem), the       *)
(* second about the records that the server decodes (RInv and the          *)
(* refinement of ResponseStream).                                          *)
(***************************************************************************)
EXTENDS FcgxResponse, SequenceTheorems, NatSetProofs, TLAPS

(***************************************************************************)
(* The sequences of the model are over a set of cells.  The lemmas take    *)
(* that set as a parameter C, so that the same lemma gives type            *)
(* correctness (C is all cells) and the absence of an early end-request    *)
(* (C leaves out the end-request bodies of the current request).           *)
(***************************************************************************)

\* Cells that are not part of an end-request body.
PlainCell ==
    ({"hdr"} \X (Streams \cup {"end"}) \X Nat \X (0 .. FCGI_MAX_LENGTH)
             \X (0 .. 255) \X (1 .. FCGI_HEADER_LEN))
    \cup ({"data"} \X Streams \X Nat)
    \cup {<<"pad">>, <<"slot">>}

\* Cells whose end-request bodies are those of requests up to n.
CellUpTo(n) ==
    PlainCell \cup ({"body"} \X {i \in Nat : i <= n} \X Int \X (1 .. 8))

StreamOver(C) ==
    [type : Streams, buff : Seq(C), stop : Nat, isClosed : BOOLEAN,
     wasFCloseCalled : BOOLEAN, FCGI_errno : Nat, isAnythingWritten : BOOLEAN,
     rawWrite : BOOLEAN]

NetOver(C) == [wire : Seq(C), room : Nat, open : BOOLEAN]

Worlds(C) == [st : StreamOver(C), req : RequestType, net : NetOver(C)]

\* Concatenation and subsequences, as far as they are needed here.
LEMMA ConcatLemma ==
    ASSUME NEW S, NEW a \in Seq(S), NEW b \in Seq(S)
    PROVE  a \o b \in Seq(S) /\ Len(a \o b) = Len(a) + Len(b)
BY ConcatProperties

\* A prefix and a suffix of a sequence of cells.
LEMMA SubSeqLemma ==
    ASSUME NEW S, NEW s \in Seq(S), NEW m \in 1 .. Len(s) + 1, NEW n \in m - 1 .. Len(s)
    PROVE  SubSeq(s, m, n) \in Seq(S) /\ Len(SubSeq(s, m, n)) = n - m + 1
<1>1. Len(s) \in Nat /\ m \in Int /\ n \in Int
  BY LenProperties
<1>2. \A i \in m .. n : s[i] \in S
  BY <1>1, ElementOfSeq
<1> QED
  BY <1>1, <1>2, SubSeqProperties

\* Every cell of CellUpTo(n) is a cell, and more are allowed for larger n.
LEMMA CellsGrow ==
    ASSUME NEW m \in Int, NEW n \in Int, m <= n
    PROVE  /\ PlainCell \subseteq CellUpTo(m)
           /\ CellUpTo(m) \subseteq CellUpTo(n)
           /\ CellUpTo(m) \subseteq Cell
BY DEF CellUpTo, PlainCell, Cell

\* A larger set of cells admits more streams and connections.
LEMMA WorldsGrow ==
    ASSUME NEW C, NEW D, C \subseteq D
    PROVE  /\ StreamOver(C) \subseteq StreamOver(D)
           /\ NetOver(C) \subseteq NetOver(D)
<1>1. Seq(C) \subseteq Seq(D)
  BY SeqMonotonic
<1> QED
  BY <1>1 DEF StreamOver, NetOver

\* What MakeHeader returns, provided that its two ASSERTs hold.
LEMMA HeaderLemma ==
    ASSUME NEW t \in Streams \cup {"end"}, NEW id \in Nat,
           NEW c \in 0 .. FCGI_MAX_LENGTH, NEW p \in 0 .. 255
    PROVE  /\ MakeHeader(t, id, c, p) \in Seq(PlainCell)
           /\ Len(MakeHeader(t, id, c, p)) = FCGI_HEADER_LEN
<1>1. MakeHeader(t, id, c, p) \in [1 .. FCGI_HEADER_LEN -> PlainCell]
  <2>1. ASSUME NEW i \in 1 .. FCGI_HEADER_LEN
        PROVE  <<"hdr", t, id, c, p, i>> \in PlainCell
    BY DEF PlainCell
  <2> QED
    BY <2>1 DEF MakeHeader
<1>2. FCGI_HEADER_LEN \in Nat
  BY DEF FCGI_HEADER_LEN
<1>3. MakeHeader(t, id, c, p) \in Seq(PlainCell)
  BY <1>1, <1>2, SeqDef
<1> QED
  BY <1>1, <1>2, <1>3, LenProperties DEF MakeHeader

\* The header slot, padding and data are plain cells.
LEMMA FillerLemma ==
    /\ HeaderSlot \in Seq(PlainCell) /\ Len(HeaderSlot) = FCGI_HEADER_LEN
    /\ \A n \in Nat : Padding(n) \in Seq(PlainCell) /\ Len(Padding(n)) = n
    /\ \A s \in Streams, n \in Nat, m \in Nat :
          Bytes(s, n, m) \in Seq(PlainCell) /\ Len(Bytes(s, n, m)) = m
<1>1. /\ HeaderSlot \in Seq(PlainCell)
      /\ Len(HeaderSlot) = FCGI_HEADER_LEN
  <2>1. HeaderSlot \in [1 .. FCGI_HEADER_LEN -> PlainCell] /\ FCGI_HEADER_LEN \in Nat
    BY DEF HeaderSlot, PlainCell, FCGI_HEADER_LEN
  <2>2. HeaderSlot \in Seq(PlainCell)
    BY <2>1, SeqDef
  <2> QED
    BY <2>1, <2>2, LenProperties DEF HeaderSlot
<1>2. ASSUME NEW n \in Nat
      PROVE  Padding(n) \in Seq(PlainCell) /\ Len(Padding(n)) = n
  <2>1. Padding(n) \in [1 .. n -> PlainCell]
    BY DEF Padding, PlainCell
  <2>2. Padding(n) \in Seq(PlainCell)
    BY <2>1, SeqDef
  <2> QED
    BY <2>1, <2>2, LenProperties DEF Padding
<1>3. ASSUME NEW s \in Streams, NEW n \in Nat, NEW m \in Nat
      PROVE  Bytes(s, n, m) \in Seq(PlainCell) /\ Len(Bytes(s, n, m)) = m
  <2>1. Bytes(s, n, m) \in [1 .. m -> PlainCell]
    BY DEF Bytes, PlainCell
  <2>2. Bytes(s, n, m) \in Seq(PlainCell)
    BY <2>1, SeqDef
  <2> QED
    BY <2>1, <2>2, LenProperties DEF Bytes
<1> QED
  BY <1>1, <1>2, <1>3

\* The FCGI_END_REQUEST record of request id.
LEMMA EndRequestLemma ==
    ASSUME NEW id \in Nat, NEW status \in Int
    PROVE  /\ EndRequestRecord(id, status) \in Seq(CellUpTo(id))
           /\ Len(EndRequestRecord(id, status)) <= 16
<1> DEFINE h == MakeHeader("end", id, 8, 0)
           b == MakeEndRequestBody(id, status)
<1>1. h \in Seq(CellUpTo(id)) /\ Len(h) = FCGI_HEADER_LEN
  <2>1. 8 \in 0 .. FCGI_MAX_LENGTH /\ 0 \in 0 .. 255 /\ "end" \in Streams \cup {"end"}
    BY DEF FCGI_MAX_LENGTH
  <2>2. h \in Seq(PlainCell) /\ Len(h) = FCGI_HEADER_LEN
    BY <2>1, HeaderLemma
  <2> QED
    BY <2>2, SeqMonotonic DEF CellUpTo
<1>2. b \in Seq(CellUpTo(id)) /\ Len(b) <= 8
  <2>1. ASSUME NEW i \in 1 .. 8
        PROVE  <<"body", id, status, i>> \in CellUpTo(id)
    BY DEF CellUpTo
  <2>2. b \in [1 .. 8 -> CellUpTo(id)]
    BY <2>1 DEF MakeEndRequestBody
  <2>3. b \in Seq(CellUpTo(id))
    BY <2>2, SeqDef
  <2> QED
    BY <2>2, <2>3, LenProperties DEF MakeEndRequestBody
<1> HIDE DEF h, b
<1>3. h \o b \in Seq(CellUpTo(id)) /\ Len(h \o b) = Len(h) + Len(b)
  BY <1>1, <1>2, ConcatLemma
<1>4. Len(h \o b) <= 16
  <2>1. FCGI_HEADER_LEN <= 8 /\ FCGI_HEADER_LEN \in Nat
    BY DEF FCGI_HEADER_LEN
  <2> QED
    BY <2>1, <1>1, <1>2, <1>3, LenProperties
<1> QED
  BY <1>3, <1>4 DEF EndRequestRecord, h, b

\* AlignInt8 rounds up to a multiple of 8, and to no more than the next one.
LEMMA AlignLemma ==
    ASSUME NEW n \in Nat
    PROVE  /\ AlignInt8(n) \in Nat
           /\ n <= AlignInt8(n) /\ AlignInt8(n) <= n + 7
           /\ \A b \in Nat : n <= b /\ b % 8 = 0 => AlignInt8(n) <= b
BY DEF AlignInt8

(***************************************************************************)
(* The stream operations                                                   *)
(***************************************************************************)

\* The fields that no operation but FCGX_FClose changes.
SameStream(v, w) ==
    /\ v.st.type = w.st.type /\ v.st.stop = w.st.stop
    /\ v.st.wasFCloseCalled = w.st.wasFCloseCalled

\* A stream that is collecting content behind the space for a header.
Collecting(st) ==
    /\ ~ st.rawWrite
    /\ Len(st.buff) >= FCGI_HEADER_LEN
    /\ Len(st.buff) <= st.stop
    /\ st.stop = BuffLen[st.type]

\* What is assumed of the buffer lengths, as inequalities.
LEMMA BuffLenLemma ==
    ASSUME NEW s \in Streams
    PROVE  /\ BuffLen[s] \in Nat /\ BuffLen[s] >= 24
           /\ BuffLen[s] <= FCGI_MAX_LENGTH + 1
           /\ BuffLen[s] % 8 = 0
           /\ FCGI_MAX_LENGTH \in Nat
<1>1. FCGI_MAX_LENGTH \in Nat
  BY DEF FCGI_MAX_LENGTH
<1>2. BuffLen[s] \in {n \in 24 .. FCGI_MAX_LENGTH + 1 : n % 8 = 0}
  BY BuffLenAssumption
<1> QED
  BY <1>1, <1>2

\* Encapsulate makes a record that fits the buffer, or an empty buffer.
LEMMA EncapsulateLemma ==
    ASSUME NEW C, PlainCell \subseteq C, NEW w \in Worlds(C), Collecting(w.st)
    PROVE  LET e == Encapsulate(w)
           IN  /\ e \in Worlds(C) /\ SameStream(e, w)
               /\ e.req = w.req /\ e.net = w.net
               /\ ~ e.st.rawWrite /\ (e.st.isClosed <=> w.st.isClosed)
               /\ Len(e.st.buff) <= e.st.stop
               /\ e.st.buff = <<>> \/ Len(e.st.buff) >= FCGI_HEADER_LEN
<1> DEFINE b == w.st.buff
           B == BuffLen[w.st.type]
           cLen == Len(b) - FCGI_HEADER_LEN
           eLen == AlignInt8(cLen)
           h == MakeHeader(w.st.type, w.req.requestId, cLen, eLen - cLen)
           content == SubSeq(b, FCGI_HEADER_LEN + 1, Len(b))
           pad == Padding(eLen - cLen)
           record == h \o content \o pad
           new == IF cLen > 0 THEN record ELSE <<>>
           e == [w EXCEPT !.st.buff = new]
<1>1. /\ b \in Seq(C) /\ Len(b) \in Nat /\ w.st.type \in Streams
      /\ w.req.requestId \in Nat
  BY LenProperties DEF Worlds, StreamOver, RequestType
<1>2. Encapsulate(w) = e
  BY DEF Encapsulate, Collecting
<1>3. /\ Len(b) <= B /\ Len(b) >= 8 /\ B \in Nat /\ B % 8 = 0
      /\ B <= FCGI_MAX_LENGTH + 1 /\ FCGI_MAX_LENGTH \in Nat /\ w.st.stop = B
      /\ FCGI_HEADER_LEN = 8
  BY <1>1, BuffLenLemma DEF Collecting, FCGI_HEADER_LEN
<1> HIDE DEF b, B, cLen, eLen, h, content, pad, record, new
<1>4. cLen \in Nat /\ cLen <= B - 8 /\ cLen + 8 = Len(b)
  BY <1>1, <1>3 DEF cLen
<1>5. eLen \in Nat /\ cLen <= eLen /\ eLen <= cLen + 7 /\ eLen <= B - 8
  <2>1. (B - 8) % 8 = 0 /\ B - 8 \in Nat
    BY <1>1, <1>3
  <2> QED
    BY <1>4, <2>1, AlignLemma DEF eLen
<1>6. h \in Seq(C) /\ Len(h) = FCGI_HEADER_LEN
  <2>1. cLen \in 0 .. FCGI_MAX_LENGTH
    BY <1>3, <1>4
  <2>2. eLen - cLen \in 0 .. 255
    BY <1>4, <1>5
  <2>3. h \in Seq(PlainCell) /\ Len(h) = FCGI_HEADER_LEN
    BY <1>1, <2>1, <2>2, HeaderLemma DEF h
  <2> QED
    BY <2>3, SeqMonotonic
<1>7. content \in Seq(C) /\ Len(content) = cLen
  <2>1. 9 \in 1 .. Len(b) + 1 /\ Len(b) \in 9 - 1 .. Len(b)
    BY <1>1, <1>3
  <2>2. SubSeq(b, 9, Len(b)) \in Seq(C) /\ Len(SubSeq(b, 9, Len(b))) = Len(b) - 9 + 1
    BY <1>1, <2>1, SubSeqLemma
  <2> QED
    BY <1>1, <1>3, <1>4, <2>2 DEF content
<1>8. pad \in Seq(C) /\ Len(pad) = eLen - cLen
  <2>1. eLen - cLen \in Nat
    BY <1>4, <1>5
  <2> QED
    BY <2>1, FillerLemma, SeqMonotonic DEF pad
<1>9. record \in Seq(C) /\ Len(record) = FCGI_HEADER_LEN + eLen
  <2>1. h \o content \in Seq(C) /\ Len(h \o content) = Len(h) + Len(content)
    BY <1>6, <1>7, ConcatLemma
  <2>2. record \in Seq(C) /\ Len(record) = Len(h \o content) + Len(pad)
    BY <2>1, <1>8, ConcatLemma DEF record
  <2>3. FCGI_HEADER_LEN \in Nat
    BY DEF FCGI_HEADER_LEN
  <2> QED
    BY <2>1, <2>2, <2>3, <1>4, <1>5, <1>6, <1>7, <1>8
<1>10. /\ new \in Seq(C) /\ Len(new) <= w.st.stop
       /\ new = <<>> \/ Len(new) >= FCGI_HEADER_LEN
  BY <1>3, <1>5, <1>9, EmptySeq DEF new
<1>11. /\ e \in Worlds(C) /\ SameStream(e, w) /\ e.req = w.req /\ e.net = w.net
       /\ ~ e.st.rawWrite /\ (e.st.isClosed <=> w.st.isClosed)
       /\ e.st.buff = new
  BY <1>10 DEF Worlds, StreamOver, SameStream, Collecting
<1> QED
  BY <1>2, <1>10, <1>11 DEF SameStream

\* Emptying a buffer keeps every cell in C.  The buffer is then empty (or has
\* only space for a header), or the write failed and the stream is closed.
LEMMA WriteBuffLemma ==
    ASSUME NEW C, PlainCell \subseteq C, NEW w \in Worlds(C)
    PROVE  LET r == WriteBuff(w)
           IN  /\ r \in Worlds(C) /\ SameStream(r, w)
               /\ r.req = w.req /\ (r.st.rawWrite <=> w.st.rawWrite)
               /\ \/ /\ w.st.rawWrite => r.st.buff = <<>>
                     /\ ~ w.st.rawWrite => r.st.buff = HeaderSlot
                     /\ r.st.isClosed <=> w.st.isClosed
                  \/ r.st.buff = w.st.buff /\ r.st.isClosed /\ w.st.buff # <<>>
<1> DEFINE b == w.st.buff
           net1 == IF b = <<>> THEN w.net ELSE WriteItAll(w.net, b)
           st1 == [w.st EXCEPT !.isAnythingWritten = @ \/ b # <<>>]
           st2 == [st1 EXCEPT !.buff = IF st1.rawWrite THEN <<>> ELSE HeaderSlot]
           st3 == SetError(st1, OS_Errno)
           st4 == IF Len(b) <= w.net.room THEN st2 ELSE st3
           r == [w EXCEPT !.net = net1, !.st = st4]
<1>1. /\ b \in Seq(C) /\ Len(b) \in Nat /\ w.net.wire \in Seq(C)
      /\ w.net.room \in Nat /\ w.net \in NetOver(C) /\ w.st \in StreamOver(C)
  BY LenProperties DEF Worlds, StreamOver, NetOver
<1>2. WriteBuff(w) = r
  BY DEF WriteBuff, Worlds
<1>3. net1 \in NetOver(C)
  <2>1. w.net.wire \o b \in Seq(C)
    BY <1>1, ConcatLemma
  <2>2. ASSUME ~ (Len(b) <= w.net.room)
        PROVE  w.net.wire \o SubSeq(b, 1, w.net.room) \in Seq(C)
    <3>1. SubSeq(b, 1, w.net.room) \in Seq(C)
      BY <1>1, <2>2, SubSeqLemma
    <3> QED
      BY <1>1, <3>1, ConcatLemma
  <2>3. Plenty \in Nat
    BY TransportAssumption
  <2> QED
    <3>1. ASSUME NEW wire \in Seq(C), NEW room \in Nat
          PROVE  [w.net EXCEPT !.wire = wire, !.room = room] \in NetOver(C)
      BY <1>1 DEF NetOver
    <3>2. CASE Len(b) <= w.net.room
      <4>1. w.net.room - Len(b) \in Nat
        BY <1>1, <3>2
      <4> QED
        BY <1>1, <2>1, <3>1, <3>2, <4>1 DEF WriteItAll
    <3>3. CASE ~ (Len(b) <= w.net.room)
      <4>1. (IF Transient THEN Plenty ELSE 0) \in Nat
        BY <2>3
      <4> QED
        BY <1>1, <2>2, <3>1, <3>3, <4>1 DEF WriteItAll
    <3> QED
      BY <3>2, <3>3
<1>4. st1 \in StreamOver(C) /\ st1 = [w.st EXCEPT !.isAnythingWritten = st1.isAnythingWritten]
  BY <1>1 DEF StreamOver
<1>5. HeaderSlot \in Seq(C) /\ <<>> \in Seq(C)
  BY FillerLemma, SeqMonotonic, EmptySeq
<1>6. st2 \in StreamOver(C) /\ st3 \in StreamOver(C)
  BY <1>4, <1>5 DEF StreamOver, SetError, OS_Errno
<1>7. Len(b) <= w.net.room \/ b # <<>>
  BY <1>1, EmptySeq
<1>8. /\ st4 \in StreamOver(C) /\ st4.type = w.st.type /\ st4.stop = w.st.stop
      /\ st4.wasFCloseCalled = w.st.wasFCloseCalled /\ (st4.rawWrite <=> w.st.rawWrite)
      /\ \/ /\ w.st.rawWrite => st4.buff = <<>>
            /\ ~ w.st.rawWrite => st4.buff = HeaderSlot
            /\ st4.isClosed <=> w.st.isClosed
         \/ st4.buff = w.st.buff /\ st4.isClosed /\ w.st.buff # <<>>
  <2>1. CASE Len(b) <= w.net.room
    BY <2>1, <1>1, <1>6 DEF StreamOver
  <2>2. CASE ~ (Len(b) <= w.net.room)
    BY <2>2, <1>1, <1>6, <1>7 DEF StreamOver, SetError
  <2> QED
    BY <2>1, <2>2
<1> HIDE DEF net1, st4
<1> QED
  BY <1>2, <1>3, <1>8 DEF Worlds, SameStream

\* A record put into a stream in rawWrite mode fits, whether or not the
\* buffer had to be emptied for it.
LEMMA PutRecordLemma ==
    ASSUME NEW C, PlainCell \subseteq C, NEW w \in Worlds(C), NEW record \in Seq(C),
           w.st.rawWrite, Len(w.st.buff) <= w.st.stop, w.st.stop >= 16, Len(record) <= 16
    PROVE  LET r == PutRecord(w, record)
           IN  /\ r \in Worlds(C) /\ SameStream(r, w)
               /\ r.req = w.req /\ r.st.rawWrite
               /\ Len(r.st.buff) <= r.st.stop
<1> DEFINE n == Space(w.st)
           full == Put(w, SubSeq(record, 1, n))
           emptied == WriteBuff(full)
           rest == SubSeq(record, n + 1, Len(record))
<1>1. /\ w.st.buff \in Seq(C) /\ Len(w.st.buff) \in Nat /\ Len(record) \in Nat
      /\ w.st.stop \in Nat
  BY LenProperties DEF Worlds, StreamOver
<1>2. n \in Nat /\ n = w.st.stop - Len(w.st.buff)
  BY <1>1 DEF Space
<1> HIDE DEF n
<1>3. ASSUME NEW v \in Worlds(C), NEW cells \in Seq(C), v.st.rawWrite,
             Len(v.st.buff) + Len(cells) <= v.st.stop, SameStream(v, w), v.req = w.req
      PROVE  /\ Put(v, cells) \in Worlds(C) /\ SameStream(Put(v, cells), w)
             /\ Put(v, cells).req = w.req /\ Put(v, cells).st.rawWrite
             /\ Len(Put(v, cells).st.buff) <= Put(v, cells).st.stop
             /\ Put(v, cells).st.isClosed <=> v.st.isClosed
  <2>1. v.st.buff \in Seq(C)
    BY DEF Worlds, StreamOver
  <2>2. /\ v.st.buff \o cells \in Seq(C)
        /\ Len(v.st.buff \o cells) = Len(v.st.buff) + Len(cells)
    BY <2>1, ConcatLemma
  <2> QED
    BY <1>3, <2>2 DEF Put, Worlds, StreamOver, SameStream
<1>4. CASE Len(record) <= n
  <2>1. Len(w.st.buff) + Len(record) <= w.st.stop
    BY <1>1, <1>2, <1>4
  <2> QED
    BY <1>3, <1>4, <2>1 DEF PutRecord, n, SameStream
<1>5. CASE ~ (Len(record) <= n)
  <2>1. SubSeq(record, 1, n) \in Seq(C) /\ Len(SubSeq(record, 1, n)) = n
    <3>1. 1 \in 1 .. Len(record) + 1 /\ n \in 1 - 1 .. Len(record)
      BY <1>1, <1>2, <1>5
    <3>2. Len(SubSeq(record, 1, n)) = n - 1 + 1 /\ SubSeq(record, 1, n) \in Seq(C)
      BY <3>1, SubSeqLemma
    <3> QED
      BY <1>2, <3>2
  <2>2. rest \in Seq(C) /\ Len(rest) <= 16
    <3>1. n + 1 \in 1 .. Len(record) + 1 /\ Len(record) \in (n + 1) - 1 .. Len(record)
      BY <1>1, <1>2, <1>5
    <3>2. Len(rest) = Len(record) - (n + 1) + 1 /\ rest \in Seq(C)
      BY <3>1, SubSeqLemma
    <3> QED
      BY <1>1, <1>2, <3>2
  <2>3. /\ full \in Worlds(C) /\ SameStream(full, w) /\ full.req = w.req
        /\ full.st.rawWrite /\ Len(full.st.buff) <= full.st.stop
        /\ full.st.isClosed <=> w.st.isClosed
    <3>1. Len(w.st.buff) + Len(SubSeq(record, 1, n)) <= w.st.stop
      BY <1>1, <1>2, <2>1
    <3> QED
      BY <1>3, <2>1, <3>1 DEF SameStream
  <2> HIDE DEF full, rest
  <2>4. /\ emptied \in Worlds(C) /\ SameStream(emptied, full) /\ emptied.req = full.req
        /\ emptied.st.rawWrite
        /\ \/ emptied.st.buff = <<>>
           \/ emptied.st.buff = full.st.buff /\ emptied.st.isClosed
    BY <2>3, WriteBuffLemma, Zenon
  <2> HIDE DEF emptied
  <2>5. SameStream(emptied, w) /\ emptied.req = w.req
    BY <2>3, <2>4 DEF SameStream
  <2>6. Len(emptied.st.buff) <= emptied.st.stop
    BY <1>1, <2>3, <2>4, <2>5, EmptySeq DEF SameStream
  <2>7. ASSUME ~ emptied.st.isClosed
        PROVE  Len(emptied.st.buff) + Len(rest) <= emptied.st.stop
    <3>1. emptied.st.buff = <<>> /\ emptied.st.stop = w.st.stop
      BY <2>4, <2>5, <2>7 DEF SameStream
    <3>2. Len(rest) \in Nat
      BY <2>2, LenProperties
    <3> QED
      BY <1>1, <2>2, <3>1, <3>2, EmptySeq
  <2>8. PutRecord(w, record) = IF w.st.isClosed THEN full
                               ELSE IF emptied.st.isClosed THEN emptied
                               ELSE Put(emptied, rest)
    BY <1>5 DEF PutRecord, n, full, emptied, rest
  <2> QED
    BY <1>3, <2>2, <2>3, <2>4, <2>5, <2>6, <2>7, <2>8
<1> QED
  BY <1>4, <1>5

\* FCGX_FFlush, or a full buffer: the stream goes on collecting.
LEMMA FlushLemma ==
    ASSUME NEW C, PlainCell \subseteq C, NEW w \in Worlds(C), Collecting(w.st)
    PROVE  LET r == EmptyBuffProc(w, FALSE)
           IN  /\ r \in Worlds(C) /\ SameStream(r, w) /\ r.req = w.req
               /\ Collecting(r.st)
<1> DEFINE e == Encapsulate(w)
           r == WriteBuff(e)
<1>1. /\ e \in Worlds(C) /\ SameStream(e, w) /\ e.req = w.req /\ ~ e.st.rawWrite
      /\ Len(e.st.buff) <= e.st.stop
      /\ e.st.buff = <<>> \/ Len(e.st.buff) >= FCGI_HEADER_LEN
  BY EncapsulateLemma, Zenon
<1> HIDE DEF e
<1>2. /\ r \in Worlds(C) /\ SameStream(r, e) /\ r.req = e.req /\ ~ r.st.rawWrite
      /\ \/ r.st.buff = HeaderSlot
         \/ r.st.buff = e.st.buff /\ e.st.buff # <<>>
  BY <1>1, WriteBuffLemma, Zenon
<1>3. r = EmptyBuffProc(w, FALSE)
  BY DEF EmptyBuffProc, e
<1> HIDE DEF r
<1>4. SameStream(r, w) /\ r.st.stop = BuffLen[r.st.type] /\ r.st.type \in Streams
  BY <1>1, <1>2 DEF SameStream, Collecting, Worlds, StreamOver
<1>5. Len(r.st.buff) >= FCGI_HEADER_LEN /\ Len(r.st.buff) <= r.st.stop
  <2>1. CASE r.st.buff = HeaderSlot
    <3>1. Len(r.st.buff) = FCGI_HEADER_LEN /\ FCGI_HEADER_LEN <= 8 /\ FCGI_HEADER_LEN \in Nat
      BY <2>1, FillerLemma DEF FCGI_HEADER_LEN
    <3> QED
      BY <1>4, <3>1, BuffLenLemma
  <2>2. CASE r.st.buff = e.st.buff /\ e.st.buff # <<>>
    BY <1>1, <1>2, <2>2 DEF SameStream
  <2> QED
    BY <1>2, <2>1, <2>2
<1> QED
  BY <1>1, <1>2, <1>3, <1>4, <1>5 DEF Collecting

\* FCGX_FClose of a stream that was not closed: the close records fit, and one
\* writer less is counted.  An end-request record is made only by the last one.
LEMMA CloseLemma ==
    ASSUME NEW C, PlainCell \subseteq C, NEW w \in Worlds(C), Collecting(w.st),
           ~ w.st.wasFCloseCalled, w.req.nWriters \in 1 .. 2,
           w.req.nWriters = 1 => CellUpTo(w.req.requestId) \subseteq C
    PROVE  LET r == FClose(w)
           IN  /\ r \in Worlds(C) /\ r.st.type = w.st.type
               /\ r.req = [w.req EXCEPT !.nWriters = @ - 1]
               /\ r.st.rawWrite /\ r.st.wasFCloseCalled /\ r.st.isClosed
               /\ Len(r.st.buff) <= r.st.stop /\ r.st.stop <= BuffLen[r.st.type]
<1> DEFINE e == Encapsulate(w)
           raw == [e EXCEPT !.st.rawWrite = TRUE]
           eof == PutEofRecord(raw)
           end == PutEndRequest(eof)
           done == [end EXCEPT !.req.nWriters = @ - 1]
           out == WriteBuff(done)
           r == [out EXCEPT !.st.wasFCloseCalled = TRUE, !.st.isClosed = TRUE,
                            !.st.stop = Len(out.st.buff)]
           id == w.req.requestId
           Good(v) == /\ v \in Worlds(C) /\ v.st.rawWrite
                      /\ v.st.type = w.st.type /\ v.st.stop = w.st.stop
                      /\ Len(v.st.buff) <= v.st.stop
<1>1. /\ w.st.type \in Streams /\ w.st.stop \in Nat /\ w.st.stop >= 16
      /\ w.st.stop = BuffLen[w.st.type]
  BY BuffLenLemma DEF Worlds, StreamOver, Collecting
<1>2. id \in Nat /\ w.req.appStatus \in Int /\ w.req \in RequestType
  BY DEF Worlds, RequestType
<1>3. /\ e \in Worlds(C) /\ SameStream(e, w) /\ e.req = w.req
      /\ Len(e.st.buff) <= e.st.stop
  BY EncapsulateLemma, Zenon
<1>4. FClose(w) = r
  BY DEF FClose, EmptyBuffProc, WriteCloseRecords
<1> HIDE DEF e
<1>5. Good(raw) /\ raw.req = w.req
  BY <1>3 DEF Worlds, StreamOver, SameStream
<1> HIDE DEF raw
<1>6. ASSUME NEW v, Good(v), v.req = w.req, NEW record \in Seq(C), Len(record) <= 16
      PROVE  Good(PutRecord(v, record)) /\ PutRecord(v, record).req = w.req
  <2>1. v.st.stop >= 16
    BY <1>1, <1>6
  <2>2. /\ PutRecord(v, record) \in Worlds(C) /\ SameStream(PutRecord(v, record), v)
        /\ PutRecord(v, record).req = v.req /\ PutRecord(v, record).st.rawWrite
        /\ Len(PutRecord(v, record).st.buff) <= PutRecord(v, record).st.stop
    BY <1>6, <2>1, PutRecordLemma, Zenon
  <2> QED
    BY <1>6, <2>2 DEF SameStream
<1>7. Good(eof) /\ eof.req = w.req
  <2> DEFINE mark == MakeHeader(raw.st.type, id, 0, 0)
  <2>1. 0 \in 0 .. FCGI_MAX_LENGTH /\ 0 \in 0 .. 255
    BY DEF FCGI_MAX_LENGTH
  <2>2. mark \in Seq(PlainCell) /\ Len(mark) = FCGI_HEADER_LEN
    BY <1>1, <1>2, <1>5, <2>1, HeaderLemma
  <2>3. mark \in Seq(C)
    BY <2>2, SeqMonotonic
  <2>4. Len(mark) <= 16
    <3>1. FCGI_HEADER_LEN <= 16
      BY DEF FCGI_HEADER_LEN
    <3> QED
      BY <2>2, <3>1
  <2> HIDE DEF mark
  <2>5. Good(PutRecord(raw, mark)) /\ PutRecord(raw, mark).req = w.req
    BY <1>5, <1>6, <2>3, <2>4, Zenon
  <2>6. eof = raw \/ eof = PutRecord(raw, mark)
    BY <1>5 DEF PutEofRecord, mark
  <2> QED
    BY <1>5, <2>5, <2>6, Zenon
<1> HIDE DEF eof
<1>8. Good(end) /\ end.req = w.req
  <2> DEFINE record == EndRequestRecord(id, w.req.appStatus)
  <2>1. CASE w.req.nWriters = 1
    <3>1. record \in Seq(CellUpTo(id)) /\ Len(record) <= 16
      BY <1>2, EndRequestLemma
    <3>2. record \in Seq(C)
      BY <2>1, <3>1, SeqMonotonic
    <3>3. end = PutRecord(eof, record)
      BY <1>7, <2>1 DEF PutEndRequest
    <3> HIDE DEF record, end
    <3> QED
      BY <1>6, <1>7, <3>1, <3>2, <3>3, Zenon
  <2>2. CASE w.req.nWriters # 1
    BY <1>7, <2>2 DEF PutEndRequest
  <2> QED
    BY <2>1, <2>2
<1> HIDE DEF end
<1>9. /\ done \in Worlds(C) /\ done.st = end.st
      /\ done.req = [w.req EXCEPT !.nWriters = @ - 1]
  BY <1>2, <1>8 DEF Worlds, RequestType
<1> HIDE DEF done
<1>10. /\ out \in Worlds(C) /\ SameStream(out, done) /\ out.req = done.req
       /\ out.st.rawWrite
       /\ out.st.buff = <<>> \/ out.st.buff = done.st.buff
  <2>1. done.st.rawWrite
    BY <1>8, <1>9
  <2> QED
    BY <1>9, <2>1, WriteBuffLemma, Zenon
<1> HIDE DEF out
<1>11. out.st.buff \in Seq(C) /\ Len(out.st.buff) \in Nat
  BY <1>10, LenProperties DEF Worlds, StreamOver
<1>12. Len(out.st.buff) <= w.st.stop
  BY <1>1, <1>8, <1>9, <1>10, EmptySeq
<1>13. out.st.type = w.st.type
  BY <1>8, <1>9, <1>10 DEF SameStream
<1>14. /\ r \in Worlds(C) /\ r.st.type = w.st.type /\ r.req = out.req
       /\ r.st.rawWrite /\ r.st.wasFCloseCalled /\ r.st.isClosed
       /\ r.st.buff = out.st.buff /\ r.st.stop = Len(out.st.buff)
  BY <1>10, <1>11, <1>13 DEF Worlds, StreamOver
<1> HIDE DEF r
<1>15. Len(r.st.buff) <= r.st.stop /\ r.st.stop <= BuffLen[r.st.type]
  BY <1>1, <1>11, <1>12, <1>14
<1> QED
  BY <1>4, <1>9, <1>10, <1>14, <1>15

(***************************************************************************)
(* The inductive invariant.  TypeOK, BufferFits and WritersCounted need    *)
(* each other and what Sound says about a stream: before FCGX_FClose it is *)
(* collecting behind a header slot with all of its buffer, afterwards it   *)
(* is in rawWrite mode, in error or at end of file, and has no space left. *)
(* NoEarlyEnd needs in addition that no buffer holds an early end-request  *)
(* body, and that the connection holds none of a later request: Level is   *)
(* the last request whose end may have been produced.                      *)
(***************************************************************************)

BothClosed == \A s \in Streams : stream[s].wasFCloseCalled

Level == IF BothClosed THEN request.requestId ELSE request.requestId - 1

Sound(st, s) ==
    /\ st.type = s
    /\ ~ st.wasFCloseCalled => Collecting(st)
    /\ st.wasFCloseCalled =>
         /\ st.rawWrite /\ st.isClosed
         /\ Len(st.buff) <= st.stop /\ st.stop <= BuffLen[s]

CallType == [op : {"idle", "PutStr", "Finish"}, s : Streams, left : Nat]

IInv ==
    /\ stream \in [Streams -> StreamOver(CellUpTo(Level))]
    /\ \A s \in Streams : Sound(stream[s], s)
    /\ net \in NetOver(CellUpTo(Level))
    /\ request \in RequestType
    /\ request.active => request.requestId > 0
    /\ WritersCounted
    /\ call \in CallType
    /\ call # Idle => request.active
    /\ said \in [Streams -> Nat]
    /\ failed \in [Streams -> Nat \cup {-1}]
    /\ cleared \in BOOLEAN
    /\ claimed \in Seq(Int)

\* The constants and the freshly made streams are sound.
LEMMA NewWriterLemma ==
    ASSUME NEW C, PlainCell \subseteq C, NEW s \in Streams
    PROVE  /\ NewWriter(s) \in StreamOver(C) /\ Sound(NewWriter(s), s)
           /\ ~ NewWriter(s).wasFCloseCalled
<1>1. HeaderSlot \in Seq(C) /\ Len(HeaderSlot) = FCGI_HEADER_LEN
  BY FillerLemma, SeqMonotonic
<1>2. FCGI_HEADER_LEN <= 8 /\ FCGI_HEADER_LEN \in Nat
  BY DEF FCGI_HEADER_LEN
<1>3. BuffLen[s] \in Nat /\ BuffLen[s] >= 24
  BY BuffLenLemma
<1> QED
  BY <1>1, <1>2, <1>3 DEF NewWriter, StreamOver, Sound, Collecting

\* Level is a number, and plain cells are always allowed.
LEMMA LevelLemma ==
    ASSUME IInv
    PROVE  Level \in Int /\ PlainCell \subseteq CellUpTo(Level)
<1>1. request.requestId \in Nat
  BY DEF IInv, RequestType
<1> QED
  BY <1>1 DEF Level, CellUpTo

\* The invariant gives every stream operation the world it needs.
LEMMA WorldLemma ==
    ASSUME IInv, NEW s \in Streams
    PROVE  World(s) \in Worlds(CellUpTo(Level)) /\ Sound(World(s).st, s)
BY DEF IInv, World, Worlds

\* An operation on one stream preserves the invariant if its result is sound.
LEMMA BecomeLemma ==
    ASSUME IInv, NEW s \in Streams, NEW w, NEW m \in Nat, Become(s, w, m),
           Level' \in Int, Level <= Level', w \in Worlds(CellUpTo(Level')),
           Sound(w.st, s), w.req.requestId = request.requestId, WritersCounted',
           w.req.active => request.active,
           call' \in CallType, call' # Idle => w.req.active,
           UNCHANGED <<cleared, claimed>>
    PROVE  IInv'
<1>1. Level \in Int
  BY LevelLemma
<1>2. CellUpTo(Level) \subseteq CellUpTo(Level')
  BY <1>1, CellsGrow
<1>3. w.st \in StreamOver(CellUpTo(Level')) /\ w.req \in RequestType
      /\ w.net \in NetOver(CellUpTo(Level')) /\ w.st.FCGI_errno \in Nat
  BY DEF Worlds, StreamOver
<1>4. stream \in [Streams -> StreamOver(CellUpTo(Level'))]
  BY <1>2, WorldsGrow DEF IInv
<1>5. stream' \in [Streams -> StreamOver(CellUpTo(Level'))]
  BY <1>3, <1>4 DEF Become
<1>6. \A t \in Streams : Sound(stream'[t], t)
  <2>1. stream \in [Streams -> StreamOver(CellUpTo(Level'))]
    BY <1>4
  <2> QED
    BY <2>1 DEF IInv, Become
<1>7. /\ net' \in NetOver(CellUpTo(Level')) /\ request' \in RequestType
      /\ request'.active => request'.requestId > 0
      /\ call' # Idle => request'.active
  BY <1>3 DEF Become, IInv
<1>8. said' \in [Streams -> Nat] /\ failed' \in [Streams -> Nat \cup {-1}]
  <2>1. said[s] + m \in Nat
    BY DEF IInv
  <2> QED
    BY <2>1 DEF Become, IInv
<1>9. cleared' \in BOOLEAN /\ claimed' \in Seq(Int)
  BY DEF IInv
<1> QED
  BY <1>5, <1>6, <1>7, <1>8, <1>9 DEF IInv

\* Level and the count of writers when no stream is closed.
LEMMA KeepLemma ==
    ASSUME IInv, NEW s \in Streams, NEW w, NEW m \in Nat, Become(s, w, m),
           w.req = request, w.st.wasFCloseCalled = stream[s].wasFCloseCalled
    PROVE  Level' = Level /\ WritersCounted'
<1>1. \A t \in Streams : stream'[t].wasFCloseCalled = stream[t].wasFCloseCalled
  BY DEF Become, IInv
<1>2. request' = request
  BY DEF Become
<1>3. Level' = Level
  BY <1>1, <1>2 DEF Level, BothClosed
<1>4. Unclosed("out")' = Unclosed("out") /\ Unclosed("err")' = Unclosed("err")
  BY <1>1 DEF Unclosed, Streams
<1> QED
  BY <1>2, <1>3, <1>4 DEF WritersCounted, IInv

\* Content that fits is added to a stream that stays sound.
LEMMA PutLemma ==
    ASSUME NEW C, NEW s \in Streams, NEW w \in Worlds(C), Sound(w.st, s),
           NEW cells \in Seq(C), Len(cells) <= Space(w.st)
    PROVE  /\ Put(w, cells) \in Worlds(C) /\ Sound(Put(w, cells).st, s)
           /\ Put(w, cells).req = w.req
           /\ Put(w, cells).st.wasFCloseCalled = w.st.wasFCloseCalled
           /\ Put(w, cells).st.isClosed <=> w.st.isClosed
<1>1. /\ w.st.buff \in Seq(C) /\ Len(w.st.buff) \in Nat /\ Len(cells) \in Nat
      /\ w.st.stop \in Nat
  BY LenProperties DEF Worlds, StreamOver
<1>2. /\ w.st.buff \o cells \in Seq(C)
      /\ Len(w.st.buff \o cells) = Len(w.st.buff) + Len(cells)
  BY <1>1, ConcatLemma
<1>3. /\ Put(w, cells) \in Worlds(C)
      /\ Put(w, cells).st.buff = w.st.buff \o cells
      /\ Put(w, cells).req = w.req
      /\ Put(w, cells).st.wasFCloseCalled = w.st.wasFCloseCalled
      /\ Put(w, cells).st.type = w.st.type /\ Put(w, cells).st.stop = w.st.stop
      /\ Put(w, cells).st.isClosed <=> w.st.isClosed
      /\ Put(w, cells).st.rawWrite <=> w.st.rawWrite
  BY <1>2 DEF Put, Worlds, StreamOver
<1>4. /\ Len(w.st.buff) + Len(cells) <= w.st.stop
      /\ FCGI_HEADER_LEN \in Nat
  BY <1>1 DEF Space, FCGI_HEADER_LEN
<1>5. Sound(Put(w, cells).st, s)
  BY <1>1, <1>2, <1>3, <1>4 DEF Sound, Collecting
<1> QED
  BY <1>3, <1>5

\* One round of FCGX_PutStr.
LEMMA PutStrLemma ==
    ASSUME IInv, NEW s \in Streams, NEW left \in Nat, request.active,
           PutStrIteration(s, left), UNCHANGED <<cleared, claimed>>
    PROVE  IInv'
<1> DEFINE n == Space(stream[s])
           m == IF left <= n THEN left ELSE n
           C == CellUpTo(Level)
           w == Put(World(s), Bytes(s, said[s], m))
           e == EmptyBuffProc(w, FALSE)
<1>1. World(s) \in Worlds(C) /\ Sound(World(s).st, s)
  BY WorldLemma
<1>2. World(s).st = stream[s] /\ World(s).req = request
  BY DEF World
<1>3. Level \in Int /\ PlainCell \subseteq C
  BY LevelLemma
<1>4. n \in Nat
  <2>1. stream[s].buff \in Seq(C) /\ stream[s].stop \in Nat
    BY DEF IInv, StreamOver
  <2>2. Len(stream[s].buff) \in Nat
    BY <2>1, LenProperties
  <2> QED
    BY <1>1, <1>2, <2>1, <2>2 DEF Space, Sound, Collecting
<1>5. m \in Nat /\ m <= n /\ said[s] \in Nat /\ (m # left => left - m \in Nat)
  BY <1>4 DEF IInv
<1> HIDE DEF m, C
<1>6. Bytes(s, said[s], m) \in Seq(C) /\ Len(Bytes(s, said[s], m)) = m
  BY <1>3, <1>5, FillerLemma, SeqMonotonic
<1>7. /\ w \in Worlds(C) /\ Sound(w.st, s) /\ w.req = request
      /\ w.st.wasFCloseCalled = stream[s].wasFCloseCalled
      /\ w.st.isClosed <=> stream[s].isClosed
  BY <1>1, <1>2, <1>5, <1>6, PutLemma
<1> HIDE DEF w
<1>8. Idle \in CallType
  BY DEF Idle, CallType, Streams
<1>9. ASSUME NEW v, v \in Worlds(C), Sound(v.st, s), v.req = request,
             v.st.wasFCloseCalled = stream[s].wasFCloseCalled,
             Become(s, v, m), call' \in CallType
      PROVE  IInv'
  <2>1. Level' = Level /\ WritersCounted'
    BY <1>5, <1>9, KeepLemma
  <2>2. v \in Worlds(CellUpTo(Level')) /\ Level' \in Int /\ Level <= Level'
    BY <1>3, <1>9, <2>1 DEF C
  <2> QED
    BY <1>5, <1>9, <2>1, <2>2, BecomeLemma
<1>10. CASE Become(s, w, m) /\ call' = Idle
  BY <1>7, <1>8, <1>9, <1>10
<1>11. CASE /\ m < left /\ ~ stream[s].isClosed
            /\ Become(s, e, m)
            /\ call' = [op |-> "PutStr", s |-> s, left |-> left - m]
  <2>1. Collecting(w.st)
    BY <1>7, <1>11 DEF Sound
  <2>2. /\ e \in Worlds(C) /\ SameStream(e, w) /\ e.req = w.req /\ Collecting(e.st)
    BY <1>3, <1>7, <2>1, FlushLemma
  <2> HIDE DEF e
  <2>3. call' \in CallType
    BY <1>5, <1>11 DEF CallType
  <2>4. Sound(e.st, s)
    BY <1>7, <1>11, <2>2 DEF Sound, SameStream
  <2> QED
    BY <1>7, <1>9, <1>11, <2>2, <2>3, <2>4 DEF SameStream
<1> QED
  BY <1>10, <1>11 DEF PutStrIteration, m, n, w, e

\* The level after FCGX_FClose of s.
CloseLevel(s) ==
    IF stream[s].wasFCloseCalled THEN Level
    ELSE IF request.nWriters = 1 THEN request.requestId ELSE request.requestId - 1

\* nWriters is 1 for the last stream to be closed.
LEMMA LastWriterLemma ==
    ASSUME IInv, NEW s \in Streams, request.active, ~ stream[s].wasFCloseCalled
    PROVE  /\ request.nWriters \in 1 .. 2
           /\ Level = request.requestId - 1
           /\ request.nWriters = 1 <=> \A t \in Streams \ {s} : Unclosed(t) = 0
<1>1. request.nWriters = Unclosed("out") + Unclosed("err")
  BY DEF IInv, WritersCounted
<1>2. /\ Unclosed("out") \in 0 .. 1 /\ Unclosed("err") \in 0 .. 1
      /\ s = "out" \/ s = "err"
      /\ Unclosed(s) = 1
  BY DEF Unclosed, Streams
<1>3. Level = request.requestId - 1
  BY DEF Level, BothClosed
<1>4. request.nWriters \in 1 .. 2
  BY <1>1, <1>2
<1>5. request.nWriters = 1 <=> \A t \in Streams \ {s} : Unclosed(t) = 0
  BY <1>1, <1>2 DEF Streams
<1> QED
  BY <1>3, <1>4, <1>5

\* What FCGX_FClose returns.
LEMMA FCloseLemma ==
    ASSUME IInv, NEW s \in Streams, request.active
    PROVE  LET r == FClose(World(s))
           IN  /\ CloseLevel(s) \in Int /\ Level <= CloseLevel(s)
               /\ r \in Worlds(CellUpTo(CloseLevel(s))) /\ Sound(r.st, s)
               /\ r.st.wasFCloseCalled
               /\ r.req = [request EXCEPT !.nWriters = @ - Unclosed(s)]
<1> DEFINE w == World(s)
           r == FClose(w)
           L == CloseLevel(s)
<1>1. /\ w \in Worlds(CellUpTo(Level)) /\ Sound(w.st, s)
      /\ w.st = stream[s] /\ w.req = request
  BY WorldLemma DEF World
<1>2. /\ request.requestId \in Nat /\ request \in RequestType
      /\ request.nWriters \in Int /\ Level \in Int
  BY LevelLemma DEF IInv, RequestType
<1> HIDE DEF w
<1>3. CASE stream[s].wasFCloseCalled
  <2>1. r = w
    BY <1>1, <1>3 DEF FClose
  <2>2. L = Level /\ Unclosed(s) = 0
    BY <1>3 DEF CloseLevel, Unclosed
  <2>3. request = [request EXCEPT !.nWriters = @ - 0]
    BY <1>2 DEF RequestType
  <2> QED
    BY <1>1, <1>2, <1>3, <2>1, <2>2, <2>3 DEF w
<1>4. CASE ~ stream[s].wasFCloseCalled
  <2>1. request.nWriters \in 1 .. 2 /\ Level = request.requestId - 1
    BY <1>4, LastWriterLemma
  <2>2. L \in Int /\ Level <= L
    BY <1>2, <1>4, <2>1 DEF CloseLevel
  <2>3. w \in Worlds(CellUpTo(L)) /\ PlainCell \subseteq CellUpTo(L)
    <3>1. CellUpTo(Level) \subseteq CellUpTo(L) /\ PlainCell \subseteq CellUpTo(L)
      BY <1>2, <2>2, CellsGrow
    <3> QED
      BY <1>1, <3>1, WorldsGrow DEF Worlds
  <2>4. /\ r \in Worlds(CellUpTo(L)) /\ r.st.type = w.st.type
        /\ r.req = [w.req EXCEPT !.nWriters = @ - 1]
        /\ r.st.rawWrite /\ r.st.wasFCloseCalled /\ r.st.isClosed
        /\ Len(r.st.buff) <= r.st.stop /\ r.st.stop <= BuffLen[r.st.type]
    <3>1. Collecting(w.st) /\ ~ w.st.wasFCloseCalled
      BY <1>1, <1>4 DEF Sound
    <3>2. w.req.nWriters \in 1 .. 2
      BY <1>1, <2>1
    <3>3. w.req.nWriters = 1 => CellUpTo(w.req.requestId) \subseteq CellUpTo(L)
      BY <1>1, <1>4 DEF CloseLevel
    <3> HIDE DEF L
    <3> QED
      BY <2>3, <3>1, <3>2, <3>3, CloseLemma, Zenon
  <2>5. Unclosed(s) = 1
    BY <1>4 DEF Unclosed
  <2> HIDE DEF r
  <2>6. Sound(r.st, s)
    BY <1>1, <2>4 DEF Sound
  <2> HIDE DEF L
  <2> QED
    BY <1>1, <2>2, <2>4, <2>5, <2>6 DEF r, w, L
<1> QED
  BY <1>3, <1>4

\* Level and the count of writers after FCGX_FClose.
LEMMA CloseLevelLemma ==
    ASSUME IInv, NEW s \in Streams, request.active,
           stream' = [stream EXCEPT ![s] = FClose(World(s)).st],
           request'.requestId = request.requestId,
           request'.nWriters = request.nWriters - Unclosed(s)
    PROVE  Level' = CloseLevel(s) /\ WritersCounted'
<1>1. /\ stream \in [Streams -> StreamOver(CellUpTo(Level))]
      /\ request.nWriters = Unclosed("out") + Unclosed("err")
      /\ \A t \in Streams : Unclosed(t) \in 0 .. 1
      /\ s = "out" \/ s = "err"
  BY DEF IInv, WritersCounted, Unclosed, Streams
<1>2. stream'[s].wasFCloseCalled /\ \A t \in Streams \ {s} : stream'[t] = stream[t]
  BY <1>1, FCloseLemma
<1>3. Unclosed(s)' = 0 /\ \A t \in Streams \ {s} : Unclosed(t)' = Unclosed(t)
  BY <1>2 DEF Unclosed
<1>4. WritersCounted'
  BY <1>1, <1>3 DEF WritersCounted, Streams
<1>5. BothClosed' <=> \A t \in Streams \ {s} : Unclosed(t) = 0
  BY <1>2 DEF BothClosed, Unclosed
<1>6. CASE stream[s].wasFCloseCalled
  <2>1. BothClosed <=> \A t \in Streams \ {s} : Unclosed(t) = 0
    BY <1>6 DEF BothClosed, Unclosed
  <2> QED
    BY <1>4, <1>5, <1>6, <2>1 DEF Level, CloseLevel
<1>7. CASE ~ stream[s].wasFCloseCalled
  BY <1>4, <1>5, <1>7, LastWriterLemma DEF Level, CloseLevel
<1> QED
  BY <1>6, <1>7

(***************************************************************************)
(* The invariant is inductive                                              *)
(***************************************************************************)

\* The invariant holds initially.
LEMMA InitLemma ==
    Init => IInv
<1> SUFFICES ASSUME Init PROVE IInv
  OBVIOUS
<1>1. Level = -1
  <2>1. "out" \in Streams /\ ~ stream["out"].wasFCloseCalled /\ request.requestId = 0
    BY DEF Init, NewWriter, Streams
  <2> QED
    BY <2>1 DEF Level, BothClosed
<1>2. PlainCell \subseteq CellUpTo(Level)
  BY DEF CellUpTo
<1>3. /\ stream \in [Streams -> StreamOver(CellUpTo(Level))]
      /\ \A s \in Streams : Sound(stream[s], s)
  BY <1>2, NewWriterLemma DEF Init
<1>4. <<>> \in Seq(CellUpTo(Level)) /\ <<>> \in Seq(Int)
  BY EmptySeq
<1>5. net \in NetOver(CellUpTo(Level))
  BY <1>4 DEF Init, NetOver
<1>6. request \in RequestType /\ ~ request.active /\ WritersCounted
  BY DEF Init, RequestType, WritersCounted
<1>7. call = Idle /\ call \in CallType
  BY DEF Init, Idle, CallType, Streams
<1>8. /\ said \in [Streams -> Nat] /\ failed \in [Streams -> Nat \cup {-1}]
      /\ cleared \in BOOLEAN /\ claimed \in Seq(Int)
  BY <1>4 DEF Init
<1> QED
  BY <1>3, <1>5, <1>6, <1>7, <1>8 DEF IInv

\* FCGX_FFlush.
LEMMA FFlushStep ==
    ASSUME IInv, NEW s \in Streams, FFlush(s)
    PROVE  IInv'
<1> DEFINE C == CellUpTo(Level)
           e == EmptyBuffProc(World(s), FALSE)
<1>1. /\ World(s) \in Worlds(C) /\ Sound(World(s).st, s)
      /\ World(s).st = stream[s] /\ World(s).req = request
  BY WorldLemma DEF World
<1>2. Level \in Int /\ PlainCell \subseteq C
  BY LevelLemma
<1>3. Collecting(World(s).st) /\ ~ stream[s].wasFCloseCalled
  BY <1>1 DEF FFlush, Sound
<1>4. /\ e \in Worlds(C) /\ SameStream(e, World(s)) /\ e.req = request
      /\ Collecting(e.st)
  BY <1>1, <1>2, <1>3, FlushLemma
<1> HIDE DEF C, e
<1>5. Sound(e.st, s) /\ e.st.wasFCloseCalled = stream[s].wasFCloseCalled
  BY <1>1, <1>3, <1>4 DEF Sound, SameStream
<1>6. Become(s, e, 0) /\ UNCHANGED <<call, cleared, claimed>> /\ request.active
  BY DEF FFlush, e
<1>7. Level' = Level /\ WritersCounted'
  BY <1>4, <1>5, <1>6, KeepLemma
<1>8. e \in Worlds(CellUpTo(Level')) /\ Level' \in Int /\ Level <= Level'
  BY <1>2, <1>4, <1>7 DEF C
<1>9. call' \in CallType
  BY <1>6 DEF IInv
<1> QED
  BY <1>4, <1>5, <1>6, <1>7, <1>8, <1>9, BecomeLemma

\* FCGX_FClose, called by the application or by FCGX_Finish_r.
LEMMA FCloseStep ==
    ASSUME IInv, NEW s \in Streams, request.active, Become(s, FClose(World(s)), 0),
           call' \in CallType, UNCHANGED <<cleared, claimed>>
    PROVE  IInv'
<1> DEFINE r == FClose(World(s))
<1>1. /\ CloseLevel(s) \in Int /\ Level <= CloseLevel(s)
      /\ r \in Worlds(CellUpTo(CloseLevel(s))) /\ Sound(r.st, s)
      /\ r.req = [request EXCEPT !.nWriters = @ - Unclosed(s)]
  BY FCloseLemma
<1>2. /\ r.req.requestId = request.requestId /\ (r.req.active <=> request.active)
      /\ r.req.nWriters = request.nWriters - Unclosed(s)
  BY <1>1 DEF IInv, RequestType
<1>3. stream' = [stream EXCEPT ![s] = r.st] /\ request' = r.req
  BY DEF Become
<1>4. Level' = CloseLevel(s) /\ WritersCounted'
  BY <1>2, <1>3, CloseLevelLemma
<1>5. Become(s, r, 0)
  OBVIOUS
<1> HIDE DEF r
<1> QED
  BY <1>1, <1>2, <1>4, <1>5, BecomeLemma

\* The last part of FCGX_Finish_r.
LEMMA FinishOutStep ==
    ASSUME IInv, NEW inError \in BOOLEAN, FinishOut(inError)
    PROVE  IInv'
<1> DEFINE w == FClose(World("out"))
           close == \/ ~ request.keepConnection
                    \/ stream["err"].FCGI_errno # 0
                    \/ w.st.FCGI_errno # 0
                    \/ inError
           v == [w EXCEPT !.req.active = FALSE, !.net.open = ~ close]
           C == CellUpTo(CloseLevel("out"))
<1>1. "out" \in Streams /\ request.active
  BY DEF FinishOut, IInv, Idle, Streams
<1>2. /\ CloseLevel("out") \in Int /\ Level <= CloseLevel("out")
      /\ w \in Worlds(C) /\ Sound(w.st, "out")
      /\ w.req = [request EXCEPT !.nWriters = @ - Unclosed("out")]
  BY <1>1, FCloseLemma
<1>3. Become("out", v, 0) /\ call' = Idle /\ UNCHANGED <<cleared, claimed>>
  BY DEF FinishOut
<1>4. stream' = [stream EXCEPT !["out"] = v.st] /\ request' = v.req
  BY <1>3 DEF Become
<1>5. close \in BOOLEAN
  OBVIOUS
<1> HIDE DEF w, close, C
<1>6. /\ v \in Worlds(C) /\ v.st = w.st /\ v.req.active = FALSE
      /\ v.req.requestId = w.req.requestId /\ v.req.nWriters = w.req.nWriters
  BY <1>2, <1>5 DEF Worlds, RequestType, NetOver
<1>7. /\ v.req.requestId = request.requestId
      /\ v.req.nWriters = request.nWriters - Unclosed("out")
  BY <1>2, <1>6 DEF IInv, RequestType
<1> HIDE DEF v
<1>8. Level' = CloseLevel("out") /\ WritersCounted'
  BY <1>1, <1>4, <1>6, <1>7, CloseLevelLemma DEF w
<1>9. call' \in CallType
  BY <1>3 DEF Idle, CallType, Streams
<1>10. v \in Worlds(CellUpTo(Level')) /\ Sound(v.st, "out")
  BY <1>2, <1>6, <1>8 DEF C
<1> QED
  BY <1>1, <1>2, <1>3, <1>6, <1>7, <1>8, <1>9, <1>10, BecomeLemma

\* FCGX_Accept_r makes new streams: nothing of the new request has been sent.
LEMMA AcceptStep ==
    ASSUME IInv, NEW keep \in KeepConns, NEW room \in Rooms, Accept(keep, room)
    PROVE  IInv'
<1>1. keep \in BOOLEAN /\ room \in Nat
  BY TransportAssumption
<1>2. request.requestId \in Nat /\ request \in RequestType
  BY DEF IInv, RequestType
<1>3. /\ request' \in RequestType /\ request'.requestId = request.requestId + 1
      /\ request'.nWriters = 2 /\ request'.active
  <2>1. request' = [request EXCEPT !.requestId = @ + 1, !.active = TRUE,
                                   !.keepConnection = keep, !.nWriters = 2]
    BY DEF Accept
  <2>2. request.requestId + 1 \in Nat /\ 2 \in 0 .. 2
    BY <1>2
  <2> QED
    BY <1>1, <1>2, <2>1, <2>2 DEF RequestType
<1>4. stream' = [s \in Streams |-> NewWriter(s)]
  BY DEF Accept
<1>5. \A s \in Streams : ~ stream'[s].wasFCloseCalled
  BY <1>4, NewWriterLemma
<1>6. Level' = request.requestId
  <2>1. ~ BothClosed'
    BY <1>5 DEF BothClosed, Streams
  <2> QED
    BY <1>2, <1>3, <2>1 DEF Level
<1>7. Level \in Int /\ Level <= Level' /\ Level' \in Int
  BY <1>2, <1>6 DEF Level
<1>8. CellUpTo(Level) \subseteq CellUpTo(Level') /\ PlainCell \subseteq CellUpTo(Level')
  BY <1>7, CellsGrow
<1>9. /\ stream' \in [Streams -> StreamOver(CellUpTo(Level'))]
      /\ \A s \in Streams : Sound(stream'[s], s)
  BY <1>4, <1>8, NewWriterLemma
<1>10. net' \in NetOver(CellUpTo(Level'))
  <2>1. net \in NetOver(CellUpTo(Level'))
    BY <1>8, WorldsGrow DEF IInv
  <2>2. <<>> \in Seq(CellUpTo(Level'))
    BY EmptySeq
  <2>3. [wire |-> <<>>, room |-> room, open |-> TRUE] \in NetOver(CellUpTo(Level'))
    BY <1>1, <2>2 DEF NetOver
  <2> QED
    BY <2>1, <2>3 DEF Accept
<1>11. WritersCounted'
  BY <1>3, <1>5 DEF WritersCounted, Unclosed, Streams
<1>12. /\ call' \in CallType /\ call' = Idle
  BY DEF IInv, Accept
<1>13. /\ said' \in [Streams -> Nat] /\ failed' \in [Streams -> Nat \cup {-1}]
       /\ cleared' \in BOOLEAN /\ claimed' \in Seq(Int)
  BY EmptySeq DEF Accept
<1>14. request'.requestId > 0
  BY <1>2, <1>3
<1> QED
  BY <1>3, <1>9, <1>10, <1>11, <1>12, <1>13, <1>14 DEF IInv

\* Every action preserves the invariant.
LEMMA NextLemma ==
    ASSUME IInv, [Next]_vars
    PROVE  IInv'
<1>1. ASSUME NEW s \in Streams, NEW n \in Chunks, PutStr(s, n)
      PROVE  IInv'
  <2>1. n \in Nat
    BY ChunksAssumption
  <2> QED
    BY <1>1, <2>1, PutStrLemma DEF PutStr
<1>2. CASE PutStrLoop
  <2>1. call.s \in Streams /\ call.left \in Nat /\ call # Idle
    BY <1>2 DEF PutStrLoop, IInv, CallType, Idle
  <2>2. request.active
    BY <2>1 DEF IInv
  <2> QED
    BY <1>2, <2>1, <2>2, PutStrLemma DEF PutStrLoop
<1>3. ASSUME NEW s \in Streams, FFlush(s)
      PROVE  IInv'
  BY <1>3, FFlushStep
<1>4. ASSUME NEW s \in Streams, FCloseByApp(s)
      PROVE  IInv'
  <2>1. call' \in CallType
    BY <1>4 DEF FCloseByApp, IInv
  <2> QED
    BY <1>4, <2>1, FCloseStep DEF FCloseByApp
<1>5. ASSUME NEW s \in Streams, ClearError(s)
      PROVE  IInv'
  <2>1. /\ stream' = [stream EXCEPT ![s].FCGI_errno = 0] /\ cleared' = TRUE
        /\ UNCHANGED <<request, net, call, said, failed, claimed>>
    BY <1>5 DEF ClearError
  <2>2. stream \in [Streams -> StreamOver(CellUpTo(Level))]
    BY DEF IInv
  <2>3. /\ stream' \in [Streams -> StreamOver(CellUpTo(Level))]
        /\ \A t \in Streams :
             /\ stream'[t].type = stream[t].type
             /\ stream'[t].buff = stream[t].buff
             /\ stream'[t].stop = stream[t].stop
             /\ stream'[t].wasFCloseCalled <=> stream[t].wasFCloseCalled
             /\ stream'[t].rawWrite <=> stream[t].rawWrite
             /\ stream'[t].isClosed <=> stream[t].isClosed
    BY <2>1, <2>2 DEF StreamOver
  <2>4. Level' = Level
    BY <2>1, <2>3 DEF Level, BothClosed
  <2>5. \A t \in Streams : Sound(stream'[t], t)
    <3>1. \A t \in Streams : Sound(stream[t], t)
      BY DEF IInv
    <3> QED
      BY <2>3, <3>1 DEF Sound, Collecting
  <2>6. WritersCounted'
    BY <2>1, <2>3 DEF IInv, WritersCounted, Unclosed, Streams
  <2> QED
    BY <2>1, <2>3, <2>4, <2>5, <2>6 DEF IInv
<1>6. ASSUME NEW status \in Statuses, SetExitStatus(status)
      PROVE  IInv'
  <2>1. status \in Int /\ <<status>> \in Seq(Int)
    BY StatusesAssumption
  <2>2. /\ request' = [request EXCEPT !.appStatus = status]
        /\ claimed' = IF request.nWriters > 0 THEN <<status>> ELSE claimed
        /\ UNCHANGED <<stream, net, call, said, failed, cleared>>
    BY <1>6 DEF SetExitStatus
  <2>3. /\ request' \in RequestType /\ request'.requestId = request.requestId
        /\ request'.nWriters = request.nWriters
        /\ request'.active <=> request.active
    BY <2>1, <2>2 DEF IInv, RequestType
  <2>4. Level' = Level
    BY <2>2, <2>3 DEF Level, BothClosed
  <2>5. WritersCounted'
    BY <2>2, <2>3 DEF IInv, WritersCounted, Unclosed
  <2> QED
    BY <2>1, <2>2, <2>3, <2>4, <2>5 DEF IInv
<1>7. CASE FinishErr
  <2>1. /\ "err" \in Streams /\ request.active
        /\ Become("err", FClose(World("err")), 0)
        /\ UNCHANGED <<cleared, claimed>>
    BY <1>7 DEF FinishErr, Streams
  <2>2. call' \in CallType
    BY <1>7 DEF FinishErr, CallType, Streams
  <2> QED
    BY <2>1, <2>2, FCloseStep
<1>8. ASSUME NEW inError \in BOOLEAN, FinishOut(inError)
      PROVE  IInv'
  BY <1>8, FinishOutStep
<1>9. ASSUME NEW keep \in KeepConns, NEW room \in Rooms, Accept(keep, room)
      PROVE  IInv'
  BY <1>9, AcceptStep
<1>10. CASE UNCHANGED vars
  BY <1>10 DEF vars, IInv, Level, BothClosed, WritersCounted, Unclosed
<1> QED
  BY <1>1, <1>2, <1>3, <1>4, <1>5, <1>6, <1>7, <1>8, <1>9, <1>10 DEF Next

\* The invariant implies the properties that the runs check.
LEMMA InvariantLemma ==
    ASSUME IInv
    PROVE  TypeOK /\ BufferFits /\ WritersCounted /\ NoEarlyEnd
<1>1. Level \in Int /\ CellUpTo(Level) \subseteq Cell
  BY LevelLemma, CellsGrow
<1>2. stream \in [Streams -> StreamOver(CellUpTo(Level))] /\ net \in NetOver(CellUpTo(Level))
  BY DEF IInv
<1>3. TypeOK
  <2>1. stream \in [Streams -> StreamOver(Cell)] /\ net \in NetOver(Cell)
    BY <1>1, <1>2, WorldsGrow
  <2>2. StreamOver(Cell) = StreamType /\ NetOver(Cell) = NetType
    BY DEF StreamOver, StreamType, NetOver, NetType
  <2> QED
    BY <2>1, <2>2 DEF IInv, TypeOK, CallType
<1>4. BufferFits
  <2>1. \A s \in Streams : BuffLen[s] \in Nat
    BY BuffLenLemma
  <2> QED
    BY <2>1 DEF IInv, BufferFits, Sound, Collecting
<1>5. NoEarlyEnd
  <2> SUFFICES ASSUME NEW i \in 1 .. Len(net.wire), ~ BothClosed,
                      net.wire[i][1] = "body", net.wire[i][2] = request.requestId
               PROVE  FALSE
    BY DEF NoEarlyEnd, BothClosed
  <2>1. net.wire[i] \in CellUpTo(Level)
    BY <1>2, ElementOfSeq DEF NetOver
  <2>2. Level = request.requestId - 1 /\ request.requestId \in Nat
    BY DEF Level, IInv, RequestType
  <2>3. net.wire[i] \notin PlainCell
    BY DEF PlainCell
  <2>4. net.wire[i][2] <= Level
    BY <2>1, <2>3 DEF CellUpTo
  <2> QED
    BY <2>2, <2>4
<1> QED
  BY <1>3, <1>4, <1>5 DEF IInv

(***************************************************************************)
(* The invariant holds in every reachable state.                           *)
(***************************************************************************)
THEOREM InvariantTheorem ==
    Spec => []IInv
<1>1. IInv /\ [Next]_vars => IInv'
  BY NextLemma
<1> QED
  BY <1>1, InitLemma, PTL DEF Spec

(***************************************************************************)
(* Type correctness.  In particular the two ASSERTs of MakeHeader hold for *)
(* every record, and nWriters never becomes negative, whatever is written, *)
(* closed and cleared in whatever order and wherever writes fail.          *)
(***************************************************************************)
THEOREM TypeTheorem ==
    Spec => []TypeOK
<1>1. IInv => TypeOK
  BY InvariantLemma
<1> QED
  BY <1>1, InvariantTheorem, PTL

(***************************************************************************)
(* EmptyBuffProc's claim that "Padding can't overflow the buffer because   *)
(* the buffer is a multiple of 8 bytes in length", for every buffer length *)
(* NewStream can make, and the same for the close records and for what is  *)
(* written after an error.                                                 *)
(***************************************************************************)
THEOREM BufferTheorem ==
    Spec => []BufferFits
<1>1. IInv => BufferFits
  BY InvariantLemma
<1> QED
  BY <1>1, InvariantTheorem, PTL

(***************************************************************************)
(* nWriters is the number of output streams that are still to be closed.   *)
(***************************************************************************)
THEOREM WritersTheorem ==
    Spec => []WritersCounted
<1>1. IInv => WritersCounted
  BY InvariantLemma
<1> QED
  BY <1>1, InvariantTheorem, PTL

(***************************************************************************)
(* No byte of FCGI_END_REQUEST of a request is sent before both of its     *)
(* output streams are closed, on a connection that may serve any number of *)
(* requests.                                                               *)
(***************************************************************************)
THEOREM EndTheorem ==
    Spec => []NoEarlyEnd
<1>1. IInv => NoEarlyEnd
  BY InvariantLemma
<1> QED
  BY <1>1, InvariantTheorem, PTL

(***************************************************************************)
(* Second part: the response.  From here on it is shown what the decoder   *)
(* makes of the connection (Boundaries, AppendDecode), what each operation *)
(* of a stream sends (FlushSends, CloseSends), what one more record does   *)
(* to the order of the records and to the content of the streams (Told),   *)
(* and at the end, action by action, that RInv is kept.                    *)
(***************************************************************************)

\* Whatever holds of p if it holds of all larger numbers holds up to N.
LEMMA DownwardInduction ==
    ASSUME NEW N \in Nat, NEW S,
           \A p \in 1 .. N : (\A q \in 1 .. N : q > p => q \in S) => p \in S
    PROVE  \A p \in 1 .. N : p \in S
<1> DEFINE T == {n \in Nat : \A p \in 1 .. N : p > N - n => p \in S}
<1>1. 0 \in T
  OBVIOUS
<1>2. ASSUME NEW n \in Nat, n \in T
      PROVE  n + 1 \in T
  <2> SUFFICES ASSUME NEW p \in 1 .. N, p > N - (n + 1)
               PROVE  p \in S
    OBVIOUS
  <2>1. \A q \in 1 .. N : q > p => q > N - n
    OBVIOUS
  <2> QED
    BY <1>2, <2>1
<1> HIDE DEF T
<1>3. \A n \in Nat : n \in T
  BY <1>1, <1>2, SetInduction
<1>4. N \in T
  BY <1>3
<1> QED
  BY <1>4 DEF T

\* How the value of a function on 1 .. N at p is made: from base at p, or from
\* its value at next[p], which is larger than p.
Recursion(V, N, next, base, step) ==
    /\ N \in Nat
    /\ next \in [1 .. N -> Nat] /\ \A p \in 1 .. N : next[p] > p
    /\ base \in [1 .. N -> V] /\ step \in [1 .. N -> [V -> V]]

Solves(f, V, N, next, base, step) ==
    /\ f \in [1 .. N -> V]
    /\ \A p \in 1 .. N : f[p] = IF next[p] > N THEN base[p] ELSE step[p][f[next[p]]]

\* There is such a function.
LEMMA ForwardRecursion ==
    ASSUME NEW V, NEW N, NEW next, NEW base, NEW step, Recursion(V, N, next, base, step)
    PROVE  \E f : Solves(f, V, N, next, base, step)
<1> USE DEF Recursion
<1> DEFINE Value(f, p) == IF next[p] > N THEN base[p] ELSE step[p][f[next[p]]]
           From(n) == N - n + 1 .. N
           S == {n \in Nat : n <= N =>
                   \E f \in [From(n) -> V] : \A p \in From(n) : f[p] = Value(f, p)}
<1>1. 0 \in S
  <2>1. From(0) = {}
    OBVIOUS
  <2>2. [p \in From(0) |-> base[p]] \in [From(0) -> V]
    BY <2>1
  <2> QED
    BY <2>1, <2>2
<1>2. ASSUME NEW n \in Nat, n \in S
      PROVE  n + 1 \in S
  <2> SUFFICES ASSUME n + 1 <= N
               PROVE  \E f \in [From(n + 1) -> V] : \A p \in From(n + 1) : f[p] = Value(f, p)
    OBVIOUS
  <2>1. PICK f \in [From(n) -> V] : \A p \in From(n) : f[p] = Value(f, p)
    BY <1>2
  <2> DEFINE q == N - n
             v == Value(f, q)
             g == [p \in From(n + 1) |-> IF p = q THEN v ELSE f[p]]
  <2>2. /\ q \in 1 .. N /\ q \in From(n + 1) /\ q \notin From(n)
        /\ \A p \in From(n + 1) : p = q \/ p \in From(n)
        /\ From(n) \subseteq From(n + 1) /\ From(n + 1) \subseteq 1 .. N
    OBVIOUS
  <2>3. \A p \in From(n + 1) : next[p] > N \/ next[p] \in From(n)
    BY <2>2
  <2>4. v \in V
    BY <2>1, <2>2, <2>3
  <2> HIDE DEF v
  <2>5. g \in [From(n + 1) -> V] /\ g[q] = v /\ \A p \in From(n) : g[p] = f[p]
    BY <2>1, <2>2, <2>4
  <2>6. v = Value(f, q)
    BY DEF v
  <2> HIDE DEF g, q, From
  <2>7. \A p \in From(n + 1) : Value(g, p) = Value(f, p)
    BY <2>3, <2>5
  <2>8. \A p \in From(n + 1) : g[p] = Value(g, p)
    <3>1. \A p \in From(n) : g[p] = Value(g, p)
      BY <2>1, <2>2, <2>5, <2>7
    <3>2. g[q] = Value(g, q)
      BY <2>2, <2>5, <2>6, <2>7
    <3> QED
      BY <2>2, <3>1, <3>2
  <2> QED
    BY <2>5, <2>8
<1> HIDE DEF S
<1>3. \A n \in Nat : n \in S
  BY <1>1, <1>2, SetInduction
<1>4. N \in S
  BY <1>3
<1>5. From(N) = 1 .. N
  OBVIOUS
<1>6. \E f \in [1 .. N -> V] : \A p \in 1 .. N : f[p] = Value(f, p)
  BY <1>4, <1>5 DEF S
<1> QED
  BY <1>6 DEF Solves

(***************************************************************************)
(* The decoder.  Records and InSync by their equations.                    *)
(***************************************************************************)
RecordType ==
    [type : Streams \cup {"end"}, id : Nat, clen : Nat, content : Seq(Cell), padding : Seq(Cell)]

\* There is a record at p, and one or nothing behind it.
Starts(w, p) == p # Len(w) + 1 /\ HeaderArrived(w, p) /\ HeaderFrom(w, p)

Decodes(w, f) ==
    /\ f \in [1 .. Len(w) + 1 -> Seq(RecordType)]
    /\ \A p \in 1 .. Len(w) + 1 :
          f[p] = IF ~ Starts(w, p) THEN <<>>
                 ELSE IF p + RecordLen(w, p) > Len(w) THEN <<RecordAt(w, p)>>
                 ELSE <<RecordAt(w, p)>> \o f[p + RecordLen(w, p)]

Syncs(w, f) ==
    /\ f \in [1 .. Len(w) + 1 -> BOOLEAN]
    /\ \A p \in 1 .. Len(w) + 1 :
          f[p] = \/ p = Len(w) + 1
                 \/ /\ HeaderFrom(w, p)
                    /\ \/ ~ HeaderArrived(w, p)
                       \/ p + RecordLen(w, p) > Len(w)
                       \/ f[p + RecordLen(w, p)]

\* What the first byte of a header says.
LEMMA HeaderCell ==
    ASSUME NEW c \in Cell, c[1] = "hdr"
    PROVE  /\ c[2] \in Streams \cup {"end"} /\ c[3] \in Nat
           /\ c[4] \in 0 .. FCGI_MAX_LENGTH /\ c[5] \in 0 .. 255
BY DEF Cell

\* What the header of a record says, and how long the record is.
LEMMA HeaderFields ==
    ASSUME NEW w \in Seq(Cell), NEW p \in 1 .. Len(w), HeaderFrom(w, p)
    PROVE  /\ w[p] \in Cell
           /\ w[p][2] \in Streams \cup {"end"} /\ w[p][3] \in Nat
           /\ w[p][4] \in Nat /\ w[p][5] \in Nat
           /\ RecordLen(w, p) = 8 + w[p][4] + w[p][5] /\ RecordLen(w, p) \in Nat
           /\ RecordLen(w, p) >= 8
<1> DEFINE c == w[p]
<1>1. c \in Cell /\ c[1] = "hdr"
  BY ElementOfSeq DEF HeaderFrom
<1> HIDE DEF c
<1>2. /\ c[2] \in Streams \cup {"end"} /\ c[3] \in Nat
      /\ c[4] \in 0 .. FCGI_MAX_LENGTH /\ c[5] \in 0 .. 255
  BY <1>1, HeaderCell
<1> DEFINE m == c[4]
           n == c[5]
<1>3. FCGI_MAX_LENGTH \in Nat
  BY DEF FCGI_MAX_LENGTH
<1>4. m \in 0 .. FCGI_MAX_LENGTH /\ n \in 0 .. 255
  BY <1>2
<1>5. RecordLen(w, p) = 8 + m + n
  BY DEF RecordLen, FCGI_HEADER_LEN, c
<1> HIDE DEF m, n
<1>6. m \in Nat /\ n \in Nat
  BY <1>3, <1>4
<1>7. 8 + m + n \in Nat /\ 8 + m + n >= 8
  BY <1>6
<1> QED
  BY <1>1, <1>2, <1>5, <1>6, <1>7 DEF c, m, n

\* Any part of a sequence.
LEMMA PartLemma ==
    ASSUME NEW S, NEW s \in Seq(S), NEW m \in Nat \ {0}, NEW n \in Int, n <= Len(s)
    PROVE  /\ SubSeq(s, m, n) \in Seq(S)
           /\ Len(SubSeq(s, m, n)) = IF m <= n THEN n - m + 1 ELSE 0
           /\ \A i \in 1 .. n - m + 1 : SubSeq(s, m, n)[i] = s[m + i - 1]
<1>1. /\ Len(s) \in Nat
      /\ \A i \in m .. n : i \in 1 .. Len(s)
  BY LenProperties
<1>2. \A i \in m .. n : s[i] \in S
  BY <1>1, ElementOfSeq
<1> QED
  BY <1>2, SubSeqProperties

\* What is decoded at a header is a record.
LEMMA RecordTyped ==
    ASSUME NEW w \in Seq(Cell), NEW p \in 1 .. Len(w), HeaderFrom(w, p)
    PROVE  RecordAt(w, p) \in RecordType
<1> DEFINE a == p + FCGI_HEADER_LEN
           b == Smaller(Len(w), p + FCGI_HEADER_LEN + w[p][4] - 1)
           c == p + FCGI_HEADER_LEN + w[p][4]
           d == Smaller(Len(w), p + RecordLen(w, p) - 1)
<1>1. /\ w[p][2] \in Streams \cup {"end"} /\ w[p][3] \in Nat
      /\ w[p][4] \in Nat /\ w[p][5] \in Nat /\ RecordLen(w, p) \in Nat
  BY HeaderFields
<1>2. /\ a \in Nat \ {0} /\ c \in Nat \ {0}
      /\ b \in Int /\ d \in Int /\ b <= Len(w) /\ d <= Len(w)
  <2> DEFINE n == Len(w)
             k == w[p][4]
             l == RecordLen(w, p)
  <2>1. n \in Nat /\ k \in Nat /\ l \in Nat /\ p \in Nat /\ p > 0
    BY <1>1, LenProperties
  <2> HIDE DEF n, k, l
  <2>2. /\ p + 8 \in Nat \ {0} /\ p + 8 + k \in Nat \ {0}
        /\ Smaller(n, p + 8 + k - 1) \in Int /\ Smaller(n, p + 8 + k - 1) <= n
        /\ Smaller(n, p + l - 1) \in Int /\ Smaller(n, p + l - 1) <= n
    BY <2>1 DEF Smaller
  <2> QED
    BY <2>2 DEF FCGI_HEADER_LEN, n, k, l
<1> HIDE DEF a, b, c, d
<1>3. SubSeq(w, a, b) \in Seq(Cell) /\ SubSeq(w, c, d) \in Seq(Cell)
  BY <1>2, PartLemma
<1>4. RecordAt(w, p) = [type |-> w[p][2], id |-> w[p][3], clen |-> w[p][4],
                        content |-> SubSeq(w, a, b), padding |-> SubSeq(w, c, d)]
  BY DEF RecordAt, a, b, c, d
<1> DEFINE type == w[p][2]
           id == w[p][3]
           clen == w[p][4]
           content == SubSeq(w, a, b)
           padding == SubSeq(w, c, d)
<1>5. /\ type \in Streams \cup {"end"} /\ id \in Nat /\ clen \in Nat
      /\ content \in Seq(Cell) /\ padding \in Seq(Cell)
  BY <1>1, <1>3
<1>6. RecordAt(w, p) = [type |-> type, id |-> id, clen |-> clen, content |-> content,
                        padding |-> padding]
  BY <1>4
<1> HIDE DEF type, id, clen, content, padding
<1> QED
  BY <1>5, <1>6 DEF RecordType

\* Records is the value at 1 of a function that satisfies its equations.
LEMMA RecordsDecode ==
    ASSUME NEW w \in Seq(Cell)
    PROVE  \E f : Decodes(w, f) /\ Records(w) = f[1]
<1> DEFINE N == Len(w) + 1
           Stops(p) == ~ Starts(w, p) \/ p + RecordLen(w, p) > Len(w)
           next == [p \in 1 .. N |-> IF Stops(p) THEN N + p ELSE p + RecordLen(w, p)]
           base == [p \in 1 .. N |-> IF ~ Starts(w, p) THEN <<>> ELSE
                                     IF Stops(p) THEN <<RecordAt(w, p)>> ELSE <<>>]
           step == [p \in 1 .. N |->
                      [v \in Seq(RecordType) |-> IF Starts(w, p) THEN <<RecordAt(w, p)>> \o v ELSE v]]
           Value(f, p) == IF p = Len(w) + 1 \/ ~ HeaderArrived(w, p) \/ ~ HeaderFrom(w, p) THEN <<>>
                          ELSE IF p + RecordLen(w, p) > Len(w) THEN <<RecordAt(w, p)>>
                          ELSE <<RecordAt(w, p)>> \o f[p + RecordLen(w, p)]
           Eq(f) == f = [p \in 1 .. Len(w) + 1 |-> Value(f, p)]
           from == CHOOSE f : Eq(f)
<1>1. N \in Nat
  OBVIOUS
<1>2. ASSUME NEW p \in 1 .. N, Starts(w, p)
      PROVE  /\ RecordAt(w, p) \in RecordType /\ <<RecordAt(w, p)>> \in Seq(RecordType)
             /\ RecordLen(w, p) \in Nat /\ RecordLen(w, p) >= 8
  <2>1. p \in 1 .. Len(w) /\ HeaderFrom(w, p)
    BY <1>2 DEF Starts
  <2> QED
    BY <2>1, RecordTyped, HeaderFields
<1>3. next \in [1 .. N -> Nat] /\ \A p \in 1 .. N : next[p] > p
  BY <1>2
<1>4. base \in [1 .. N -> Seq(RecordType)]
  BY <1>2
<1>5. step \in [1 .. N -> [Seq(RecordType) -> Seq(RecordType)]]
  BY <1>2, ConcatProperties
<1>6. \A p \in 1 .. N : next[p] > N <=> Stops(p)
  BY <1>2
<1>7. PICK f \in [1 .. N -> Seq(RecordType)] :
          \A p \in 1 .. N : f[p] = IF next[p] > N THEN base[p] ELSE step[p][f[next[p]]]
  <2> DEFINE V == Seq(RecordType)
  <2> HIDE DEF next, base, step, N, V
  <2>1. Recursion(V, N, next, base, step)
    BY <1>1, <1>3, <1>4, <1>5 DEF V, Recursion
  <2>2. PICK f : Solves(f, V, N, next, base, step)
    BY <2>1, ForwardRecursion, Zenon
  <2> QED
    BY <2>2 DEF V, Solves
<1>8. \A p \in 1 .. N : f[p] = Value(f, p)
  <2> SUFFICES ASSUME NEW p \in 1 .. N PROVE f[p] = Value(f, p)
    OBVIOUS
  <2>1. CASE Stops(p)
    BY <2>1, <1>6, <1>7 DEF Starts
  <2>2. CASE ~ Stops(p)
    <3>1. next[p] = p + RecordLen(w, p) /\ next[p] \in 1 .. N
      BY <2>2, <1>2
    <3>2. f[p] = step[p][f[next[p]]]
      BY <2>2, <1>6, <1>7
    <3>3. f[next[p]] \in Seq(RecordType)
      BY <3>1, <1>7
    <3>4. step[p][f[next[p]]] = <<RecordAt(w, p)>> \o f[next[p]]
      BY <2>2, <3>3
    <3> HIDE DEF next, step
    <3> QED
      BY <2>2, <3>1, <3>2, <3>4 DEF Starts
  <2> QED
    BY <2>1, <2>2
<1>9. Eq(f)
  BY <1>7, <1>8
<1>10. Eq(from)
  BY <1>9
<1>11. Records(w) = from[1]
  BY DEF Records
<1> HIDE DEF next, base, step, from
<1>12. from[1] = f[1]
  <2> DEFINE S == {p \in 1 .. N : from[p] = f[p]}
  <2>1. \A p \in 1 .. N : from[p] = Value(from, p)
    BY <1>10
  <2>2. ASSUME NEW p \in 1 .. N, \A q \in 1 .. N : q > p => q \in S
        PROVE  p \in S
    <3>1. CASE Stops(p)
      BY <3>1, <1>8, <2>1 DEF Starts
    <3>2. CASE ~ Stops(p)
      <4> DEFINE q == p + RecordLen(w, p)
      <4>1. q \in 1 .. N /\ q > p
        BY <3>2, <1>2
      <4>2. from[q] = f[q]
        BY <4>1, <2>2
      <4> QED
        BY <4>2, <1>8, <2>1
    <3> QED
      BY <3>1, <3>2
  <2> HIDE DEF S
  <2>3. \A p \in 1 .. N : p \in S
    BY <1>1, <2>2, DownwardInduction
  <2> QED
    BY <1>1, <2>3 DEF S
<1>13. Decodes(w, f)
  BY <1>7, <1>8 DEF Decodes, Starts
<1> QED
  BY <1>11, <1>12, <1>13

\* So is InSync.
LEMMA SyncDecode ==
    ASSUME NEW w \in Seq(Cell)
    PROVE  \E f : Syncs(w, f) /\ InSync(w) = f[1]
<1> DEFINE N == Len(w) + 1
           Stops(p) == \/ p = Len(w) + 1 \/ ~ HeaderFrom(w, p) \/ ~ HeaderArrived(w, p)
                       \/ p + RecordLen(w, p) > Len(w)
           next == [p \in 1 .. N |-> IF Stops(p) THEN N + p ELSE p + RecordLen(w, p)]
           base == [p \in 1 .. N |-> p = Len(w) + 1 \/ HeaderFrom(w, p)]
           step == [p \in 1 .. N |-> [v \in BOOLEAN |-> v]]
           Value(f, p) == \/ p = Len(w) + 1
                          \/ /\ HeaderFrom(w, p)
                             /\ \/ ~ HeaderArrived(w, p)
                                \/ p + RecordLen(w, p) > Len(w)
                                \/ f[p + RecordLen(w, p)]
           Eq(f) == f = [p \in 1 .. Len(w) + 1 |-> Value(f, p)]
           from == CHOOSE f : Eq(f)
<1>1. N \in Nat
  BY LenProperties
<1>2. ASSUME NEW p \in 1 .. N, p # Len(w) + 1, HeaderFrom(w, p)
      PROVE  RecordLen(w, p) \in Nat /\ RecordLen(w, p) >= 8
  <2>1. p \in 1 .. Len(w)
    BY <1>1, <1>2
  <2> QED
    BY <1>2, <2>1, HeaderFields
<1>3. next \in [1 .. N -> Nat] /\ \A p \in 1 .. N : next[p] > p
  BY <1>1, <1>2
<1>4. base \in [1 .. N -> BOOLEAN]
  OBVIOUS
<1>5. step \in [1 .. N -> [BOOLEAN -> BOOLEAN]]
  OBVIOUS
<1>6. \A p \in 1 .. N : next[p] > N <=> Stops(p)
  BY <1>1, <1>2
<1>7. PICK f \in [1 .. N -> BOOLEAN] :
          \A p \in 1 .. N : f[p] = IF next[p] > N THEN base[p] ELSE step[p][f[next[p]]]
  <2> HIDE DEF next, base, step, N
  <2>1. Recursion(BOOLEAN, N, next, base, step)
    BY <1>1, <1>3, <1>4, <1>5 DEF Recursion
  <2>2. PICK f : Solves(f, BOOLEAN, N, next, base, step)
    BY <2>1, ForwardRecursion, Zenon
  <2> QED
    BY <2>2 DEF Solves
<1>8. \A p \in 1 .. N : f[p] = Value(f, p)
  <2> SUFFICES ASSUME NEW p \in 1 .. N PROVE f[p] = Value(f, p)
    OBVIOUS
  <2>1. CASE Stops(p)
    <3>1. f[p] = base[p]
      BY <2>1, <1>6, <1>7
    <3>2. base[p] = (p = Len(w) + 1 \/ HeaderFrom(w, p))
      OBVIOUS
    <3>3. base[p] = Value(f, p)
      <4> HIDE DEF next, step, base
      <4> QED
        BY <2>1, <3>2
    <3> QED
      BY <3>1, <3>3
  <2>2. CASE ~ Stops(p)
    <3>1. next[p] = p + RecordLen(w, p) /\ next[p] \in 1 .. N
      BY <2>2, <1>1, <1>2
    <3>2. f[p] = step[p][f[next[p]]]
      BY <2>2, <1>6, <1>7
    <3>3. f[next[p]] \in BOOLEAN
      BY <3>1, <1>7
    <3>4. step[p][f[next[p]]] = f[next[p]]
      BY <3>3
    <3> HIDE DEF next, step
    <3>5. f[p] = f[p + RecordLen(w, p)] /\ f[p] \in BOOLEAN
      BY <3>1, <3>2, <3>3, <3>4
    <3>6. Value(f, p) <=> f[p + RecordLen(w, p)]
      BY <2>2, <3>5
    <3> QED
      BY <3>5, <3>6
  <2> QED
    BY <2>1, <2>2
<1>9. Eq(f)
  BY <1>7, <1>8
<1>10. Eq(from)
  BY <1>9
<1>11. InSync(w) = from[1]
  BY DEF InSync
<1> HIDE DEF next, base, step, from
<1>12. from[1] = f[1]
  <2> DEFINE S == {p \in 1 .. N : from[p] = f[p]}
  <2>1. \A p \in 1 .. N : from[p] = Value(from, p)
    BY <1>10
  <2>2. ASSUME NEW p \in 1 .. N, \A q \in 1 .. N : q > p => q \in S
        PROVE  p \in S
    <3>1. CASE Stops(p)
      BY <3>1, <1>8, <2>1
    <3>2. CASE ~ Stops(p)
      <4> DEFINE q == p + RecordLen(w, p)
      <4>1. q \in 1 .. N /\ q > p
        BY <3>2, <1>1, <1>2
      <4>2. from[q] = f[q]
        BY <4>1, <2>2
      <4> QED
        BY <4>2, <1>8, <2>1
    <3> QED
      BY <3>1, <3>2
  <2> HIDE DEF S
  <2>3. \A p \in 1 .. N : p \in S
    BY <1>1, <2>2, DownwardInduction
  <2> QED
    BY <1>1, <2>3 DEF S
<1>13. Syncs(w, f)
  BY <1>7, <1>8 DEF Syncs
<1> QED
  BY <1>11, <1>12, <1>13

(***************************************************************************)
(* Putting records behind a connection that carries whole records.         *)
(***************************************************************************)

\* B holds the positions where the records of w start, and the end of w.
Boundaries(w, B) ==
    /\ B \subseteq 1 .. Len(w) + 1
    /\ 1 \in B
    /\ \A p \in B : \/ p = Len(w) + 1
                    \/ /\ p # Len(w) + 1 /\ HeaderArrived(w, p) /\ HeaderFrom(w, p)
                       /\ p + RecordLen(w, p) \in B

\* No record of w is cut short.
Whole(w) == \E B : Boundaries(w, B)

\* Part of a concatenation that lies in its first half.
LEMMA PartOfConcat ==
    ASSUME NEW S, NEW w \in Seq(S), NEW x \in Seq(S),
           NEW m \in Nat \ {0}, NEW n \in Int, n <= Len(w)
    PROVE  SubSeq(w \o x, m, n) = SubSeq(w, m, n)
<1> DEFINE v == w \o x
<1>1. /\ Len(w) \in Nat /\ Len(x) \in Nat /\ v \in Seq(S)
      /\ Len(v) = Len(w) + Len(x) /\ \A i \in 1 .. Len(w) : v[i] = w[i]
  BY LenProperties, ConcatProperties
<1> HIDE DEF v
<1>2. n <= Len(v)
  BY <1>1
<1>3. /\ SubSeq(v, m, n) \in Seq(S)
      /\ Len(SubSeq(v, m, n)) = IF m <= n THEN n - m + 1 ELSE 0
      /\ \A i \in 1 .. n - m + 1 : SubSeq(v, m, n)[i] = v[m + i - 1]
  BY <1>1, <1>2, PartLemma
<1>4. /\ SubSeq(w, m, n) \in Seq(S)
      /\ Len(SubSeq(w, m, n)) = IF m <= n THEN n - m + 1 ELSE 0
      /\ \A i \in 1 .. n - m + 1 : SubSeq(w, m, n)[i] = w[m + i - 1]
  BY PartLemma
<1> DEFINE a == SubSeq(v, m, n)
           b == SubSeq(w, m, n)
<1>5. \A i \in 1 .. n - m + 1 : m + i - 1 \in 1 .. Len(w)
  BY <1>1
<1>6. \A i \in 1 .. n - m + 1 : a[i] = b[i]
  BY <1>1, <1>3, <1>4, <1>5
<1>7. \A i \in 1 .. Len(a) : a[i] = b[i]
  BY <1>3, <1>6
<1>8. a \in Seq(S) /\ b \in Seq(S) /\ Len(a) = Len(b)
  BY <1>3, <1>4
<1> HIDE DEF a, b
<1>9. a = b
  BY <1>7, <1>8, SeqEqual
<1> QED
  BY <1>9 DEF a, b, v

\* A record that is complete is read the same whatever follows it.
LEMMA SameRecord ==
    ASSUME NEW w \in Seq(Cell), NEW x \in Seq(Cell), NEW p \in 1 .. Len(w),
           HeaderArrived(w, p), HeaderFrom(w, p)
    PROVE  /\ HeaderArrived(w \o x, p) /\ HeaderFrom(w \o x, p)
           /\ RecordLen(w \o x, p) = RecordLen(w, p)
           /\ p + RecordLen(w, p) <= Len(w) + 1 => RecordAt(w \o x, p) = RecordAt(w, p)
<1> DEFINE v == w \o x
           n == Len(w)
           k == Len(v)
<1>1. /\ n \in Nat /\ k \in Nat /\ v \in Seq(Cell) /\ n <= k
      /\ \A i \in 1 .. n : v[i] = w[i]
  BY LenProperties, ConcatProperties
<1>2. v[p] = w[p]
  BY <1>1
<1>3. RecordLen(v, p) = RecordLen(w, p)
  BY <1>2 DEF RecordLen
<1> HIDE DEF v, n, k
<1>4. p + 7 <= n /\ p \in Nat /\ p > 0
  BY <1>1 DEF HeaderArrived, FCGI_HEADER_LEN, n
<1>5. HeaderArrived(v, p)
  BY <1>1, <1>4 DEF HeaderArrived, FCGI_HEADER_LEN, k
<1>6. HeaderFrom(v, p)
  <2>1. /\ Smaller(8, k - p + 1) = 8 /\ Smaller(8, n - p + 1) = 8
        /\ \A i \in 1 .. 8 : p + i - 1 \in 1 .. n
    BY <1>1, <1>4 DEF Smaller
  <2>2. /\ w[p][1] = "hdr"
        /\ \A i \in 1 .. 8 : w[p + i - 1] = <<"hdr", w[p][2], w[p][3], w[p][4], w[p][5], i>>
    BY <2>1 DEF HeaderFrom, FCGI_HEADER_LEN, n
  <2>3. \A i \in 1 .. 8 : v[p + i - 1] = w[p + i - 1]
    BY <1>1, <2>1
  <2>4. /\ v[p][1] = "hdr"
        /\ \A i \in 1 .. 8 : v[p + i - 1] = <<"hdr", v[p][2], v[p][3], v[p][4], v[p][5], i>>
    BY <1>2, <2>2, <2>3
  <2> QED
    BY <2>1, <2>4 DEF HeaderFrom, FCGI_HEADER_LEN, k
<1>7. ASSUME p + RecordLen(w, p) <= Len(w) + 1
      PROVE  RecordAt(v, p) = RecordAt(w, p)
  <2> DEFINE c == w[p][4]
             l == w[p][5]
             r == RecordLen(w, p)
  <2>1. c \in Nat /\ l \in Nat /\ r = 8 + c + l
    BY HeaderFields
  <2>2. r = RecordLen(v, p) /\ p + r <= n + 1
    BY <1>3, <1>7 DEF n
  <2> HIDE DEF c, l, r
  <2>3. /\ Smaller(k, p + 8 + c - 1) = p + 8 + c - 1
        /\ Smaller(n, p + 8 + c - 1) = p + 8 + c - 1
        /\ Smaller(k, p + r - 1) = p + r - 1
        /\ Smaller(n, p + r - 1) = p + r - 1
        /\ p + 8 \in Nat \ {0} /\ p + 8 + c - 1 \in Int /\ p + 8 + c - 1 <= n
        /\ p + 8 + c \in Nat \ {0} /\ p + r - 1 \in Int /\ p + r - 1 <= n
    BY <1>1, <1>4, <2>1, <2>2 DEF Smaller
  <2>4. /\ SubSeq(v, p + 8, p + 8 + c - 1) = SubSeq(w, p + 8, p + 8 + c - 1)
        /\ SubSeq(v, p + 8 + c, p + r - 1) = SubSeq(w, p + 8 + c, p + r - 1)
    <3>1. ASSUME NEW a \in Nat \ {0}, NEW b \in Int, b <= n
          PROVE  SubSeq(v, a, b) = SubSeq(w, a, b)
      BY <3>1, PartOfConcat DEF v, n
    <3> QED
      BY <2>3, <3>1
  <2>5. RecordAt(v, p) = [type |-> v[p][2], id |-> v[p][3], clen |-> v[p][4],
                          content |-> SubSeq(v, p + 8, Smaller(k, p + 8 + v[p][4] - 1)),
                          padding |-> SubSeq(v, p + 8 + v[p][4],
                                             Smaller(k, p + RecordLen(v, p) - 1))]
    BY DEF RecordAt, FCGI_HEADER_LEN, k
  <2>6. RecordAt(w, p) = [type |-> w[p][2], id |-> w[p][3], clen |-> w[p][4],
                          content |-> SubSeq(w, p + 8, Smaller(n, p + 8 + c - 1)),
                          padding |-> SubSeq(w, p + 8 + c, Smaller(n, p + r - 1))]
    BY DEF RecordAt, FCGI_HEADER_LEN, n, c, r
  <2>7. v[p][4] = c
    BY <1>2 DEF c
  <2> QED
    BY <1>2, <2>2, <2>3, <2>4, <2>5, <2>6, <2>7
<1> QED
  BY <1>3, <1>5, <1>6, <1>7 DEF v

\* The records from any position on are records; at the end there are none.
LEMMA DecodesTyped ==
    ASSUME NEW w \in Seq(Cell), NEW f, Decodes(w, f)
    PROVE  /\ \A p \in 1 .. Len(w) + 1 : f[p] \in Seq(RecordType)
           /\ f[Len(w) + 1] = <<>>
<1>1. f \in [1 .. Len(w) + 1 -> Seq(RecordType)]
  BY DEF Decodes
<1>2. Len(w) + 1 \in 1 .. Len(w) + 1 /\ ~ Starts(w, Len(w) + 1)
  <2>1. Len(w) \in Nat
    BY LenProperties
  <2> QED
    BY <2>1 DEF Starts
<1>3. f[Len(w) + 1] = <<>>
  BY <1>2 DEF Decodes
<1> QED
  BY <1>1, <1>3

\* A position in B is the end or that of a complete record.
LEMMA BoundaryStep ==
    ASSUME NEW w \in Seq(Cell), NEW B, Boundaries(w, B), NEW p \in B, p # Len(w) + 1
    PROVE  /\ HeaderArrived(w, p) /\ HeaderFrom(w, p) /\ p \in 1 .. Len(w)
           /\ p + RecordLen(w, p) \in B /\ p + RecordLen(w, p) \in 1 .. Len(w) + 1
           /\ p + RecordLen(w, p) > p
<1> DEFINE n == Len(w)
           r == RecordLen(w, p)
<1>1. n \in Nat
  BY LenProperties
<1>2. B \subseteq 1 .. n + 1 /\ HeaderArrived(w, p) /\ HeaderFrom(w, p) /\ p + r \in B
  BY DEF Boundaries
<1>3. p \in 1 .. n
  <2> HIDE DEF n, r
  <2>1. p \in 1 .. n + 1 /\ p # n + 1
    BY <1>2 DEF n
  <2> QED
    BY <1>1, <2>1
<1>4. r \in Nat /\ r >= 8
  BY <1>2, <1>3, HeaderFields
<1> HIDE DEF n, r
<1>5. p + r > p
  BY <1>3, <1>4
<1> QED
  BY <1>2, <1>3, <1>5 DEF n, r

\* The records from a complete record on are that record and the rest.
LEMMA DecodeStep ==
    ASSUME NEW w \in Seq(Cell), NEW f, Decodes(w, f), NEW p \in 1 .. Len(w),
           HeaderArrived(w, p), HeaderFrom(w, p), p + RecordLen(w, p) <= Len(w) + 1
    PROVE  f[p] = <<RecordAt(w, p)>> \o f[p + RecordLen(w, p)]
<1>1. Len(w) \in Nat /\ p \in 1 .. Len(w) + 1 /\ p # Len(w) + 1
  BY LenProperties
<1>2. Starts(w, p)
  BY <1>1 DEF Starts
<1>3. f[p] = IF p + RecordLen(w, p) > Len(w) THEN <<RecordAt(w, p)>>
             ELSE <<RecordAt(w, p)>> \o f[p + RecordLen(w, p)]
  BY <1>1, <1>2 DEF Decodes
<1>4. CASE p + RecordLen(w, p) > Len(w)
  <2>1. RecordLen(w, p) \in Nat
    BY HeaderFields
  <2>2. p + RecordLen(w, p) = Len(w) + 1
    BY <1>1, <1>4, <2>1
  <2>3. f[Len(w) + 1] = <<>>
    BY DecodesTyped
  <2>4. <<RecordAt(w, p)>> \o <<>> = <<RecordAt(w, p)>>
    BY RecordTyped, ConcatEmptySeq
  <2> QED
    BY <1>3, <1>4, <2>2, <2>3, <2>4
<1> QED
  BY <1>3, <1>4

\* The records that g finds from 1 on are those of f and those from k on.
GoesOn(f, g, k) == g[1] = f[1] \o g[k]

\* Whatever follows whole records is decoded behind them.
LEMMA AppendDecode ==
    ASSUME NEW w \in Seq(Cell), NEW x \in Seq(Cell), NEW B, Boundaries(w, B),
           NEW f, Decodes(w, f), NEW g, Decodes(w \o x, g)
    PROVE  GoesOn(f, g, Len(w) + 1)
<1> DEFINE v == w \o x
           N == Len(w) + 1
           E == g[N]
           S == {p \in 1 .. N : p \in B => g[p] = f[p] \o E}
<1>1. /\ Len(w) \in Nat /\ N \in Nat /\ v \in Seq(Cell) /\ Len(v) = Len(w) + Len(x)
      /\ Len(v) \in Nat /\ Len(w) <= Len(v)
  BY LenProperties, ConcatProperties
<1>2. /\ \A p \in 1 .. N : f[p] \in Seq(RecordType) /\ g[p] \in Seq(RecordType)
      /\ E \in Seq(RecordType)
  <2>1. \A p \in 1 .. Len(v) + 1 : g[p] \in Seq(RecordType)
    <3> HIDE DEF v
    <3>1. Decodes(v, g)
      BY DEF v
    <3> QED
      BY <1>1, <3>1, DecodesTyped
  <2>2. \A p \in 1 .. N : p \in 1 .. Len(v) + 1
    BY <1>1
  <2> QED
    BY <1>1, <2>1, <2>2, DecodesTyped
<1>3. ASSUME NEW p \in 1 .. N, \A q \in 1 .. N : q > p => q \in S, p \in B
      PROVE  g[p] = f[p] \o E
  <2>1. CASE p = N
    <3>1. f[N] = <<>>
      BY DecodesTyped
    <3> QED
      BY <1>2, <2>1, <3>1, ConcatEmptySeq
  <2>2. CASE p # N
    <3> DEFINE q == p + RecordLen(w, p)
               Rd == <<RecordAt(w, p)>>
    <3>1. /\ HeaderArrived(w, p) /\ HeaderFrom(w, p) /\ q \in B /\ q \in 1 .. N
          /\ p \in 1 .. Len(w)
      BY <1>3, <2>2, BoundaryStep
    <3>2. q > p
      BY <1>3, <2>2, BoundaryStep
    <3>3. q <= Len(w) + 1 /\ p \in 1 .. Len(v) /\ q <= Len(v) + 1
      BY <1>1, <3>1
    <3>4. f[p] = Rd \o f[q]
      BY <3>1, <3>3, DecodeStep
    <3>5. /\ HeaderArrived(v, p) /\ HeaderFrom(v, p) /\ RecordLen(v, p) = RecordLen(w, p)
          /\ RecordAt(v, p) = RecordAt(w, p)
      BY <3>1, <3>3, SameRecord
    <3>6. g[p] = Rd \o g[q]
      <4>1. p + RecordLen(v, p) <= Len(v) + 1 /\ Decodes(v, g)
        BY <3>3, <3>5
      <4> HIDE DEF v
      <4>2. g[p] = <<RecordAt(v, p)>> \o g[p + RecordLen(v, p)]
        BY <1>1, <3>3, <3>5, <4>1, DecodeStep
      <4> QED
        BY <3>5, <4>2
    <3>7. g[q] = f[q] \o E
      BY <1>3, <3>1, <3>2
    <3>8. Rd \in Seq(RecordType)
      BY <3>1, RecordTyped
    <3>9. f[q] \in Seq(RecordType)
      BY <1>2, <3>1
    <3> HIDE DEF Rd, E, q
    <3>10. (Rd \o f[q]) \o E = Rd \o (f[q] \o E)
      <4>1. E \in Seq(RecordType)
        BY <1>2
      <4>2. \A a, b, c \in Seq(RecordType) : (a \o b) \o c = a \o (b \o c)
        BY ConcatAssociative
      <4> QED
        BY <3>8, <3>9, <4>1, <4>2, Zenon
    <3> QED
      BY <3>4, <3>6, <3>7, <3>10
  <2> QED
    BY <2>1, <2>2
<1>4. \A p \in 1 .. N : (\A q \in 1 .. N : q > p => q \in S) => p \in S
  BY <1>3
<1> HIDE DEF S, E
<1>5. \A p \in 1 .. N : p \in S
  BY <1>1, <1>4, DownwardInduction
<1>6. 1 \in B /\ 1 \in 1 .. N
  BY <1>1 DEF Boundaries
<1> QED
  BY <1>5, <1>6 DEF S, E, GoesOn

\* The same for being in step with the headers.
LEMMA AppendSync ==
    ASSUME NEW w \in Seq(Cell), NEW x \in Seq(Cell), NEW B, Boundaries(w, B),
           NEW g, Syncs(w \o x, g), g[Len(w) + 1]
    PROVE  g[1]
<1> DEFINE v == w \o x
           N == Len(w) + 1
           S == {p \in 1 .. N : p \in B => g[p]}
<1>1. /\ Len(w) \in Nat /\ N \in Nat /\ v \in Seq(Cell) /\ Len(v) = Len(w) + Len(x)
      /\ Len(v) \in Nat /\ Len(w) <= Len(v)
  BY LenProperties, ConcatProperties
<1>2. ASSUME NEW p \in 1 .. N, \A q \in 1 .. N : q > p => q \in S, p \in B
      PROVE  g[p]
  <2>1. CASE p = N
    BY <2>1
  <2>2. CASE p # N
    <3> DEFINE q == p + RecordLen(w, p)
    <3>1. /\ HeaderArrived(w, p) /\ HeaderFrom(w, p) /\ q \in B /\ q \in 1 .. N
          /\ p \in 1 .. Len(w)
      BY <1>2, <2>2, BoundaryStep
    <3>2. RecordLen(w, p) \in Nat /\ RecordLen(w, p) >= 8 /\ q > p
      BY <3>1, HeaderFields, <1>2, <2>2, BoundaryStep
    <3>3. HeaderArrived(v, p) /\ HeaderFrom(v, p) /\ RecordLen(v, p) = RecordLen(w, p)
      BY <3>1, SameRecord
    <3>4. g[q]
      BY <1>2, <3>1, <3>2
    <3>5. p \in 1 .. Len(v) + 1 /\ Syncs(v, g)
      BY <1>1
    <3> HIDE DEF v
    <3> QED
      BY <3>3, <3>4, <3>5 DEF Syncs
  <2> QED
    BY <2>1, <2>2
<1>3. \A p \in 1 .. N : (\A q \in 1 .. N : q > p => q \in S) => p \in S
  BY <1>2
<1> HIDE DEF S
<1>4. \A p \in 1 .. N : p \in S
  BY <1>1, <1>3, DownwardInduction
<1>5. 1 \in B /\ 1 \in 1 .. N
  BY <1>1 DEF Boundaries
<1> QED
  BY <1>4, <1>5 DEF S

\* A record of type t for request id.
Rec(t, id, content, l) == MakeHeader(t, id, Len(content), l) \o content \o Padding(l)

\* What is decoded of the first n cells of such a record, 8 or more.
PartOf(t, id, content, n) ==
    [type |-> t, id |-> id, clen |-> Len(content),
     content |-> SubSeq(content, 1, Smaller(n - 8, Len(content))),
     padding |-> Padding(IF n > 8 + Len(content) THEN n - 8 - Len(content) ELSE 0)]

Framed(t, id, content, l) ==
    /\ t \in Streams \cup {"end"} /\ id \in Nat /\ content \in Seq(Cell)
    /\ Len(content) \in 0 .. FCGI_MAX_LENGTH /\ l \in 0 .. 255

\* All cells of PlainCell are cells.
LEMMA PlainCells == PlainCell \subseteq Cell /\ Seq(PlainCell) \subseteq Seq(Cell)
<1>1. PlainCell \subseteq Cell
  BY CellsGrow, 0 \in Int, 0 <= 0
<1> QED
  BY <1>1, SeqMonotonic

\* The cells of a record.
RecordShape(r, t, id, content, c, l) ==
    /\ r \in Seq(Cell) /\ Len(r) = 8 + c + l /\ c \in Nat /\ l \in Nat
    /\ \A i \in 1 .. 8 : r[i] = <<"hdr", t, id, c, l, i>>
    /\ \A i \in 1 .. c : r[8 + i] = content[i]
    /\ \A i \in 1 .. l : r[8 + c + i] = <<"pad">>

\* The cells of a record: those of its header, its content and its padding.
LEMMA RecordCells ==
    ASSUME NEW t, NEW id, NEW content, NEW l, Framed(t, id, content, l)
    PROVE  RecordShape(Rec(t, id, content, l), t, id, content, Len(content), l)
<1> DEFINE c == Len(content)
           h == MakeHeader(t, id, c, l)
           pad == Padding(l)
           hc == h \o content
           r == hc \o pad
<1>1. /\ t \in Streams \cup {"end"} /\ id \in Nat /\ content \in Seq(Cell)
      /\ c \in 0 .. FCGI_MAX_LENGTH /\ l \in 0 .. 255 /\ c \in Nat /\ l \in Nat
  BY LenProperties DEF Framed
<1>2. h \in Seq(Cell) /\ Len(h) = 8 /\ \A i \in 1 .. 8 : h[i] = <<"hdr", t, id, c, l, i>>
  <2> HIDE DEF c
  <2>1. h \in Seq(Cell) /\ Len(h) = 8
    BY <1>1, HeaderLemma, PlainCells DEF FCGI_HEADER_LEN
  <2>2. \A i \in 1 .. 8 : h[i] = <<"hdr", t, id, c, l, i>>
    BY DEF MakeHeader, FCGI_HEADER_LEN
  <2> QED
    BY <2>1, <2>2
<1>3. pad \in Seq(Cell) /\ Len(pad) = l /\ \A i \in 1 .. l : pad[i] = <<"pad">>
  <2>1. pad \in Seq(Cell) /\ Len(pad) = l
    BY <1>1, FillerLemma, PlainCells
  <2>2. \A i \in 1 .. l : pad[i] = <<"pad">>
    BY DEF Padding
  <2> QED
    BY <2>1, <2>2
<1> HIDE DEF h, pad, c
<1>4. /\ hc \in Seq(Cell) /\ Len(hc) = 8 + c
      /\ \A i \in 1 .. 8 + c : hc[i] = IF i <= 8 THEN h[i] ELSE content[i - 8]
  <2>1. \A a, b \in Seq(Cell) :
          /\ a \o b \in Seq(Cell) /\ Len(a \o b) = Len(a) + Len(b)
          /\ \A i \in 1 .. Len(a) + Len(b) :
                (a \o b)[i] = IF i <= Len(a) THEN a[i] ELSE b[i - Len(a)]
    BY ConcatProperties
  <2>2. /\ hc \in Seq(Cell) /\ Len(hc) = Len(h) + Len(content)
        /\ \A i \in 1 .. Len(h) + Len(content) :
              hc[i] = IF i <= Len(h) THEN h[i] ELSE content[i - Len(h)]
    BY <1>1, <1>2, <2>1, Zenon
  <2> HIDE DEF hc
  <2> QED
    BY <1>2, <2>2 DEF c
<1> HIDE DEF hc
<1>5. /\ r \in Seq(Cell) /\ Len(r) = 8 + c + l
      /\ \A i \in 1 .. 8 + c + l : r[i] = IF i <= 8 + c THEN hc[i] ELSE pad[i - (8 + c)]
  <2>1. \A a, b \in Seq(Cell) :
          /\ a \o b \in Seq(Cell) /\ Len(a \o b) = Len(a) + Len(b)
          /\ \A i \in 1 .. Len(a) + Len(b) :
                (a \o b)[i] = IF i <= Len(a) THEN a[i] ELSE b[i - Len(a)]
    BY ConcatProperties
  <2>2. /\ r \in Seq(Cell) /\ Len(r) = Len(hc) + Len(pad)
        /\ \A i \in 1 .. Len(hc) + Len(pad) :
              r[i] = IF i <= Len(hc) THEN hc[i] ELSE pad[i - Len(hc)]
    BY <1>3, <1>4, <2>1, Zenon
  <2> HIDE DEF r
  <2> QED
    BY <1>3, <1>4, <2>2
<1> HIDE DEF r
<1>6. \A i \in 1 .. 8 : r[i] = <<"hdr", t, id, c, l, i>>
  BY <1>1, <1>2, <1>4, <1>5
<1>7. \A i \in 1 .. c : r[8 + i] = content[i]
  <2> SUFFICES ASSUME NEW i \in 1 .. c PROVE r[8 + i] = content[i]
    OBVIOUS
  <2>1. 8 + i \in 1 .. 8 + c /\ 8 + i \in 1 .. 8 + c + l /\ ~ (8 + i <= 8) /\ (8 + i) - 8 = i
    BY <1>1
  <2> QED
    BY <1>4, <1>5, <2>1
<1>8. \A i \in 1 .. l : r[8 + c + i] = <<"pad">>
  <2> SUFFICES ASSUME NEW i \in 1 .. l PROVE r[8 + c + i] = <<"pad">>
    OBVIOUS
  <2>1. 8 + c + i \in 1 .. 8 + c + l /\ ~ (8 + c + i <= 8 + c) /\ (8 + c + i) - (8 + c) = i
    BY <1>1
  <2> QED
    BY <1>3, <1>5, <2>1
<1> QED
  BY <1>1, <1>5, <1>6, <1>7, <1>8 DEF r, hc, h, pad, c, Rec, RecordShape

\* The first n cells of a record behind whole records: what the decoder finds
\* at the position where the record starts.
LEMMA AtTheEnd ==
    ASSUME NEW w \in Seq(Cell), NEW t, NEW id, NEW content, NEW l,
           Framed(t, id, content, l),
           NEW n \in 1 .. Len(Rec(t, id, content, l))
    PROVE  LET v == w \o SubSeq(Rec(t, id, content, l), 1, n)
               p == Len(w) + 1
           IN  /\ v \in Seq(Cell) /\ Len(v) = Len(w) + n
               /\ p \in 1 .. Len(v)
               /\ HeaderFrom(v, p) /\ (HeaderArrived(v, p) <=> n >= 8)
               /\ RecordLen(v, p) = Len(Rec(t, id, content, l))
               /\ n >= 8 => RecordAt(v, p) = PartOf(t, id, content, n)
<1> DEFINE r == Rec(t, id, content, l)
           c == Len(content)
           x == SubSeq(r, 1, n)
           v == w \o x
           k == Len(w)
           p == k + 1
<1> HIDE DEF r, c
<1>1. /\ r \in Seq(Cell) /\ Len(r) = 8 + c + l /\ c \in Nat /\ l \in Nat
      /\ \A i \in 1 .. 8 : r[i] = <<"hdr", t, id, c, l, i>>
      /\ \A i \in 1 .. c : r[8 + i] = content[i]
      /\ \A i \in 1 .. l : r[8 + c + i] = <<"pad">>
  <2>1. RecordShape(r, t, id, content, c, l)
    BY RecordCells DEF r, c
  <2> QED
    BY <2>1 DEF RecordShape
<1>2. content \in Seq(Cell) /\ k \in Nat
  BY LenProperties DEF Framed
<1> HIDE DEF r, c
<1>3. n \in Nat /\ n >= 1 /\ n <= 8 + c + l /\ n <= Len(r)
  BY <1>1 DEF r
<1>4. x \in Seq(Cell) /\ Len(x) = n /\ \A i \in 1 .. n : x[i] = r[i]
  <2>1. /\ x \in Seq(Cell)
        /\ Len(x) = IF 1 <= n THEN n - 1 + 1 ELSE 0
        /\ \A i \in 1 .. n - 1 + 1 : x[i] = r[1 + i - 1]
    BY <1>1, <1>3, PartLemma
  <2> HIDE DEF x
  <2> QED
    BY <1>3, <2>1
<1> HIDE DEF x
<1>5. /\ v \in Seq(Cell) /\ Len(v) = k + n
      /\ \A i \in 1 .. k + n : v[i] = IF i <= k THEN w[i] ELSE x[i - k]
  BY <1>4, ConcatProperties
<1> HIDE DEF v, k
<1>6. \A i \in 1 .. n : v[k + i] = r[i]
  <2> SUFFICES ASSUME NEW i \in 1 .. n PROVE v[k + i] = r[i]
    OBVIOUS
  <2>1. k + i \in 1 .. k + n /\ ~ (k + i <= k) /\ (k + i) - k = i
    BY <1>2, <1>3
  <2> QED
    BY <1>4, <1>5, <2>1
<1>7. v[p] = <<"hdr", t, id, c, l, 1>>
  <2>1. 1 \in 1 .. n /\ 1 \in 1 .. 8
    BY <1>3
  <2> QED
    BY <1>1, <1>6, <2>1
<1>8. v[p][1] = "hdr" /\ v[p][2] = t /\ v[p][3] = id /\ v[p][4] = c /\ v[p][5] = l
  BY <1>7
<1>9. HeaderFrom(v, p)
  <2>1. \A i \in 1 .. Smaller(8, (k + n) - p + 1) :
            i \in 1 .. n /\ i \in 1 .. 8 /\ p + i - 1 = k + i
    BY <1>2, <1>3 DEF Smaller
  <2>2. \A i \in 1 .. Smaller(8, (k + n) - p + 1) :
            v[p + i - 1] = <<"hdr", t, id, c, l, i>>
    BY <1>1, <1>6, <2>1
  <2> HIDE DEF p
  <2> QED
    BY <1>5, <1>8, <2>2 DEF HeaderFrom, FCGI_HEADER_LEN
<1>10. HeaderArrived(v, p) <=> n >= 8
  BY <1>2, <1>3, <1>5 DEF HeaderArrived, FCGI_HEADER_LEN
<1>11. RecordLen(v, p) = 8 + c + l
  BY <1>8 DEF RecordLen, FCGI_HEADER_LEN
<1>12. p \in 1 .. Len(v)
  BY <1>2, <1>3, <1>5
<1>13. ASSUME n >= 8
       PROVE  RecordAt(v, p) = PartOf(t, id, content, n)
  <2> DEFINE pc == p + 8
             pd == p + 8 + c
             a == Smaller(n - 8, c)
             b == Smaller(k + n, p + 8 + c - 1)
             d == Smaller(k + n, p + (8 + c + l) - 1)
             z == IF n > 8 + c THEN n - 8 - c ELSE 0
             A == SubSeq(v, pc, b)
             AA == SubSeq(content, 1, a)
             D == SubSeq(v, pd, d)
  <2>1. /\ a \in Nat /\ a <= c /\ a + 8 <= n /\ b = p + 8 + a - 1 /\ b <= k + n
        /\ z \in Nat /\ z <= l /\ (z > 0 => 8 + c + z <= n)
        /\ b \in Int /\ d \in Int /\ d <= k + n
        /\ z > 0 => d = p + 8 + c + z - 1
        /\ z = 0 => d < p + 8 + c
        /\ p + 8 \in Nat \ {0} /\ p + 8 + c \in Nat \ {0}
    BY <1>1, <1>2, <1>3, <1>13 DEF Smaller
  <2> HIDE DEF a, b, d, z
  <2>p. pc \in Nat \ {0} /\ pd \in Nat \ {0}
    BY <2>1
  <2>n. c \in Nat /\ k \in Nat /\ l \in Nat /\ n \in Nat
    BY <1>1, <1>2, <1>3
  <2> HIDE DEF pc, pd
  <2>2. /\ A \in Seq(Cell)
        /\ Len(A) = IF pc <= b THEN b - pc + 1 ELSE 0
        /\ \A i \in 1 .. b - pc + 1 : A[i] = v[pc + i - 1]
    <3>1. b \in Int /\ b <= Len(v)
      BY <1>5, <2>1
    <3> QED
      BY <1>5, <3>1, <2>p, PartLemma
  <2>3. /\ AA \in Seq(Cell)
        /\ Len(AA) = IF 1 <= a THEN a - 1 + 1 ELSE 0
        /\ \A i \in 1 .. a - 1 + 1 : AA[i] = content[1 + i - 1]
    <3>1. a \in Int /\ a <= Len(content) /\ 1 \in Nat \ {0}
      BY <2>1 DEF c
    <3> QED
      BY <1>2, <3>1, PartLemma
  <2>4. /\ D \in Seq(Cell)
        /\ Len(D) = IF pd <= d THEN d - pd + 1 ELSE 0
        /\ \A i \in 1 .. d - pd + 1 : D[i] = v[pd + i - 1]
    <3>1. d \in Int /\ d <= Len(v)
      BY <1>5, <2>1
    <3> QED
      BY <1>5, <3>1, <2>p, PartLemma
  <2> HIDE DEF A, AA, D
  <2>5. A = AA
    <3>1. Len(A) = a /\ Len(AA) = a
      BY <1>2, <2>1, <2>2, <2>3 DEF pc
    <3>2. \A i \in 1 .. a : A[i] = AA[i]
      <4> SUFFICES ASSUME NEW i \in 1 .. a PROVE A[i] = AA[i]
        OBVIOUS
      <4>1. /\ i \in 1 .. b - pc + 1 /\ i \in 1 .. a - 1 + 1 /\ 1 + i - 1 = i
            /\ pc + i - 1 = k + (8 + i) /\ 8 + i \in 1 .. n /\ i \in 1 .. c
        BY <1>1, <1>2, <1>3, <2>1 DEF pc
      <4>2. A[i] = v[k + (8 + i)] /\ AA[i] = content[i]
        BY <2>2, <2>3, <4>1
      <4> QED
        BY <1>1, <1>6, <4>1, <4>2
    <3> QED
      BY <2>2, <2>3, <3>1, <3>2, SeqEqual
  <2>6. D = Padding(z)
    <3>1. Len(D) = z
      <4>1. CASE z = 0
        <5>1. d < pd /\ d \in Int
          BY <2>1, <4>1 DEF pd
        <5> QED
          BY <2>4, <2>p, <4>1, <5>1
      <4>2. CASE z > 0
        <5>1. d = pd + z - 1 /\ z \in Nat
          BY <2>1, <2>n, <4>2 DEF pd
        <5>2. pd <= d /\ d - pd + 1 = z
          BY <2>p, <4>2, <5>1
        <5> QED
          BY <2>4, <5>2
      <4> QED
        BY <2>1, <4>1, <4>2
    <3>2. Padding(z) \in Seq(Cell) /\ Len(Padding(z)) = z
      BY <2>1, FillerLemma, PlainCells
    <3>3. \A i \in 1 .. z : D[i] = Padding(z)[i]
      <4> SUFFICES ASSUME NEW i \in 1 .. z PROVE D[i] = <<"pad">>
        BY DEF Padding
      <4>1. z > 0 /\ i \in Nat /\ i > 0 /\ i <= z
        BY <2>1
      <4>2. d = pd + z - 1
        BY <2>1, <4>1 DEF pd
      <4>3. i \in 1 .. d - pd + 1
        BY <2>p, <4>1, <4>2, <2>1
      <4>4. pd + i - 1 = k + (8 + c + i)
        BY <1>1, <1>2, <4>1 DEF pd
      <4>5. 8 + c + i \in 1 .. n /\ i \in 1 .. l
        <5>1. 8 + c + z <= n /\ z <= l /\ z \in Nat
          BY <2>1, <4>1
        <5> QED
          BY <2>n, <4>1, <5>1
      <4>6. D[i] = v[k + (8 + c + i)]
        BY <2>4, <4>3, <4>4
      <4> QED
        BY <1>1, <1>6, <4>5, <4>6
    <3> QED
      BY <2>4, <3>1, <3>2, <3>3, SeqEqual
  <2>7. RecordAt(v, p) = [type |-> t, id |-> id, clen |-> c, content |-> A, padding |-> D]
    <3> HIDE DEF p
    <3> QED
      BY <1>5, <1>8, <1>11 DEF RecordAt, FCGI_HEADER_LEN, A, D, b, d, pc, pd
  <2>8. PartOf(t, id, content, n) = [type |-> t, id |-> id, clen |-> c, content |-> AA,
                                     padding |-> Padding(z)]
    BY DEF PartOf, c, AA, a, z
  <2> QED
    BY <2>5, <2>6, <2>7, <2>8
<1> QED
  BY <1>1, <1>5, <1>9, <1>10, <1>11, <1>12, <1>13 DEF v, x, k, r

(***************************************************************************)
(* The first n cells of a record, put behind whole records: nothing is     *)
(* decoded before its header is complete, then the record with as much of  *)
(* its content as there is, and after all of it the records are whole      *)
(* again.                                                                  *)
(***************************************************************************)
LEMMA WireLemma ==
    ASSUME NEW w \in Seq(Cell), Whole(w), NEW t, NEW id, NEW content, NEW l,
           Framed(t, id, content, l),
           NEW n \in 0 .. Len(Rec(t, id, content, l))
    PROVE  LET v == w \o SubSeq(Rec(t, id, content, l), 1, n)
           IN  /\ v \in Seq(Cell) /\ Len(v) = Len(w) + n
               /\ Records(v) = Records(w) \o (IF n < 8 THEN <<>>
                                              ELSE <<PartOf(t, id, content, n)>>)
               /\ InSync(v)
               /\ n = Len(Rec(t, id, content, l)) => Whole(v)
<1> DEFINE r == Rec(t, id, content, l)
           x == SubSeq(r, 1, n)
           v == w \o x
           k == Len(w)
           p == k + 1
           new == IF n < 8 THEN <<>> ELSE <<PartOf(t, id, content, n)>>
<1>1. /\ r \in Seq(Cell) /\ Len(r) \in Nat /\ Len(r) >= 8 /\ n \in Nat /\ n <= Len(r)
      /\ k \in Nat
  <2>1. /\ r \in Seq(Cell) /\ Len(r) = 8 + Len(content) + l
        /\ Len(content) \in Nat /\ l \in Nat
    BY RecordCells DEF RecordShape
  <2> HIDE DEF r
  <2> QED
    BY <2>1, LenProperties DEF r
<1>2. x \in Seq(Cell) /\ Len(x) = n
  <2> HIDE DEF r
  <2>1. /\ x \in Seq(Cell)
        /\ Len(x) = IF 1 <= n THEN n - 1 + 1 ELSE 0
    BY <1>1, PartLemma
  <2> HIDE DEF x
  <2> QED
    BY <1>1, <2>1
<1>3. v \in Seq(Cell) /\ Len(v) = k + n
  BY <1>2, ConcatProperties
<1>4. n > 0 => /\ p \in 1 .. Len(v)
               /\ HeaderFrom(v, p) /\ (HeaderArrived(v, p) <=> n >= 8)
               /\ RecordLen(v, p) = Len(r)
               /\ n >= 8 => RecordAt(v, p) = PartOf(t, id, content, n)
  <2>1. n > 0 => n \in 1 .. Len(r)
    BY <1>1
  <2> QED
    BY <2>1, AtTheEnd
<1> HIDE DEF r, x
<1>5. PICK B : Boundaries(w, B)
  BY DEF Whole
<1>6. PICK f : Decodes(w, f) /\ Records(w) = f[1]
  BY RecordsDecode
<1>7. PICK g : Decodes(v, g) /\ Records(v) = g[1]
  <2> HIDE DEF v
  <2> QED
    BY <1>3, RecordsDecode
<1>8. PICK h : Syncs(v, h) /\ InSync(v) = h[1]
  <2> HIDE DEF v
  <2> QED
    BY <1>3, SyncDecode
<1>9. p \in 1 .. Len(v) + 1 /\ (n = 0 => p = Len(v) + 1) /\ (n > 0 => p # Len(v) + 1)
  BY <1>1, <1>3
<1>10. n >= 8 => p + RecordLen(v, p) > Len(v)
  BY <1>1, <1>3, <1>4
<1>11. g[p] = new
  <2> HIDE DEF v, p
  <2>1. CASE n < 8
    <3>1. ~ Starts(v, p)
      BY <1>1, <1>4, <1>9, <2>1 DEF Starts
    <3> QED
      BY <1>7, <1>9, <2>1, <3>1 DEF Decodes
  <2>2. CASE n >= 8
    <3>1. Starts(v, p)
      BY <1>1, <1>4, <1>9, <2>2 DEF Starts
    <3>2. g[p] = <<RecordAt(v, p)>>
      BY <1>7, <1>9, <1>10, <2>2, <3>1 DEF Decodes
    <3>3. n > 0 /\ ~ (n < 8)
      BY <1>1, <2>2
    <3> QED
      BY <1>4, <2>2, <3>2, <3>3
  <2> QED
    BY <1>1, <2>1, <2>2
<1>12. h[p]
  <2> HIDE DEF v, p
  <2>1. h[p] = \/ p = Len(v) + 1
               \/ /\ HeaderFrom(v, p)
                  /\ \/ ~ HeaderArrived(v, p)
                     \/ p + RecordLen(v, p) > Len(v)
                     \/ h[p + RecordLen(v, p)]
    BY <1>8, <1>9 DEF Syncs
  <2>2. CASE n = 0
    BY <1>9, <2>1, <2>2
  <2>3. CASE n > 0
    BY <1>4, <1>10, <2>1, <2>3
  <2> QED
    BY <1>1, <2>2, <2>3
<1>13. Records(v) = Records(w) \o new
  <2>1. g[1] = f[1] \o g[Len(w) + 1]
    <3>1. x \in Seq(Cell) /\ Boundaries(w, B) /\ Decodes(w, f) /\ Decodes(w \o x, g)
      BY <1>2, <1>5, <1>6, <1>7
    <3>2. GoesOn(f, g, Len(w) + 1)
      BY <3>1, AppendDecode
    <3> QED
      BY <3>2 DEF GoesOn
  <2> HIDE DEF new, v
  <2> QED
    BY <1>6, <1>7, <1>11, <2>1
<1>14. InSync(v)
  BY <1>2, <1>5, <1>8, <1>12, AppendSync
<1>15. ASSUME n = Len(r)
       PROVE  Boundaries(v, B \cup {Len(v) + 1})
  <2> DEFINE D == B \cup {Len(v) + 1}
  <2>1. B \subseteq 1 .. k + 1 /\ 1 \in B
    BY <1>5 DEF Boundaries
  <2>2. D \subseteq 1 .. Len(v) + 1 /\ 1 \in D
    <3> HIDE DEF v, k
    <3> QED
      BY <1>1, <1>3, <2>1
  <2>3. ASSUME NEW q \in D, q # Len(v) + 1
        PROVE  HeaderArrived(v, q) /\ HeaderFrom(v, q) /\ q + RecordLen(v, q) \in D
    <3>1. CASE q = p
      <4>1. n > 0 /\ n >= 8 /\ q + RecordLen(v, q) = Len(v) + 1
        BY <1>1, <1>3, <1>4, <1>15, <3>1
      <4> QED
        BY <1>4, <3>1, <4>1
    <3>2. CASE q # p
      <4>1. q \in B /\ q # Len(w) + 1
        BY <2>3, <3>2
      <4>2. /\ HeaderArrived(w, q) /\ HeaderFrom(w, q) /\ q \in 1 .. Len(w)
            /\ q + RecordLen(w, q) \in B
        BY <1>5, <4>1, BoundaryStep
      <4>3. HeaderArrived(v, q) /\ HeaderFrom(v, q) /\ RecordLen(v, q) = RecordLen(w, q)
        BY <1>2, <4>2, SameRecord
      <4> QED
        BY <4>2, <4>3
    <3> QED
      BY <3>1, <3>2
  <2> HIDE DEF v, D
  <2> QED
    BY <2>2, <2>3 DEF Boundaries, D
<1>16. n = Len(r) => Whole(v)
  BY <1>15 DEF Whole
<1> QED
  BY <1>3, <1>13, <1>14, <1>16 DEF r, x, v, k

(***************************************************************************)
(* Writing.  WriteItAll takes the bytes of several writes as it takes them *)
(* in one, if a connection that failed once takes nothing more.            *)
(***************************************************************************)

\* What WriteItAll does, field by field.
LEMMA WriteFields ==
    ASSUME NEW n \in NetType, NEW x \in Seq(Cell), ~ Transient
    PROVE  LET r == WriteItAll(n, x)
               m == Smaller(n.room, Len(x))
           IN  /\ r \in NetType /\ r.open = n.open /\ m \in 0 .. Len(x)
               /\ r.room = n.room - m
               /\ r.wire = n.wire \o SubSeq(x, 1, m)
               /\ m = Len(x) => r.wire = n.wire \o x
<1> DEFINE k == Len(x)
           m == Smaller(n.room, k)
           part == SubSeq(x, 1, m)
           r == WriteItAll(n, x)
<1>1. k \in Nat /\ n.room \in Nat /\ n.wire \in Seq(Cell)
  BY LenProperties DEF NetType
<1>2. SubSeq(x, 1, k) = x
  BY SubSeqFull
<1> HIDE DEF k
<1>3. m \in 0 .. k /\ n.room - m \in Nat
  BY <1>1 DEF Smaller
<1>4. part \in Seq(Cell)
  <2> HIDE DEF m
  <2>1. m \in Int /\ m <= Len(x)
    BY <1>1, <1>3 DEF k
  <2> QED
    BY <2>1, PartLemma
<1>5. n.wire \o part \in Seq(Cell)
  BY <1>1, <1>4, ConcatLemma
<1>6. r = [n EXCEPT !.wire = n.wire \o part, !.room = n.room - m]
  <2>1. CASE k <= n.room
    <3>1. m = k
      BY <1>1, <2>1 DEF Smaller
    <3> HIDE DEF m
    <3>2. part = x
      BY <1>2, <3>1
    <3> HIDE DEF part
    <3> QED
      BY <2>1, <3>1, <3>2 DEF WriteItAll, k
  <2>2. CASE ~ (k <= n.room)
    <3>1. m = n.room /\ n.room - m = 0
      BY <1>1, <2>2 DEF Smaller
    <3> HIDE DEF m
    <3> QED
      BY <2>2, <3>1 DEF WriteItAll, k
  <2> QED
    BY <2>1, <2>2
<1>7. m = k => part = x
  BY <1>2
<1> HIDE DEF r, m, part
<1>8. /\ r \in NetType /\ r.open = n.open /\ r.room = n.room - m
      /\ r.wire = n.wire \o part
  BY <1>3, <1>5, <1>6 DEF NetType
<1> QED
  BY <1>3, <1>7, <1>8 DEF r, m, part, k

\* Two connections are the same if they agree in every field.
LEMMA NetEqual ==
    ASSUME NEW a \in NetType, NEW b \in NetType,
           a.wire = b.wire, a.room = b.room, a.open = b.open
    PROVE  a = b
BY DEF NetType

\* Nothing more is taken where there is no room, or nothing to write.
LEMMA WriteNothing ==
    ASSUME NEW n \in NetType, NEW x \in Seq(Cell), ~ Transient,
           n.room = 0 \/ x = <<>>
    PROVE  WriteItAll(n, x) = n
<1> DEFINE r == WriteItAll(n, x)
           m == Smaller(n.room, Len(x))
<1>1. /\ r \in NetType /\ r.open = n.open /\ r.room = n.room - m
      /\ r.wire = n.wire \o SubSeq(x, 1, m)
  BY WriteFields
<1>2. m = 0 /\ n.room - 0 = n.room
  <2>1. Len(x) \in Nat /\ n.room \in Nat
    BY LenProperties DEF NetType
  <2>2. x = <<>> => Len(x) = 0
    BY EmptySeq
  <2> QED
    BY <2>1, <2>2 DEF Smaller
<1>3. SubSeq(x, 1, 0) = <<>>
  BY SubSeqEmpty
<1>4. n.wire \o <<>> = n.wire
  BY ConcatEmptySeq DEF NetType
<1> HIDE DEF r, m
<1>5. r.wire = n.wire /\ r.room = n.room
  BY <1>1, <1>2, <1>3, <1>4
<1>6. r = n
  BY <1>1, <1>5, NetEqual
<1> QED
  BY <1>6 DEF r

\* Writing x and then y is writing x \o y.
LEMMA WriteTwice ==
    ASSUME NEW n \in NetType, NEW x \in Seq(Cell), NEW y \in Seq(Cell), ~ Transient
    PROVE  WriteItAll(WriteItAll(n, x), y) = WriteItAll(n, x \o y)
<1> DEFINE a == WriteItAll(n, x)
           b == WriteItAll(a, y)
           z == x \o y
           c == WriteItAll(n, z)
           k == Len(x)
           l == Len(y)
           i == Smaller(n.room, k)
           j == Smaller(a.room, l)
           h == Smaller(n.room, Len(z))
<1>1. /\ k \in Nat /\ l \in Nat /\ z \in Seq(Cell) /\ Len(z) = k + l
      /\ n.room \in Nat /\ n.wire \in Seq(Cell)
  BY LenProperties, ConcatLemma DEF NetType
<1>2. /\ a \in NetType /\ a.open = n.open /\ a.room = n.room - i
      /\ a.wire = n.wire \o SubSeq(x, 1, i) /\ (i = k => a.wire = n.wire \o x)
      /\ i \in 0 .. k
  BY WriteFields
<1> HIDE DEF a
<1>3. /\ b \in NetType /\ b.open = a.open /\ b.room = a.room - j
      /\ b.wire = a.wire \o SubSeq(y, 1, j)
  BY <1>2, WriteFields
<1> HIDE DEF z
<1>4. /\ c \in NetType /\ c.open = n.open /\ c.room = n.room - h
      /\ c.wire = n.wire \o SubSeq(z, 1, h)
  BY <1>1, WriteFields
<1> HIDE DEF b, c, k, l
<1>5. CASE n.room < k
  <2>1. i = n.room /\ j = 0 /\ h = n.room /\ a.room = 0 /\ n.room <= k
    BY <1>1, <1>2, <1>5 DEF Smaller
  <2> HIDE DEF i, j, h
  <2>2. SubSeq(z, 1, n.room) = SubSeq(x, 1, n.room)
    <3>1. n.room \in Int /\ n.room <= Len(x) /\ 1 \in Nat \ {0}
      BY <1>1, <2>1 DEF k
    <3> QED
      BY <3>1, PartOfConcat DEF z
  <2>3. b = a
    <3>1. a.room = 0 \/ y = <<>>
      BY <2>1
    <3> QED
      BY <1>2, <3>1, WriteNothing DEF b
  <2>4. c.wire = a.wire /\ c.room = a.room /\ c.open = a.open
    BY <1>1, <1>2, <1>4, <2>1, <2>2
  <2>5. c = a
    BY <1>2, <1>4, <2>4, NetEqual
  <2> QED
    BY <2>3, <2>5 DEF a, b, c, z
<1>6. CASE n.room >= k
  <2>1. i = k /\ a.room = n.room - k /\ h = k + j /\ j \in 0 .. l /\ j \in Nat
    <3>1. i = k
      BY <1>1, <1>6 DEF Smaller
    <3>2. a.room = n.room - k
      BY <1>2, <3>1
    <3>3. j = Smaller(n.room - k, l) /\ h = Smaller(n.room, k + l)
      BY <1>1, <3>2
    <3> DEFINE q == n.room
    <3>4. q \in Nat
      BY <1>1
    <3> HIDE DEF q
    <3>5. /\ Smaller(q - k, l) \in 0 .. l /\ Smaller(q - k, l) \in Nat
          /\ Smaller(q, k + l) = k + Smaller(q - k, l)
      BY <1>1, <1>6, <3>4 DEF Smaller, q
    <3> QED
      BY <3>1, <3>2, <3>3, <3>5 DEF q
  <2> HIDE DEF i, j, h
  <2> DEFINE yj == SubSeq(y, 1, j)
  <2>2. yj \in Seq(Cell)
    <3>1. j \in Int /\ j <= Len(y)
      BY <1>1, <2>1 DEF l
    <3> QED
      BY <3>1, PartLemma
  <2>3. SubSeq(z, 1, h) = x \o yj
    <3>1. z = x \o y
      BY DEF z
    <3> DEFINE zj == SubSeq(z, 1, h)
               xy == x \o yj
    <3>2. /\ zj \in Seq(Cell)
          /\ Len(zj) = IF 1 <= h THEN h - 1 + 1 ELSE 0
          /\ \A q \in 1 .. h - 1 + 1 : zj[q] = z[1 + q - 1]
      <4> HIDE DEF z
      <4>1. h \in Int /\ h <= Len(z) /\ 1 \in Nat \ {0}
        BY <1>1, <2>1
      <4> QED
        BY <1>1, <4>1, PartLemma
    <3>3. /\ Len(yj) = IF 1 <= j THEN j - 1 + 1 ELSE 0
          /\ \A q \in 1 .. j - 1 + 1 : yj[q] = y[1 + q - 1]
      <4>1. j \in Int /\ j <= Len(y) /\ 1 \in Nat \ {0}
        BY <1>1, <2>1 DEF l
      <4> QED
        BY <4>1, PartLemma
    <3> HIDE DEF yj, zj
    <3>4. /\ xy \in Seq(Cell) /\ Len(xy) = Len(x) + Len(yj)
          /\ \A q \in 1 .. Len(x) + Len(yj) :
                xy[q] = IF q <= Len(x) THEN x[q] ELSE yj[q - Len(x)]
      BY <2>2, ConcatProperties
    <3>5. \A q \in 1 .. Len(x) + Len(y) :
                z[q] = IF q <= Len(x) THEN x[q] ELSE y[q - Len(x)]
      BY <3>1, ConcatProperties
    <3> HIDE DEF xy
    <3>6. Len(yj) = j /\ Len(zj) = k + j /\ Len(xy) = k + j
      BY <1>1, <2>1, <3>2, <3>3, <3>4 DEF k
    <3>7. \A q \in 1 .. k + j : zj[q] = xy[q]
      <4> SUFFICES ASSUME NEW q \in 1 .. k + j PROVE zj[q] = xy[q]
        OBVIOUS
      <4>1. /\ q \in 1 .. h - 1 + 1 /\ 1 + q - 1 = q /\ q \in 1 .. k + l
            /\ (~ (q <= k) => q - k \in 1 .. j - 1 + 1 /\ 1 + (q - k) - 1 = q - k)
        BY <1>1, <2>1
      <4>2. zj[q] = IF q <= k THEN x[q] ELSE y[q - k]
        BY <3>2, <3>5, <4>1 DEF k, l
      <4>3. xy[q] = IF q <= k THEN x[q] ELSE yj[q - k]
        BY <3>4, <3>6, <4>1 DEF k
      <4> QED
        BY <3>3, <4>1, <4>2, <4>3
    <3>8. zj = xy
      BY <3>2, <3>4, <3>6, <3>7, SeqEqual
    <3> QED
      BY <3>8 DEF zj, xy, yj
  <2> HIDE DEF yj
  <2>4. (n.wire \o x) \o yj = n.wire \o (x \o yj)
    <3>1. \A p, q, r \in Seq(Cell) : (p \o q) \o r = p \o (q \o r)
      BY ConcatAssociative
    <3> QED
      BY <1>1, <2>2, <3>1, Zenon
  <2>5. b.wire = c.wire
    BY <1>2, <1>3, <1>4, <2>1, <2>3, <2>4 DEF yj
  <2>6. b.room = c.room /\ b.open = c.open
    BY <1>1, <1>2, <1>3, <1>4, <2>1
  <2>7. b = c
    BY <1>3, <1>4, <2>5, <2>6, NetEqual
  <2> QED
    BY <2>7 DEF a, b, c, z
<1> QED
  BY <1>1, <1>5, <1>6

\* A connection that carries well-formed records, of which the last may be cut
\* short, but then nothing more can be sent.
NetOK(n) == n \in NetType /\ InSync(n.wire) /\ (Whole(n.wire) \/ n.room = 0)

\* Connection n2 is n after the record was written, and rs2 is what rs, the
\* records of n, have become.
Fed(n, rs, n2, rs2, t, id, content, l) ==
    /\ NetOK(n2) /\ rs2 = Records(n2.wire) /\ n2.open = n.open /\ n2.room <= n.room
    /\ n.room = 0 => n2 = n /\ rs2 = rs
    /\ \/ rs2 = rs
       \/ \E m \in 8 .. Len(Rec(t, id, content, l)) :
              rs2 = rs \o <<PartOf(t, id, content, m)>> /\ n.room > 0
    /\ n2.room > 0 \/ Len(Rec(t, id, content, l)) <= n.room
         => rs2 = rs \o <<PartOf(t, id, content, Len(Rec(t, id, content, l)))>> /\ n.room > 0

\* Writing a record.
LEMMA FeedLemma ==
    ASSUME NEW n, NetOK(n), NEW t, NEW id, NEW content, NEW l,
           Framed(t, id, content, l), ~ Transient
    PROVE  Fed(n, Records(n.wire), WriteItAll(n, Rec(t, id, content, l)),
               Records(WriteItAll(n, Rec(t, id, content, l)).wire), t, id, content, l)
<1> DEFINE r == Rec(t, id, content, l)
           n2 == WriteItAll(n, r)
           m == Smaller(n.room, Len(r))
           rs == Records(n.wire)
           rs2 == Records(n2.wire)
           part == PartOf(t, id, content, m)
           full == PartOf(t, id, content, Len(r))
<1>1. r \in Seq(Cell) /\ Len(r) \in Nat /\ Len(r) >= 8
  <2>1. /\ r \in Seq(Cell) /\ Len(r) = 8 + Len(content) + l
        /\ Len(content) \in Nat /\ l \in Nat
    BY RecordCells DEF RecordShape
  <2> HIDE DEF r
  <2> QED
    BY <2>1
<1>2. n \in NetType /\ n.room \in Nat /\ n.wire \in Seq(Cell)
  BY DEF NetOK, NetType
<1> HIDE DEF r
<1>3. /\ n2 \in NetType /\ n2.open = n.open /\ m \in 0 .. Len(r)
      /\ n2.room = n.room - m /\ n2.wire = n.wire \o SubSeq(r, 1, m)
  BY <1>1, <1>2, WriteFields
<1> HIDE DEF n2
<1>4. /\ n2.room \in Nat /\ n2.room <= n.room /\ m \in Nat
      /\ (n2.room > 0 \/ Len(r) <= n.room => m = Len(r) /\ n.room > 0)
      /\ (m = Len(r) \/ n2.room = 0)
      /\ (m > 0 => n.room > 0)
  BY <1>1, <1>2, <1>3 DEF Smaller
<1>5. CASE n.room = 0
  <2>1. n2 = n
    BY <1>1, <1>2, <1>5, WriteNothing DEF n2
  <2>2. ~ (n2.room > 0 \/ Len(r) <= n.room)
    BY <1>1, <1>5, <2>1
  <2> HIDE DEF m
  <2>3. rs2 = rs
    BY <2>1
  <2> HIDE DEF rs, rs2
  <2> QED
    BY <1>4, <2>1, <2>2, <2>3, NetOK(n) DEF Fed, r, n2, rs, rs2
<1>6. CASE n.room # 0
  <2>1. Whole(n.wire)
    BY <1>6 DEF NetOK
  <2>2. /\ rs2 = rs \o (IF m < 8 THEN <<>> ELSE <<part>>)
        /\ InSync(n2.wire) /\ (m = Len(r) => Whole(n2.wire))
    <3> HIDE DEF m
    <3> QED
      BY <1>2, <1>3, <2>1, WireLemma DEF r
  <2>3. NetOK(n2)
    BY <1>3, <1>4, <2>2 DEF NetOK
  <2>4. rs \o <<>> = rs
    <3>1. rs \in Seq(RecordType)
      <4>1. PICK f : Decodes(n.wire, f) /\ rs = f[1]
        BY <1>2, RecordsDecode
      <4>2. 1 \in 1 .. Len(n.wire) + 1
        BY <1>2, LenProperties
      <4> QED
        BY <1>2, <4>1, <4>2, DecodesTyped
    <3> QED
      BY <3>1, ConcatEmptySeq
  <2> HIDE DEF m, rs, rs2, part, full
  <2>5. rs2 = rs \/ (m \in 8 .. Len(r) /\ rs2 = rs \o <<part>> /\ n.room > 0)
    <3>1. CASE m < 8
      BY <2>2, <2>4, <3>1
    <3>2. CASE ~ (m < 8)
      BY <1>2, <1>3, <1>4, <1>6, <2>2, <3>2
    <3> QED
      BY <3>1, <3>2
  <2>6. n2.room > 0 \/ Len(r) <= n.room => rs2 = rs \o <<full>> /\ n.room > 0
    <3> SUFFICES ASSUME n2.room > 0 \/ Len(r) <= n.room
                 PROVE  rs2 = rs \o <<full>> /\ n.room > 0
      OBVIOUS
    <3>1. m = Len(r) /\ n.room > 0 /\ ~ (m < 8)
      BY <1>1, <1>4
    <3>2. part = full
      BY <3>1 DEF part, full
    <3> QED
      BY <2>2, <3>1, <3>2
  <2>7. rs2 = rs \/ \E i \in 8 .. Len(r) : rs2 = rs \o <<PartOf(t, id, content, i)>> /\ n.room > 0
    BY <2>5 DEF part
  <2> QED
    BY <1>3, <1>4, <1>6, <2>3, <2>6, <2>7 DEF Fed, full, rs, rs2, r, n2
<1> QED
  BY <1>5, <1>6

(***************************************************************************)
(* What the stream operations write: one record for a flush, up to three   *)
(* for FCGX_FClose, no matter when the buffer is emptied in between.       *)
(***************************************************************************)

BufferedOf(st) ==
    IF st.rawWrite THEN <<>> ELSE SubSeq(st.buff, FCGI_HEADER_LEN + 1, Len(st.buff))

\* The padding of a record with content x.
Pad(x) == AlignInt8(Len(x)) - Len(x)

ContentRecord(w) ==
    IF BufferedOf(w.st) = <<>> THEN <<>>
    ELSE Rec(w.st.type, w.req.requestId, BufferedOf(w.st), Pad(BufferedOf(w.st)))

EofRecord(w) ==
    IF w.st.type = "err" /\ ContentRecord(w) = <<>> /\ ~ w.st.isAnythingWritten THEN <<>>
    ELSE Rec(w.st.type, w.req.requestId, <<>>, 0)

EndBody(w) == MakeEndRequestBody(w.req.requestId, w.req.appStatus)

EndRecord(w) ==
    IF w.req.nWriters = 1 THEN Rec("end", w.req.requestId, EndBody(w), 0) ELSE <<>>

\* The fields of a stream that Encapsulate leaves alone.
SameButBuff(a, b) ==
    /\ a.type = b.type /\ a.stop = b.stop /\ (a.isClosed <=> b.isClosed)
    /\ a.wasFCloseCalled = b.wasFCloseCalled /\ a.FCGI_errno = b.FCGI_errno
    /\ (a.isAnythingWritten <=> b.isAnythingWritten)

\* Encapsulate puts the record of the buffered content into the buffer.
LEMMA EncapsulateIs ==
    ASSUME NEW w \in Worlds(Cell), Collecting(w.st)
    PROVE  LET e == Encapsulate(w)
           IN  /\ e.st.buff = ContentRecord(w) /\ e.net = w.net /\ e.req = w.req
               /\ ~ e.st.rawWrite /\ SameButBuff(e.st, w.st)
               /\ BufferedOf(w.st) \in Seq(Cell) /\ ContentRecord(w) \in Seq(Cell)
               /\ BufferedOf(w.st) # <<>> =>
                    Framed(w.st.type, w.req.requestId, BufferedOf(w.st), Pad(BufferedOf(w.st)))
<1> DEFINE b == w.st.buff
           n == Len(b)
           x == SubSeq(b, 9, n)
           c == n - 8
           l == AlignInt8(c) - c
           Rd == MakeHeader(w.st.type, w.req.requestId, c, l) \o x \o Padding(l)
           new == IF c > 0 THEN Rd ELSE <<>>
           e == [w EXCEPT !.st.buff = new]
<1>1. /\ b \in Seq(Cell) /\ n \in Nat /\ n >= 8 /\ w.st.type \in Streams
      /\ w.req.requestId \in Nat /\ n <= BuffLen[w.st.type]
      /\ BuffLen[w.st.type] <= FCGI_MAX_LENGTH + 1 /\ BuffLen[w.st.type] \in Nat
      /\ FCGI_MAX_LENGTH \in Nat
  BY LenProperties, BuffLenLemma DEF Worlds, StreamOver, RequestType, Collecting, FCGI_HEADER_LEN
<1>2. BufferedOf(w.st) = x
  BY DEF BufferedOf, Collecting, FCGI_HEADER_LEN
<1>3. Encapsulate(w) = e
  BY DEF Encapsulate, Collecting, FCGI_HEADER_LEN
<1> HIDE DEF n
<1>4. x \in Seq(Cell) /\ Len(x) = c /\ (x = <<>> <=> c = 0) /\ c \in Nat
  <2>1. x \in Seq(Cell) /\ Len(x) = IF 9 <= n THEN n - 9 + 1 ELSE 0
    <3>1. n \in Int /\ n <= Len(b) /\ 9 \in Nat \ {0}
      BY <1>1 DEF n
    <3> HIDE DEF b
    <3> QED
      BY <1>1, <3>1, PartLemma
  <2> HIDE DEF x
  <2>2. Len(x) = c /\ c \in Nat
    BY <1>1, <2>1
  <2> QED
    BY <2>1, <2>2, EmptySeq
<1> HIDE DEF x, b
<1>5. l \in 0 .. 255
  <2> HIDE DEF c
  <2> DEFINE a == AlignInt8(c)
  <2>1. a \in Nat /\ c <= a /\ a <= c + 7 /\ c \in Nat
    BY <1>4, AlignLemma
  <2> HIDE DEF a
  <2>2. a - c \in 0 .. 255
    BY <2>1
  <2> QED
    BY <2>2 DEF a
<1>6. c \in 0 .. FCGI_MAX_LENGTH
  BY <1>1, <1>4
<1>7. Pad(x) = l /\ Rec(w.st.type, w.req.requestId, x, Pad(x)) = Rd
  BY <1>4 DEF Pad, Rec
<1>8. Framed(w.st.type, w.req.requestId, x, Pad(x))
  BY <1>1, <1>4, <1>5, <1>6, <1>7 DEF Framed
<1>9. Rd \in Seq(Cell)
  <2>1. Rec(w.st.type, w.req.requestId, x, Pad(x)) \in Seq(Cell)
    BY <1>8, RecordCells DEF RecordShape
  <2> HIDE DEF Rd
  <2> QED
    BY <1>7, <2>1
<1> HIDE DEF Rd, l
<1>10. ContentRecord(w) = new
  <2>1. x = <<>> <=> ~ (c > 0)
    BY <1>4
  <2> HIDE DEF c
  <2> QED
    BY <1>2, <1>7, <2>1 DEF ContentRecord
<1>11. new \in Seq(Cell)
  BY <1>9, EmptySeq
<1> HIDE DEF new
<1>12. /\ e.st.buff = new /\ e.net = w.net /\ e.req = w.req
       /\ ~ e.st.rawWrite /\ SameButBuff(e.st, w.st)
  BY <1>11 DEF Worlds, StreamOver, Collecting, SameButBuff
<1> QED
  BY <1>2, <1>3, <1>4, <1>8, <1>10, <1>11, <1>12

\* What EmptyBuffProc's last part does, field by field.
LEMMA WriteBuffFields ==
    ASSUME NEW w \in Worlds(Cell), ~ Transient
    PROVE  LET r == WriteBuff(w)
           IN  /\ r.net = WriteItAll(w.net, w.st.buff) /\ r.req = w.req
               /\ r.st.isAnythingWritten <=> w.st.isAnythingWritten \/ w.st.buff # <<>>
               /\ Len(w.st.buff) <= w.net.room =>
                     /\ r.st.FCGI_errno = w.st.FCGI_errno
                     /\ r.st.isClosed <=> w.st.isClosed
                     /\ r.st.buff = IF w.st.rawWrite THEN <<>> ELSE HeaderSlot
               /\ ~ (Len(w.st.buff) <= w.net.room) =>
                     /\ r.st.FCGI_errno # 0 /\ r.st.isClosed
                     /\ r.st.buff = w.st.buff
<1> DEFINE b == w.st.buff
           net1 == IF b = <<>> THEN w.net ELSE WriteItAll(w.net, b)
           st1 == [w.st EXCEPT !.isAnythingWritten = @ \/ b # <<>>]
           st2 == [st1 EXCEPT !.buff = IF st1.rawWrite THEN <<>> ELSE HeaderSlot]
           st3 == SetError(st1, OS_Errno)
           st4 == IF Len(b) <= w.net.room THEN st2 ELSE st3
           r == [w EXCEPT !.net = net1, !.st = st4]
<1>1. b \in Seq(Cell) /\ w.net \in NetType /\ w.st \in StreamOver(Cell)
  BY DEF Worlds, StreamOver, NetType, NetOver
<1>2. WriteBuff(w) = r
  BY DEF WriteBuff, Worlds
<1>3. net1 = WriteItAll(w.net, b)
  BY <1>1, WriteNothing
<1>4. /\ st4.isAnythingWritten <=> w.st.isAnythingWritten \/ b # <<>>
      /\ Len(b) <= w.net.room =>
           /\ st4.FCGI_errno = w.st.FCGI_errno /\ (st4.isClosed <=> w.st.isClosed)
           /\ st4.buff = IF w.st.rawWrite THEN <<>> ELSE HeaderSlot
      /\ ~ (Len(b) <= w.net.room) =>
           st4.FCGI_errno # 0 /\ st4.isClosed /\ st4.buff = b
  <2>1. /\ st1.rawWrite = w.st.rawWrite /\ st1.buff = b
        /\ (st1.isAnythingWritten <=> w.st.isAnythingWritten \/ b # <<>>)
        /\ st1.FCGI_errno = w.st.FCGI_errno /\ (st1.isClosed <=> w.st.isClosed)
        /\ st1 \in StreamOver(Cell)
    BY <1>1 DEF StreamOver
  <2> HIDE DEF st1
  <2>2. /\ (st2.isAnythingWritten <=> st1.isAnythingWritten)
        /\ st2.FCGI_errno = st1.FCGI_errno /\ (st2.isClosed <=> st1.isClosed)
        /\ st2.buff = IF st1.rawWrite THEN <<>> ELSE HeaderSlot
    BY <2>1 DEF StreamOver
  <2>3. /\ (st3.isAnythingWritten <=> st1.isAnythingWritten)
        /\ st3.FCGI_errno # 0 /\ st3.isClosed /\ st3.buff = st1.buff
    BY <2>1 DEF StreamOver, SetError, OS_Errno
  <2> HIDE DEF st2, st3
  <2>4. CASE Len(b) <= w.net.room
    BY <2>1, <2>2, <2>4
  <2>5. CASE ~ (Len(b) <= w.net.room)
    BY <2>1, <2>3, <2>5
  <2> QED
    BY <2>4, <2>5
<1> HIDE DEF net1, st4
<1>5. r.net = net1 /\ r.st = st4 /\ r.req = w.req
  BY DEF Worlds
<1> QED
  BY <1>2, <1>3, <1>4, <1>5

(***************************************************************************)
(* v is what has become of w after x was written to its stream in rawWrite *)
(* mode: sending what is still buffered gives what sending x in one piece  *)
(* would have, and if the stream was all right it is so exactly as long as *)
(* nothing was cut.                                                        *)
(***************************************************************************)
Clean(st) == ~ st.isClosed /\ st.FCGI_errno = 0

Pending(v, w, x) ==
    /\ WriteItAll(v.net, v.st.buff) = WriteItAll(w.net, x)
    /\ v.st.isClosed => v.net.room = 0
    /\ w.st.FCGI_errno # 0 => v.st.FCGI_errno # 0
    /\ Clean(w.st) => \/ /\ Clean(v.st)
                         /\ v.net.room = w.net.room - (Len(x) - Len(v.st.buff))
                      \/ v.st.isClosed /\ v.st.FCGI_errno # 0 /\ Len(x) > w.net.room

\* A record that is put while rawWrite is set is pending behind the others.
LEMMA PutPending ==
    ASSUME NEW w \in Worlds(Cell), NEW v \in Worlds(Cell), NEW x \in Seq(Cell),
           Pending(v, w, x), v.st.rawWrite, Len(v.st.buff) <= v.st.stop,
           NEW record \in Seq(Cell), ~ Transient
    PROVE  Pending(PutRecord(v, record), w, x \o record)
<1> DEFINE A(n, y) == WriteItAll(n, y)
           b == v.st.buff
           s == Space(v.st)
           y == SubSeq(record, 1, s)
           z == SubSeq(record, s + 1, Len(record))
           full == Put(v, y)
           e == WriteBuff(full)
           xr == x \o record
           r == PutRecord(v, record)
<1>1. /\ b \in Seq(Cell) /\ Len(b) \in Nat /\ Len(record) \in Nat /\ Len(x) \in Nat
      /\ v.st.stop \in Nat /\ v.net \in NetType /\ w.net \in NetType
      /\ v.net.room \in Nat /\ w.net.room \in Nat
      /\ w.st \in StreamOver(Cell) /\ v.st \in StreamOver(Cell)
  BY LenProperties DEF Worlds, StreamOver, NetType, NetOver
<1>2. s \in Nat
  BY <1>1 DEF Space
<1>3. xr \in Seq(Cell) /\ Len(xr) = Len(x) + Len(record)
  BY ConcatLemma
<1>4. /\ r = IF Len(record) <= s THEN Put(v, record)
             ELSE IF v.st.isClosed THEN full
             ELSE IF e.st.isClosed THEN e ELSE Put(e, z)
  BY DEF PutRecord
<1>5. A(w.net, xr) = A(A(w.net, x), record)
  BY <1>1, WriteTwice
<1>6. A(w.net, x) = A(v.net, b)
  BY DEF Pending
<1>7. A(w.net, x) \in NetType
  BY <1>1, WriteFields
<1>8. ASSUME NEW cells \in Seq(Cell)
      PROVE  /\ Put(v, cells) \in Worlds(Cell) /\ Put(v, cells).net = v.net
             /\ Put(v, cells).st.buff = b \o cells
             /\ SameButBuff(Put(v, cells).st, v.st) /\ Put(v, cells).st.rawWrite
             /\ b \o cells \in Seq(Cell) /\ Len(b \o cells) = Len(b) + Len(cells)
             /\ A(v.net, b \o cells) = A(A(w.net, x), cells)
  <2>1. b \o cells \in Seq(Cell) /\ Len(b \o cells) = Len(b) + Len(cells)
    BY <1>1, ConcatLemma
  <2>2. A(v.net, b \o cells) = A(A(v.net, b), cells)
    BY <1>1, WriteTwice
  <2>3. /\ Put(v, cells) \in Worlds(Cell) /\ Put(v, cells).net = v.net
        /\ Put(v, cells).st.buff = b \o cells
        /\ SameButBuff(Put(v, cells).st, v.st) /\ Put(v, cells).st.rawWrite
    BY <2>1 DEF Put, Worlds, StreamOver, SameButBuff
  <2> QED
    BY <1>6, <2>1, <2>2, <2>3
<1> HIDE DEF A, xr, s, b, r
<1>9. CASE Len(record) <= s
  <2> DEFINE p == Put(v, record)
  <2>1. r = p
    BY <1>4, <1>9
  <2>2. /\ p.net = v.net /\ p.st.buff = b \o record /\ SameButBuff(p.st, v.st)
        /\ Len(p.st.buff) = Len(b) + Len(record) /\ A(p.net, p.st.buff) = A(w.net, xr)
    BY <1>5, <1>8
  <2> HIDE DEF p
  <2>3. Clean(p.st) <=> Clean(v.st)
    BY <2>2 DEF SameButBuff, Clean
  <2>4. Clean(w.st) => \/ /\ Clean(p.st)
                          /\ p.net.room = w.net.room - (Len(xr) - Len(p.st.buff))
                       \/ p.st.isClosed /\ p.st.FCGI_errno # 0 /\ Len(xr) > w.net.room
    <3>1. ASSUME v.net.room = w.net.room - (Len(x) - Len(b))
          PROVE  p.net.room = w.net.room - (Len(xr) - Len(p.st.buff))
      BY <1>1, <1>3, <2>2, <3>1
    <3>2. ASSUME Len(x) > w.net.room PROVE Len(xr) > w.net.room
      BY <1>1, <1>3, <3>2
    <3> QED
      BY <2>2, <2>3, <3>1, <3>2 DEF Pending, SameButBuff, b
  <2> QED
    BY <2>1, <2>2, <2>4 DEF Pending, SameButBuff, A, r, xr
<1>10. CASE ~ (Len(record) <= s)
  <2>1. /\ y \in Seq(Cell) /\ z \in Seq(Cell) /\ Len(y) = s
        /\ Len(z) = Len(record) - s /\ y \o z = record
    <3>1. /\ 1 \in 1 .. Len(record) + 1 /\ s \in 1 - 1 .. Len(record)
          /\ s + 1 \in 1 .. Len(record) + 1 /\ Len(record) \in (s + 1) - 1 .. Len(record)
          /\ Len(record) \in s .. Len(record)
      BY <1>1, <1>2, <1>10
    <3>2. y \in Seq(Cell) /\ Len(y) = s - 1 + 1
      BY <3>1, SubSeqLemma
    <3>3. z \in Seq(Cell) /\ Len(z) = Len(record) - (s + 1) + 1
      BY <3>1, SubSeqLemma
    <3>4. y \o z = SubSeq(record, 1, Len(record))
      BY <3>1, ConcatAdjacentSubSeq
    <3>5. SubSeq(record, 1, Len(record)) = record
      BY SubSeqFull
    <3>6. s - 1 + 1 = s /\ Len(record) - (s + 1) + 1 = Len(record) - s
      BY <1>1, <1>2
    <3> QED
      BY <3>2, <3>3, <3>4, <3>5, <3>6
  <2> HIDE DEF y, z
  <2> DEFINE n0 == A(w.net, x)
             n1 == A(n0, y)
  <2>2. A(w.net, xr) = A(n1, z) /\ n1 \in NetType
    BY <1>5, <1>7, <2>1, WriteTwice, WriteFields DEF A
  <2> HIDE DEF n0, n1
  <2>3. /\ full \in Worlds(Cell) /\ full.net = v.net /\ full.st.buff = b \o y
        /\ SameButBuff(full.st, v.st) /\ full.st.rawWrite
        /\ b \o y \in Seq(Cell) /\ Len(b \o y) = Len(b) + s
        /\ A(v.net, b \o y) = n1
    BY <1>8, <2>1 DEF n0, n1
  <2> HIDE DEF full
  <2>4. CASE v.st.isClosed
    <3>1. v.net.room = 0
      BY <2>4 DEF Pending
    <3>2. n1 = v.net
      BY <1>1, <2>3, <3>1, WriteNothing DEF A
    <3>3. A(w.net, xr) = v.net
      BY <2>1, <2>2, <3>1, <3>2, WriteNothing DEF A
    <3>4. r = full
      BY <1>4, <1>10, <2>4
    <3>5. Clean(w.st) => Len(xr) > w.net.room /\ full.st.FCGI_errno # 0
      <4>1. Clean(w.st) => v.st.FCGI_errno # 0 /\ Len(x) > w.net.room
        BY <2>4 DEF Pending, Clean
      <4> QED
        BY <1>1, <1>3, <2>3, <4>1 DEF SameButBuff
    <3> QED
      BY <2>3, <2>4, <3>1, <3>2, <3>3, <3>4, <3>5 DEF Pending, SameButBuff, A, r, xr
  <2>5. CASE ~ v.st.isClosed
    <3>1. /\ e.net = n1
          /\ Len(full.st.buff) <= full.net.room =>
                /\ e.st.FCGI_errno = full.st.FCGI_errno
                /\ e.st.isClosed <=> full.st.isClosed
                /\ e.st.buff = <<>>
          /\ ~ (Len(full.st.buff) <= full.net.room) =>
                /\ e.st.FCGI_errno # 0 /\ e.st.isClosed
                /\ e.st.buff = full.st.buff
      BY <2>3, WriteBuffFields DEF A
    <3>t. e \in Worlds(Cell)
      BY <2>3, PlainCells, WriteBuffLemma
    <3> HIDE DEF e
    <3>2. Clean(w.st) => /\ v.st.FCGI_errno = 0
                         /\ v.net.room = w.net.room - (Len(x) - Len(b))
      BY <2>5 DEF Pending, Clean, b
    <3>3. n1.room = v.net.room - Smaller(v.net.room, Len(b) + s)
      <4> DEFINE by == b \o y
      <4>1. by \in Seq(Cell) /\ Len(by) = Len(b) + s /\ WriteItAll(v.net, by) = n1
        BY <2>3 DEF A
      <4> HIDE DEF by
      <4>2. WriteItAll(v.net, by).room = v.net.room - Smaller(v.net.room, Len(by))
        BY <1>1, <4>1, WriteFields
      <4> QED
        BY <4>1, <4>2
    <3>4. CASE Len(b) + s <= v.net.room
      <4>1. /\ e.st.FCGI_errno = v.st.FCGI_errno /\ ~ e.st.isClosed /\ e.st.buff = <<>>
        BY <2>3, <2>5, <3>1, <3>4 DEF SameButBuff
      <4>2. r = Put(e, z)
        BY <1>4, <1>10, <2>5, <4>1
      <4>3. /\ Put(e, z).net = n1 /\ Put(e, z).st.buff = z
            /\ Put(e, z).st.FCGI_errno = v.st.FCGI_errno /\ ~ Put(e, z).st.isClosed
        <5>1. <<>> \o z = z
          BY <2>1, ConcatEmptySeq
        <5> QED
          BY <3>1, <3>t, <4>1, <5>1 DEF Put, Worlds, StreamOver
      <4>4. n1.room = v.net.room - (Len(b) + s)
        BY <1>1, <1>2, <3>3, <3>4 DEF Smaller
      <4>5. Clean(w.st) => n1.room = w.net.room - (Len(xr) - Len(z))
        <5> SUFFICES ASSUME Clean(w.st) PROVE n1.room = w.net.room - (Len(xr) - Len(z))
          OBVIOUS
        <5> DEFINE k == Len(x)
                   lb == Len(b)
                   lr == Len(record)
                   wr == w.net.room
        <5>1. k \in Nat /\ lb \in Nat /\ lr \in Nat /\ wr \in Nat /\ s \in Nat
          BY <1>1, <1>2
        <5>2. n1.room = (wr - (k - lb)) - (lb + s) /\ Len(xr) = k + lr /\ Len(z) = lr - s
          BY <1>3, <2>1, <3>2, <4>4
        <5> HIDE DEF k, lb, lr, wr
        <5>3. (wr - (k - lb)) - (lb + s) = wr - ((k + lr) - (lr - s))
          BY <5>1
        <5> QED
          BY <5>2, <5>3 DEF wr
      <4>6. w.st.FCGI_errno # 0 => v.st.FCGI_errno # 0
        BY DEF Pending
      <4>7. A(n1, z) = A(w.net, xr)
        BY <2>2
      <4> DEFINE q == Put(e, z)
      <4>8. q.net = n1 /\ q.st.buff = z /\ q.st.FCGI_errno = v.st.FCGI_errno /\ ~ q.st.isClosed
        BY <4>3
      <4> HIDE DEF q, n1
      <4>9. Pending(q, w, xr)
        BY <3>2, <4>5, <4>6, <4>7, <4>8 DEF Pending, Clean, A
      <4> QED
        BY <4>2, <4>9 DEF q, r, xr
    <3>5. CASE ~ (Len(b) + s <= v.net.room)
      <4>1. e.st.FCGI_errno # 0 /\ e.st.isClosed /\ e.st.buff = b \o y
        BY <2>3, <3>1, <3>5
      <4>2. n1.room = 0
        BY <1>1, <1>2, <3>3, <3>5 DEF Smaller
      <4>3. r = e
        BY <1>4, <1>10, <2>5, <4>1
      <4>4. A(n1, b \o y) = n1 /\ A(w.net, xr) = n1
        BY <2>1, <2>2, <2>3, <4>2, WriteNothing DEF A
      <4>5. Clean(w.st) => Len(xr) > w.net.room
        BY <1>1, <1>2, <1>3, <1>10, <3>2, <3>5
      <4>6. Pending(e, w, xr)
        BY <3>1, <4>1, <4>2, <4>4, <4>5 DEF Pending, A
      <4> QED
        BY <4>3, <4>6 DEF r, xr
    <3> QED
      BY <3>4, <3>5
  <2> QED
    BY <2>4, <2>5
<1> QED
  BY <1>9, <1>10

\* A stream in rawWrite mode on its way through WriteCloseRecords.
Closing(v, w, x) ==
    /\ v \in Worlds(Cell) /\ v.st.rawWrite /\ v.req = w.req
    /\ v.st.type = w.st.type /\ v.st.stop = w.st.stop
    /\ Len(v.st.buff) <= v.st.stop
    /\ Pending(v, w, x)

\* A close record is put behind what is pending.
LEMMA PutClosing ==
    ASSUME NEW w \in Worlds(Cell), w.st.stop >= 16, NEW v, NEW x \in Seq(Cell),
           Closing(v, w, x), NEW record \in Seq(Cell), Len(record) <= 16, ~ Transient
    PROVE  Closing(PutRecord(v, record), w, x \o record)
<1>1. v \in Worlds(Cell) /\ v.st.rawWrite /\ Len(v.st.buff) <= v.st.stop
      /\ Pending(v, w, x) /\ v.st.stop >= 16
  BY DEF Closing
<1>2. Pending(PutRecord(v, record), w, x \o record)
  BY <1>1, PutPending
<1>3. /\ PutRecord(v, record) \in Worlds(Cell) /\ SameStream(PutRecord(v, record), v)
      /\ PutRecord(v, record).req = v.req /\ PutRecord(v, record).st.rawWrite
      /\ Len(PutRecord(v, record).st.buff) <= PutRecord(v, record).st.stop
  <2>1. PlainCell \subseteq Cell
    BY PlainCells
  <2> QED
    BY <1>1, <2>1, PutRecordLemma, Zenon
<1> DEFINE r == PutRecord(v, record)
<1> HIDE DEF r
<1>4. r.st.type = v.st.type /\ r.st.stop = v.st.stop
  BY <1>3 DEF SameStream, r
<1> QED
  BY <1>2, <1>3, <1>4 DEF Closing, r

\* The header that PutEofRecord puts is a record without content.
LEMMA EofIsRecord ==
    ASSUME NEW t \in Streams \cup {"end"}, NEW id \in Nat
    PROVE  /\ MakeHeader(t, id, 0, 0) = Rec(t, id, <<>>, 0)
           /\ Framed(t, id, <<>>, 0)
           /\ Len(Rec(t, id, <<>>, 0)) = 8
<1> DEFINE h == MakeHeader(t, id, 0, 0)
<1>1. 0 \in 0 .. FCGI_MAX_LENGTH /\ 0 \in 0 .. 255
  BY DEF FCGI_MAX_LENGTH
<1>2. h \in Seq(Cell) /\ Len(h) = 8
  BY <1>1, HeaderLemma, PlainCells DEF FCGI_HEADER_LEN
<1>3. Padding(0) = <<>>
  <2>1. Padding(0) \in Seq(Cell) /\ Len(Padding(0)) = 0
    BY FillerLemma, PlainCells
  <2> QED
    BY <2>1, EmptySeq
<1>4. Len(<<>>) = 0 /\ <<>> \in Seq(Cell)
  BY EmptySeq
<1> HIDE DEF h
<1>5. (h \o <<>>) \o <<>> = h
  <2>1. h \o <<>> = h
    BY <1>2, ConcatEmptySeq
  <2> QED
    BY <2>1
<1>6. Rec(t, id, <<>>, 0) = (MakeHeader(t, id, Len(<<>>), 0) \o <<>>) \o Padding(0)
  BY DEF Rec
<1>7. MakeHeader(t, id, Len(<<>>), 0) = h
  BY <1>4 DEF h
<1>8. Rec(t, id, <<>>, 0) = h
  BY <1>3, <1>5, <1>6, <1>7
<1>9. Framed(t, id, <<>>, 0)
  BY <1>1, <1>4 DEF Framed
<1> QED
  BY <1>2, <1>8, <1>9 DEF h

\* The FCGI_END_REQUEST record is the record of its body.
LEMMA EndIsRecord ==
    ASSUME NEW id \in Nat, NEW status \in Int
    PROVE  LET body == MakeEndRequestBody(id, status)
           IN  /\ EndRequestRecord(id, status) = Rec("end", id, body, 0)
               /\ Framed("end", id, body, 0)
               /\ Len(body) = 8 /\ body \in Seq(Cell)
               /\ Len(Rec("end", id, body, 0)) = 16
               /\ \A i \in 1 .. 8 : body[i] = <<"body", id, status, i>>
<1> DEFINE body == MakeEndRequestBody(id, status)
           h == MakeHeader("end", id, 8, 0)
<1>1. body \in Seq(Cell) /\ Len(body) = 8 /\ \A i \in 1 .. 8 : body[i] = <<"body", id, status, i>>
  <2>1. ASSUME NEW i \in 1 .. 8 PROVE <<"body", id, status, i>> \in Cell
    BY DEF Cell
  <2>2. body \in [1 .. 8 -> Cell]
    BY <2>1 DEF MakeEndRequestBody
  <2>3. body \in Seq(Cell)
    BY <2>2, SeqDef
  <2> QED
    BY <2>2, <2>3, LenProperties DEF MakeEndRequestBody
<1>2. 8 \in 0 .. FCGI_MAX_LENGTH /\ 0 \in 0 .. 255 /\ "end" \in Streams \cup {"end"}
  BY DEF FCGI_MAX_LENGTH
<1>3. h \in Seq(Cell)
  BY <1>2, HeaderLemma, PlainCells
<1>4. Padding(0) = <<>>
  <2>1. Padding(0) \in Seq(Cell) /\ Len(Padding(0)) = 0
    BY FillerLemma, PlainCells
  <2> QED
    BY <2>1, EmptySeq
<1> HIDE DEF body
<1>5. Rec("end", id, body, 0) = (MakeHeader("end", id, Len(body), 0) \o body) \o Padding(0)
  BY DEF Rec
<1>6. MakeHeader("end", id, Len(body), 0) = h
  BY <1>1
<1> HIDE DEF h
<1>7. (h \o body) \o <<>> = h \o body
  BY <1>1, <1>3, ConcatLemma, ConcatEmptySeq
<1>8. Rec("end", id, body, 0) = h \o body
  BY <1>4, <1>5, <1>6, <1>7
<1>9. EndRequestRecord(id, status) = h \o body
  BY DEF EndRequestRecord, h, body
<1>10. Framed("end", id, body, 0)
  BY <1>1, <1>2 DEF Framed
<1>11. Len(Rec("end", id, body, 0)) = 16
  <2>1. Len(Rec("end", id, body, 0)) = 8 + Len(body) + 0
    BY <1>10, RecordCells DEF RecordShape
  <2> QED
    BY <1>1, <2>1
<1> QED
  BY <1>1, <1>8, <1>9, <1>10, <1>11 DEF body

\* FCGX_FFlush, or a full buffer.
LEMMA FlushSends ==
    ASSUME NEW w \in Worlds(Cell), Collecting(w.st), ~ Transient
    PROVE  LET r == EmptyBuffProc(w, FALSE)
               x == ContentRecord(w)
           IN  /\ r.net = WriteItAll(w.net, x) /\ x \in Seq(Cell)
               /\ r.st.isAnythingWritten <=> w.st.isAnythingWritten \/ x # <<>>
               /\ Len(x) <= w.net.room =>
                     /\ r.st.FCGI_errno = w.st.FCGI_errno
                     /\ r.st.isClosed <=> w.st.isClosed
                     /\ r.st.buff = HeaderSlot
               /\ ~ (Len(x) <= w.net.room) => r.st.FCGI_errno # 0 /\ r.st.isClosed
<1> DEFINE e == Encapsulate(w)
           r == WriteBuff(e)
<1>1. /\ e.st.buff = ContentRecord(w) /\ e.net = w.net /\ e.req = w.req
      /\ ~ e.st.rawWrite /\ SameButBuff(e.st, w.st) /\ ContentRecord(w) \in Seq(Cell)
  BY EncapsulateIs
<1>2. e \in Worlds(Cell)
  <2>1. PlainCell \subseteq Cell
    BY PlainCells
  <2> QED
    BY <2>1, EncapsulateLemma, Zenon
<1>3. EmptyBuffProc(w, FALSE) = r
  BY DEF EmptyBuffProc
<1> HIDE DEF e
<1>4. /\ r.net = WriteItAll(e.net, e.st.buff)
      /\ r.st.isAnythingWritten <=> e.st.isAnythingWritten \/ e.st.buff # <<>>
      /\ Len(e.st.buff) <= e.net.room =>
            /\ r.st.FCGI_errno = e.st.FCGI_errno
            /\ r.st.isClosed <=> e.st.isClosed
            /\ r.st.buff = IF e.st.rawWrite THEN <<>> ELSE HeaderSlot
      /\ ~ (Len(e.st.buff) <= e.net.room) => r.st.FCGI_errno # 0 /\ r.st.isClosed
  BY <1>2, WriteBuffFields
<1> HIDE DEF r
<1> QED
  BY <1>1, <1>3, <1>4 DEF SameButBuff

\* What FCGX_FClose writes, and that it reports an error if not all was taken.
LEMMA CloseSends ==
    ASSUME NEW w \in Worlds(Cell), Collecting(w.st), ~ w.st.wasFCloseCalled,
           w.st.isClosed => w.net.room = 0, w.req.nWriters \in 1 .. 2, ~ Transient
    PROVE  LET r == FClose(w)
               x == (ContentRecord(w) \o EofRecord(w)) \o EndRecord(w)
           IN  /\ r.net = WriteItAll(w.net, x) /\ x \in Seq(Cell)
               /\ r.st.stop = Len(r.st.buff)
               /\ w.st.FCGI_errno # 0 => r.st.FCGI_errno # 0
               /\ Clean(w.st) => (r.st.FCGI_errno = 0 <=> Len(x) <= w.net.room)
<1> DEFINE e == Encapsulate(w)
           raw == [e EXCEPT !.st.rawWrite = TRUE]
           eof == PutEofRecord(raw)
           end == PutEndRequest(eof)
           done == [end EXCEPT !.req.nWriters = @ - 1]
           out == WriteBuff(done)
           r == [out EXCEPT !.st.wasFCloseCalled = TRUE, !.st.isClosed = TRUE,
                            !.st.stop = Len(out.st.buff)]
           id == w.req.requestId
           x1 == ContentRecord(w)
           x2 == x1 \o EofRecord(w)
           x3 == x2 \o EndRecord(w)
<1>1. /\ w.st.type \in Streams /\ w.st.stop >= 16 /\ w.net \in NetType
      /\ id \in Nat /\ w.req.appStatus \in Int /\ w.net.room \in Nat
      /\ w.req \in RequestType
  BY BuffLenLemma DEF Worlds, StreamOver, Collecting, RequestType, NetType, NetOver
<1>2. FClose(w) = r
  BY DEF FClose, EmptyBuffProc, WriteCloseRecords
<1>3. PlainCell \subseteq Cell
  BY PlainCells
<1>4. /\ e.st.buff = x1 /\ e.net = w.net /\ e.req = w.req
      /\ ~ e.st.rawWrite /\ SameButBuff(e.st, w.st) /\ x1 \in Seq(Cell)
  BY EncapsulateIs
<1>5. e \in Worlds(Cell) /\ Len(e.st.buff) <= e.st.stop
  BY <1>3, EncapsulateLemma, Zenon
<1> HIDE DEF e
<1>6. /\ raw \in Worlds(Cell) /\ raw.st.rawWrite /\ raw.st.buff = x1 /\ raw.net = w.net
      /\ raw.req = w.req /\ SameButBuff(raw.st, w.st) /\ Len(raw.st.buff) <= raw.st.stop
  BY <1>4, <1>5 DEF Worlds, StreamOver, SameButBuff
<1> HIDE DEF raw, x1
<1>7. Closing(raw, w, x1)
  <2>1. Len(x1) \in Nat
    BY <1>4, LenProperties
  <2>2. w.net.room = w.net.room - (Len(x1) - Len(x1))
    BY <1>1, <2>1
  <2> QED
    BY <1>6, <2>2 DEF Closing, Pending, SameButBuff, Clean
<1>8. Closing(eof, w, x2) /\ x2 \in Seq(Cell)
  <2> DEFINE mark == MakeHeader(w.st.type, id, 0, 0)
             Rd == Rec(w.st.type, id, <<>>, 0)
  <2>1. mark = Rd /\ Framed(w.st.type, id, <<>>, 0) /\ Len(Rd) = 8
    BY <1>1, EofIsRecord
  <2>2. Rd \in Seq(Cell) /\ Len(Rd) <= 16
    <3>1. RecordShape(Rd, w.st.type, id, <<>>, Len(<<>>), 0)
      BY <2>1, RecordCells
    <3> HIDE DEF Rd
    <3> QED
      BY <2>1, <3>1 DEF RecordShape
  <2>3. eof = IF w.st.type = "err" /\ x1 = <<>> /\ ~ w.st.isAnythingWritten
              THEN raw ELSE PutRecord(raw, mark)
    BY <1>6 DEF PutEofRecord, SameButBuff
  <2>4. EofRecord(w) = IF w.st.type = "err" /\ x1 = <<>> /\ ~ w.st.isAnythingWritten
                       THEN <<>> ELSE Rd
    BY DEF EofRecord, x1
  <2> HIDE DEF eof, Rd, mark
  <2>5. Closing(PutRecord(raw, Rd), w, x1 \o Rd) /\ x1 \o Rd \in Seq(Cell)
    BY <1>1, <1>4, <1>7, <2>2, PutClosing, ConcatLemma
  <2>6. x1 \o <<>> = x1
    BY <1>4, ConcatEmptySeq
  <2> QED
    BY <1>4, <1>7, <2>1, <2>3, <2>4, <2>5, <2>6
<1> HIDE DEF eof, x2
<1>9. Closing(end, w, x3) /\ x3 \in Seq(Cell)
  <2> DEFINE record == EndRequestRecord(id, w.req.appStatus)
             Rd == Rec("end", id, EndBody(w), 0)
  <2>1. record = Rd /\ Framed("end", id, EndBody(w), 0) /\ Len(Rd) = 16
    BY <1>1, EndIsRecord DEF EndBody
  <2>2. Rd \in Seq(Cell) /\ Len(Rd) <= 16
    <3>1. RecordShape(Rd, "end", id, EndBody(w), Len(EndBody(w)), 0)
      BY <2>1, RecordCells
    <3> HIDE DEF Rd
    <3> QED
      BY <2>1, <3>1 DEF RecordShape
  <2>3. end = IF w.req.nWriters = 1 THEN PutRecord(eof, record) ELSE eof
    BY <1>8 DEF PutEndRequest, Closing
  <2>4. EndRecord(w) = IF w.req.nWriters = 1 THEN Rd ELSE <<>>
    BY DEF EndRecord
  <2> HIDE DEF end, Rd, record
  <2>5. Closing(PutRecord(eof, Rd), w, x2 \o Rd) /\ x2 \o Rd \in Seq(Cell)
    BY <1>1, <1>8, <2>2, PutClosing, ConcatLemma
  <2>6. x2 \o <<>> = x2
    BY <1>8, ConcatEmptySeq
  <2> QED
    BY <1>8, <2>1, <2>3, <2>4, <2>5, <2>6
<1> HIDE DEF end, x3
<1>10. done \in Worlds(Cell) /\ done.st = end.st /\ done.net = end.net
  <2>1. end \in Worlds(Cell) /\ end.req = w.req
    BY <1>9 DEF Closing
  <2>2. end.req.nWriters \in 1 .. 2 /\ end.req \in RequestType
    BY <1>1, <2>1
  <2>3. [end.req EXCEPT !.nWriters = @ - 1] \in RequestType
    BY <2>2 DEF RequestType
  <2>4. done = [end EXCEPT !.req = [end.req EXCEPT !.nWriters = @ - 1]]
    BY <2>1 DEF Worlds
  <2> DEFINE q == [end.req EXCEPT !.nWriters = @ - 1]
  <2> HIDE DEF q, done
  <2> QED
    BY <2>1, <2>3, <2>4 DEF Worlds, q
<1> HIDE DEF done
<1>11. /\ out.net = WriteItAll(done.net, done.st.buff)
       /\ Len(done.st.buff) <= done.net.room => out.st.FCGI_errno = done.st.FCGI_errno
       /\ ~ (Len(done.st.buff) <= done.net.room) => out.st.FCGI_errno # 0
  BY <1>10, WriteBuffFields
<1>12. out \in Worlds(Cell)
  BY <1>3, <1>10, WriteBuffLemma, Zenon
<1> HIDE DEF out
<1>13. Pending(end, w, x3)
  BY <1>9 DEF Closing
<1>14. out.net = WriteItAll(w.net, x3)
  BY <1>10, <1>11, <1>13 DEF Pending
<1>15. w.st.FCGI_errno # 0 => out.st.FCGI_errno # 0
  BY <1>10, <1>11, <1>13 DEF Pending
<1>16. Clean(w.st) => (out.st.FCGI_errno = 0 <=> Len(x3) <= w.net.room)
  <2> SUFFICES ASSUME Clean(w.st)
               PROVE  out.st.FCGI_errno = 0 <=> Len(x3) <= w.net.room
    OBVIOUS
  <2> DEFINE k == Len(x3)
             b == Len(end.st.buff)
             n == w.net.room
             m == end.net.room
  <2>1. k \in Nat /\ b \in Nat /\ n \in Nat /\ m \in Nat
    BY <1>1, <1>9, <1>10, LenProperties DEF Worlds, StreamOver, NetOver, Closing
  <2>2. \/ Clean(end.st) /\ m = n - (k - b)
        \/ end.st.FCGI_errno # 0 /\ k > n
    BY <1>13 DEF Pending
  <2>3. /\ b <= m => out.st.FCGI_errno = end.st.FCGI_errno
        /\ ~ (b <= m) => out.st.FCGI_errno # 0
    BY <1>10, <1>11
  <2> HIDE DEF k, b, n, m
  <2>4. m = n - (k - b) => (b <= m <=> k <= n)
    BY <2>1
  <2>5. out.st.FCGI_errno = 0 <=> k <= n
    BY <2>1, <2>2, <2>3, <2>4 DEF Clean
  <2> QED
    BY <2>5 DEF k, n
<1>17. /\ r.net = out.net /\ r.st.FCGI_errno = out.st.FCGI_errno
       /\ r.st.stop = Len(out.st.buff) /\ r.st.buff = out.st.buff
  BY <1>12 DEF Worlds, StreamOver
<1> HIDE DEF r
<1> QED
  BY <1>2, <1>9, <1>14, <1>15, <1>16, <1>17 DEF x3, x2, x1

(***************************************************************************)
(* Sequences of records                                                    *)
(***************************************************************************)

\* rs2 is rs and one more record.
Adds(rs, rs2, r) ==
    /\ rs2 \in Seq(RecordType) /\ r \in RecordType
    /\ Len(rs2) = Len(rs) + 1
    /\ \A i \in 1 .. Len(rs) : rs2[i] = rs[i]
    /\ rs2[Len(rs) + 1] = r

\* What record r adds to stream s of request id.
PartFor(r, s, id) == IF r.type = s /\ r.id = id THEN r.content ELSE <<>>

Joins(c, a, b) == c = a \o b

\* Content by its equations.
Collected(f, rs, s, id, n) ==
    /\ f \in [0 .. n -> Seq(Cell)]
    /\ f[0] = <<>>
    /\ \A i \in 1 .. n : Joins(f[i], f[i - 1], PartFor(rs[i], s, id))

\* There is a function that satisfies the equations of Content.
LEMMA CollectedExist ==
    ASSUME NEW rs \in Seq(RecordType), NEW s, NEW id
    PROVE  \E f : Collected(f, rs, s, id, Len(rs))
<1> DEFINE S == {n \in Nat : n <= Len(rs) => \E f : Collected(f, rs, s, id, n)}
<1>1. Len(rs) \in Nat
  BY LenProperties
<1>2. 0 \in S
  <2> DEFINE f == [i \in 0 .. 0 |-> <<>>]
  <2>1. f \in [0 .. 0 -> Seq(Cell)] /\ f[0] = <<>>
    BY EmptySeq
  <2> HIDE DEF f
  <2>2. Collected(f, rs, s, id, 0)
    BY <2>1 DEF Collected
  <2> QED
    BY <2>2
<1>3. ASSUME NEW n \in Nat, n \in S
      PROVE  n + 1 \in S
  <2> SUFFICES ASSUME n + 1 <= Len(rs)
               PROVE  \E f : Collected(f, rs, s, id, n + 1)
    OBVIOUS
  <2>1. PICK f : Collected(f, rs, s, id, n)
    BY <1>1, <1>3
  <2> DEFINE p == PartFor(rs[n + 1], s, id)
             v == f[n] \o p
             g == [i \in 0 .. n + 1 |-> IF i = n + 1 THEN v ELSE f[i]]
  <2>2. p \in Seq(Cell)
    <3>1. rs[n + 1] \in RecordType
      BY <1>1, ElementOfSeq
    <3> QED
      BY <3>1, EmptySeq DEF PartFor, RecordType
  <2>3. f[n] \in Seq(Cell) /\ \A i \in 0 .. n : f[i] \in Seq(Cell)
    BY <2>1 DEF Collected
  <2> HIDE DEF p
  <2>4. v \in Seq(Cell)
    BY <2>2, <2>3, ConcatLemma
  <2>5. Joins(v, f[n], p)
    BY DEF Joins
  <2> HIDE DEF v
  <2>6. /\ g \in [0 .. n + 1 -> Seq(Cell)] /\ g[n + 1] = v
        /\ \A i \in 0 .. n : g[i] = f[i]
    BY <2>3, <2>4
  <2> HIDE DEF g
  <2>7. \A i \in 1 .. n + 1 : Joins(g[i], g[i - 1], PartFor(rs[i], s, id))
    <3> SUFFICES ASSUME NEW i \in 1 .. n + 1
                 PROVE  Joins(g[i], g[i - 1], PartFor(rs[i], s, id))
      OBVIOUS
    <3>1. CASE i = n + 1
      <4>1. g[i] = v /\ i - 1 = n /\ g[i - 1] = f[n]
        BY <2>6, <3>1
      <4> QED
        BY <2>5, <3>1, <4>1 DEF p
    <3>2. CASE i # n + 1
      <4>1. i \in 1 .. n /\ i \in 0 .. n /\ i - 1 \in 0 .. n
        BY <3>2
      <4>2. g[i] = f[i] /\ g[i - 1] = f[i - 1]
        BY <2>6, <4>1
      <4>3. Joins(f[i], f[i - 1], PartFor(rs[i], s, id))
        BY <2>1, <4>1 DEF Collected
      <4> QED
        BY <4>2, <4>3
    <3> QED
      BY <3>1, <3>2
  <2>8. g[0] = <<>>
    BY <2>1, <2>6 DEF Collected
  <2> QED
    BY <2>6, <2>7, <2>8 DEF Collected
<1> HIDE DEF S
<1>4. \A n \in Nat : n \in S
  BY <1>2, <1>3, SetInduction
<1> QED
  BY <1>1, <1>4 DEF S

Alike(a, b, n) == \A i \in 1 .. n : a[i] = b[i]

\* There is only one such function up to any n.
LEMMA CollectedOnce ==
    ASSUME NEW rs, NEW qs, NEW s, NEW id, NEW n \in Nat, NEW m \in Nat, n <= m,
           NEW f, Collected(f, rs, s, id, n), NEW g, Collected(g, qs, s, id, m),
           Alike(rs, qs, n)
    PROVE  g[n] = f[n]
<1> DEFINE S == {i \in Nat : i <= n => g[i] = f[i]}
<1>1. 0 \in S
  BY DEF Collected
<1>2. ASSUME NEW i \in Nat, i \in S
      PROVE  i + 1 \in S
  <2> SUFFICES ASSUME i + 1 <= n PROVE g[i + 1] = f[i + 1]
    OBVIOUS
  <2>1. i + 1 \in 1 .. n /\ i + 1 \in 1 .. m /\ (i + 1) - 1 = i /\ g[i] = f[i]
    BY <1>2
  <2> DEFINE j == i + 1
  <2>2. j - 1 = i /\ j \in 1 .. n /\ j \in 1 .. m
    BY <2>1
  <2> HIDE DEF j
  <2>3. Joins(f[j], f[j - 1], PartFor(rs[j], s, id))
    BY <2>2 DEF Collected
  <2>4. Joins(g[j], g[j - 1], PartFor(qs[j], s, id))
    BY <2>2 DEF Collected
  <2>5. g[j - 1] = f[j - 1] /\ rs[j] = qs[j]
    BY <2>1, <2>2 DEF Alike
  <2>6. g[j] = f[j]
    BY <2>3, <2>4, <2>5 DEF Joins
  <2> QED
    BY <2>6 DEF j
<1> HIDE DEF S
<1>3. \A i \in Nat : i \in S
  BY <1>1, <1>2, SetInduction
<1> QED
  BY <1>3 DEF S

\* Content is what such a function has at the end.
LEMMA ContentIs ==
    ASSUME NEW rs \in Seq(RecordType), NEW s, NEW id, NEW f, Collected(f, rs, s, id, Len(rs))
    PROVE  Content(rs, s, id) = f[Len(rs)] /\ Content(rs, s, id) \in Seq(Cell)
<1> DEFINE n == Len(rs)
           Eq(h) == h = [i \in 0 .. n |->
                           IF i = 0 THEN <<>>
                           ELSE h[i - 1] \o (IF rs[i].type = s /\ rs[i].id = id
                                               THEN rs[i].content ELSE <<>>)]
           upto == CHOOSE h : Eq(h)
<1>1. n \in Nat
  BY LenProperties
<1>2. Eq(f)
  <2>1. \A i \in 0 .. n : i = 0 \/ i \in 1 .. n
    BY <1>1
  <2>2. \A i \in 0 .. n :
          f[i] = IF i = 0 THEN <<>>
                 ELSE f[i - 1] \o (IF rs[i].type = s /\ rs[i].id = id
                                     THEN rs[i].content ELSE <<>>)
    BY <2>1 DEF Collected, Joins, PartFor
  <2>3. f = [i \in 0 .. n |-> f[i]]
    BY DEF Collected
  <2> QED
    BY <2>2, <2>3
<1>3. Eq(upto)
  BY <1>2
<1>4. Content(rs, s, id) = upto[n]
  BY DEF Content
<1> HIDE DEF upto
<1>5. \A i \in 0 .. n :
        upto[i] = IF i = 0 THEN <<>>
                  ELSE upto[i - 1] \o (IF rs[i].type = s /\ rs[i].id = id
                                         THEN rs[i].content ELSE <<>>)
  BY <1>3
<1>6. upto[0] = <<>> /\ \A i \in 1 .. n : Joins(upto[i], upto[i - 1], PartFor(rs[i], s, id))
  <2> HIDE DEF Eq
  <2>1. 0 \in 0 .. n /\ \A i \in 1 .. n : i \in 0 .. n /\ i # 0
    BY <1>1
  <2>2. upto[0] = <<>>
    BY <1>5, <2>1
  <2>3. \A i \in 1 .. n : upto[i] = upto[i - 1] \o PartFor(rs[i], s, id)
    BY <1>5, <2>1, Zenon DEF PartFor
  <2> QED
    BY <2>2, <2>3, Zenon DEF Joins
<1> HIDE DEF Eq
<1> DEFINE S == {i \in Nat : i <= n => upto[i] = f[i]}
<1>7. 0 \in S
  BY <1>6 DEF Collected
<1>8. ASSUME NEW i \in Nat, i \in S
      PROVE  i + 1 \in S
  <2> SUFFICES ASSUME i + 1 <= n PROVE upto[i + 1] = f[i + 1]
    OBVIOUS
  <2> DEFINE j == i + 1
  <2>1. j - 1 = i /\ j \in 1 .. n /\ upto[i] = f[i]
    BY <1>1, <1>8
  <2> HIDE DEF j
  <2>2. Joins(f[j], f[j - 1], PartFor(rs[j], s, id))
    BY <2>1 DEF Collected
  <2>3. upto[j] = f[j]
    BY <1>6, <2>1, <2>2 DEF Joins
  <2> QED
    BY <2>3 DEF j
<1> HIDE DEF S
<1>9. \A i \in Nat : i \in S
  BY <1>7, <1>8, SetInduction
<1>10. upto[n] = f[n] /\ f[n] \in Seq(Cell)
  BY <1>1, <1>9 DEF S, Collected
<1> QED
  BY <1>4, <1>10

\* One more record.
LEMMA AddsContent ==
    ASSUME NEW rs \in Seq(RecordType), NEW rs2, NEW r, Adds(rs, rs2, r), NEW s, NEW id
    PROVE  /\ Content(rs, s, id) \in Seq(Cell) /\ Content(rs2, s, id) \in Seq(Cell)
           /\ Joins(Content(rs2, s, id), Content(rs, s, id), PartFor(r, s, id))
<1> DEFINE n == Len(rs)
<1>1. n \in Nat /\ rs2 \in Seq(RecordType) /\ Len(rs2) = n + 1 /\ rs2[n + 1] = r
      /\ \A i \in 1 .. n : rs[i] = rs2[i]
  BY LenProperties DEF Adds
<1>2. PICK f : Collected(f, rs, s, id, n)
  BY CollectedExist
<1>3. PICK g : Collected(g, rs2, s, id, Len(rs2))
  BY <1>1, CollectedExist
<1>4. Content(rs, s, id) = f[n] /\ Content(rs, s, id) \in Seq(Cell)
  BY <1>2, ContentIs
<1>5. Content(rs2, s, id) = g[Len(rs2)] /\ Content(rs2, s, id) \in Seq(Cell)
  BY <1>1, <1>3, ContentIs
<1> DEFINE m == n + 1
<1>6. m \in Nat /\ n <= m /\ m \in 1 .. m /\ m - 1 = n /\ Len(rs2) = m /\ rs2[m] = r /\ n \in 0 .. n
  BY <1>1
<1> HIDE DEF n, m
<1>7. Collected(g, rs2, s, id, m)
  BY <1>3, <1>6
<1>8. g[n] = f[n]
  <2>1. Alike(rs, rs2, n)
    BY <1>1 DEF Alike
  <2>2. n \in Nat /\ m \in Nat /\ n <= m
    BY <1>1, <1>6
  <2>3. Collected(f, rs, s, id, n) /\ Collected(g, rs2, s, id, m)
    BY <1>2, <1>7
  <2> QED
    BY <2>1, <2>2, <2>3, CollectedOnce
<1>9. Joins(g[m], g[m - 1], PartFor(rs2[m], s, id))
  BY <1>6, <1>7 DEF Collected
<1> QED
  BY <1>4, <1>5, <1>6, <1>8, <1>9

\* No record of a stream, no content.
LEMMA ContentNone ==
    ASSUME NEW rs \in Seq(RecordType), NEW s, NEW id,
           \A i \in 1 .. Len(rs) : ~ (rs[i].type = s /\ rs[i].id = id)
    PROVE  Content(rs, s, id) = <<>>
<1> DEFINE n == Len(rs)
           f == [i \in 0 .. n |-> <<>>]
<1>1. n \in Nat
  BY LenProperties
<1>2. f \in [0 .. n -> Seq(Cell)] /\ \A i \in 0 .. n : f[i] = <<>>
  BY EmptySeq
<1>3. <<>> \o <<>> = <<>>
  BY EmptySeq, ConcatEmptySeq
<1> HIDE DEF f
<1>4. Collected(f, rs, s, id, n)
  <2>1. \A i \in 1 .. n : f[i] = <<>> /\ f[i - 1] = <<>> /\ PartFor(rs[i], s, id) = <<>>
    BY <1>1, <1>2 DEF PartFor
  <2>2. \A i \in 1 .. n : Joins(f[i], f[i - 1], PartFor(rs[i], s, id))
    BY <1>3, <2>1 DEF Joins
  <2> QED
    BY <1>1, <1>2, <2>2 DEF Collected
<1>5. f[n] = <<>>
  BY <1>1, <1>2
<1> QED
  BY <1>4, <1>5, ContentIs

(***************************************************************************)
(* What the server has, c, and what is still buffered, b, of the first n   *)
(* bytes of a stream: everything, or at least nothing else.                *)
(***************************************************************************)
Ahead(c, b, s, n) == c \o b = Bytes(s, 0, n)

Behind(c, s, n) == c = Bytes(s, 0, Len(c)) /\ Len(c) <= n

\* The bytes of a stream one by one.
LEMMA BytesAre ==
    ASSUME NEW s \in Streams, NEW n \in Nat, NEW m \in Nat
    PROVE  /\ Bytes(s, n, m) \in Seq(Cell) /\ Len(Bytes(s, n, m)) = m
           /\ \A i \in 1 .. m : Bytes(s, n, m)[i] = <<"data", s, n + i>>
<1>1. Bytes(s, n, m) \in Seq(Cell) /\ Len(Bytes(s, n, m)) = m
  BY FillerLemma, PlainCells
<1>2. \A i \in 1 .. m : Bytes(s, n, m)[i] = <<"data", s, n + i>>
  BY DEF Bytes
<1> QED
  BY <1>1, <1>2

\* A sequence that has the same bytes is the same.
LEMMA BytesEqual ==
    ASSUME NEW s \in Streams, NEW c \in Seq(Cell), NEW n \in Nat, Len(c) = n,
           \A i \in 1 .. n : c[i] = <<"data", s, 0 + i>>
    PROVE  c = Bytes(s, 0, n)
<1> DEFINE b == Bytes(s, 0, n)
<1>1. b \in Seq(Cell) /\ Len(b) = n /\ \A i \in 1 .. n : b[i] = <<"data", s, 0 + i>>
  BY BytesAre
<1> HIDE DEF b
<1>2. \A i \in 1 .. Len(c) : c[i] = b[i]
  BY <1>1
<1>3. c = b
  BY <1>1, <1>2, SeqEqual
<1> QED
  BY <1>3 DEF b

\* The cells of a concatenation.
Concatenates(d, a, b) ==
    /\ Len(d) = Len(a) + Len(b)
    /\ Len(a) \in Nat /\ Len(b) \in Nat
    /\ \A i \in 1 .. Len(a) : d[i] = a[i]
    /\ \A i \in 1 .. Len(b) : d[Len(a) + i] = b[i]

\* A concatenation has the cells of both halves.
LEMMA ConcatCells ==
    ASSUME NEW S, NEW a \in Seq(S), NEW b \in Seq(S)
    PROVE  a \o b \in Seq(S) /\ Concatenates(a \o b, a, b)
<1> DEFINE m == Len(a)
           n == Len(b)
           c == a \o b
<1>1. m \in Nat /\ n \in Nat
  BY LenProperties
<1>2. /\ c \in Seq(S) /\ Len(c) = m + n
      /\ \A i \in 1 .. m + n : c[i] = IF i <= m THEN a[i] ELSE b[i - m]
  BY ConcatProperties
<1> HIDE DEF m, n, c
<1>3. \A i \in 1 .. m : i \in 1 .. m + n /\ i <= m
  BY <1>1
<1>4. \A i \in 1 .. n : m + i \in 1 .. m + n /\ ~ (m + i <= m) /\ (m + i) - m = i
  BY <1>1
<1>5. \A i \in 1 .. m : c[i] = a[i]
  BY <1>2, <1>3
<1>6. \A i \in 1 .. n : c[m + i] = b[i]
  BY <1>2, <1>4
<1> QED
  BY <1>1, <1>2, <1>5, <1>6 DEF m, n, c, Concatenates

\* What is buffered are bytes of the stream.
LEMMA AheadCells ==
    ASSUME NEW s \in Streams, NEW n \in Nat, NEW c \in Seq(Cell), NEW b \in Seq(Cell),
           Ahead(c, b, s, n)
    PROVE  /\ Len(c) + Len(b) = n /\ Len(c) \in Nat /\ Len(b) \in Nat
           /\ \A i \in 1 .. Len(c) : c[i] = <<"data", s, 0 + i>>
           /\ \A i \in 1 .. Len(b) : b[i] = <<"data", s, 0 + (Len(c) + i)>>
<1> DEFINE d == Bytes(s, 0, n)
           k == Len(c)
           l == Len(b)
<1>1. Len(d) = n /\ \A i \in 1 .. n : d[i] = <<"data", s, 0 + i>>
  BY BytesAre
<1>2. /\ Len(d) = k + l /\ k \in Nat /\ l \in Nat
      /\ \A i \in 1 .. k : d[i] = c[i]
      /\ \A i \in 1 .. l : d[k + i] = b[i]
  <2>1. Concatenates(d, c, b)
    BY ConcatCells DEF Ahead
  <2> HIDE DEF d
  <2> QED
    BY <2>1 DEF Concatenates
<1> HIDE DEF d, k, l
<1>3. /\ \A i \in 1 .. k : i \in 1 .. n
      /\ \A i \in 1 .. l : k + i \in 1 .. n
  BY <1>1, <1>2
<1>4. \A i \in 1 .. k : c[i] = <<"data", s, 0 + i>>
  BY <1>1, <1>2, <1>3
<1>5. \A i \in 1 .. l : b[i] = <<"data", s, 0 + (k + i)>>
  BY <1>1, <1>2, <1>3
<1> QED
  BY <1>1, <1>2, <1>4, <1>5 DEF k, l

\* And the other way round.
LEMMA CellsAhead ==
    ASSUME NEW s \in Streams, NEW n \in Nat, NEW c \in Seq(Cell), NEW b \in Seq(Cell),
           Len(c) + Len(b) = n,
           \A i \in 1 .. Len(c) : c[i] = <<"data", s, 0 + i>>,
           \A i \in 1 .. Len(b) : b[i] = <<"data", s, 0 + (Len(c) + i)>>
    PROVE  Ahead(c, b, s, n)
<1> DEFINE d == c \o b
           k == Len(c)
           l == Len(b)
<1>1. /\ d \in Seq(Cell) /\ Len(d) = k + l /\ k \in Nat /\ l \in Nat
      /\ \A i \in 1 .. k : d[i] = c[i]
      /\ \A i \in 1 .. l : d[k + i] = b[i]
  <2>1. d \in Seq(Cell) /\ Concatenates(d, c, b)
    BY ConcatCells
  <2> HIDE DEF d
  <2> QED
    BY <2>1 DEF Concatenates
<1>2. n = k + l
  OBVIOUS
<1>3. /\ \A i \in 1 .. k : c[i] = <<"data", s, 0 + i>>
      /\ \A i \in 1 .. l : b[i] = <<"data", s, 0 + (k + i)>>
  OBVIOUS
<1> HIDE DEF d, k, l
<1>4. \A i \in 1 .. n : d[i] = <<"data", s, 0 + i>>
  <2> SUFFICES ASSUME NEW i \in 1 .. n PROVE d[i] = <<"data", s, 0 + i>>
    OBVIOUS
  <2>1. CASE i <= k
    BY <1>1, <1>3, <2>1
  <2>2. CASE ~ (i <= k)
    <3> DEFINE j == i - k
    <3>1. j \in 1 .. l /\ k + j = i
      BY <1>1, <1>2, <2>2
    <3> HIDE DEF j
    <3>2. d[k + j] = b[j] /\ b[j] = <<"data", s, 0 + (k + j)>>
      BY <1>1, <1>3, <3>1
    <3> QED
      BY <3>1, <3>2
  <2> QED
    BY <2>1, <2>2
<1>5. d = Bytes(s, 0, n)
  BY <1>1, <1>2, <1>4, BytesEqual
<1> QED
  BY <1>5 DEF d, Ahead

\* The application writes m more bytes to the buffer.
LEMMA AheadPut ==
    ASSUME NEW s \in Streams, NEW n \in Nat, NEW m \in Nat,
           NEW c \in Seq(Cell), NEW b \in Seq(Cell), Ahead(c, b, s, n)
    PROVE  Ahead(c, b \o Bytes(s, n, m), s, n + m)
<1> DEFINE x == Bytes(s, n, m)
           d == b \o x
           k == Len(c)
           l == Len(b)
<1>1. x \in Seq(Cell) /\ Len(x) = m /\ \A i \in 1 .. m : x[i] = <<"data", s, n + i>>
  BY BytesAre
<1>2. /\ k + l = n /\ k \in Nat /\ l \in Nat
      /\ \A i \in 1 .. k : c[i] = <<"data", s, 0 + i>>
      /\ \A i \in 1 .. l : b[i] = <<"data", s, 0 + (k + i)>>
  BY AheadCells
<1> HIDE DEF x
<1>3. /\ d \in Seq(Cell) /\ Len(d) = l + m
      /\ \A i \in 1 .. l : d[i] = b[i]
      /\ \A i \in 1 .. m : d[l + i] = x[i]
  <2>1. d \in Seq(Cell) /\ Concatenates(d, b, x)
    BY <1>1, ConcatCells
  <2> HIDE DEF d
  <2> QED
    BY <1>1, <2>1 DEF Concatenates
<1> HIDE DEF d, k, l
<1>4. \A i \in 1 .. l + m : d[i] = <<"data", s, 0 + (k + i)>>
  <2> SUFFICES ASSUME NEW i \in 1 .. l + m PROVE d[i] = <<"data", s, 0 + (k + i)>>
    OBVIOUS
  <2>1. CASE i <= l
    BY <1>2, <1>3, <2>1
  <2>2. CASE ~ (i <= l)
    <3> DEFINE j == i - l
    <3>1. j \in 1 .. m /\ l + j = i /\ n + j = 0 + (k + i)
      BY <1>2, <2>2
    <3> HIDE DEF j
    <3>2. d[l + j] = x[j] /\ x[j] = <<"data", s, n + j>>
      BY <1>1, <1>3, <3>1
    <3> QED
      BY <3>1, <3>2
  <2> QED
    BY <2>1, <2>2
<1>5. Len(c) + Len(d) = n + m /\ n + m \in Nat
  BY <1>2, <1>3 DEF k
<1>6. /\ \A i \in 1 .. Len(c) : c[i] = <<"data", s, 0 + i>>
      /\ \A i \in 1 .. Len(d) : d[i] = <<"data", s, 0 + (Len(c) + i)>>
  BY <1>2, <1>3, <1>4 DEF k
<1>7. Ahead(c, d, s, n + m)
  BY <1>3, <1>5, <1>6, CellsAhead
<1> QED
  BY <1>7 DEF d, x

\* Some of what is buffered is sent, or all of it.
LEMMA AheadSend ==
    ASSUME NEW s \in Streams, NEW n \in Nat, NEW c \in Seq(Cell), NEW b \in Seq(Cell),
           Ahead(c, b, s, n), NEW k \in 0 .. Len(b), NEW c2, Joins(c2, c, SubSeq(b, 1, k))
    PROVE  /\ c2 \in Seq(Cell) /\ Behind(c2, s, n)
           /\ k = Len(b) => Ahead(c2, <<>>, s, n)
<1> DEFINE y == SubSeq(b, 1, k)
           lc == Len(c)
           lb == Len(b)
<1>1. /\ lc + lb = n /\ lc \in Nat /\ lb \in Nat
      /\ \A i \in 1 .. lc : c[i] = <<"data", s, 0 + i>>
      /\ \A i \in 1 .. lb : b[i] = <<"data", s, 0 + (lc + i)>>
  BY AheadCells
<1>2. y \in Seq(Cell) /\ Len(y) = k /\ \A i \in 1 .. k : y[i] = b[i]
  <2>1. k \in Int /\ k <= Len(b) /\ 1 \in Nat \ {0}
    BY LenProperties
  <2>2. /\ y \in Seq(Cell) /\ Len(y) = IF 1 <= k THEN k - 1 + 1 ELSE 0
        /\ \A i \in 1 .. k - 1 + 1 : y[i] = b[1 + i - 1]
    BY <2>1, PartLemma
  <2> HIDE DEF y
  <2>3. k \in Nat
    BY LenProperties
  <2> QED
    BY <2>2, <2>3
<1>3. c2 = c \o y
  BY DEF Joins
<1>4. k \in 0 .. lb
  OBVIOUS
<1> HIDE DEF y
<1>5. /\ c2 \in Seq(Cell) /\ Len(c2) = lc + k
      /\ \A i \in 1 .. lc : c2[i] = c[i]
      /\ \A i \in 1 .. k : c2[lc + i] = y[i]
  <2> DEFINE d == c \o y
  <2>1. d \in Seq(Cell) /\ Concatenates(d, c, y)
    BY <1>2, ConcatCells
  <2> HIDE DEF d
  <2>2. c2 = d
    BY <1>3 DEF d
  <2> QED
    BY <1>2, <2>1, <2>2 DEF Concatenates
<1> HIDE DEF lc, lb
<1>6. \A i \in 1 .. lc + k : c2[i] = <<"data", s, 0 + i>>
  <2> SUFFICES ASSUME NEW i \in 1 .. lc + k PROVE c2[i] = <<"data", s, 0 + i>>
    OBVIOUS
  <2>1. CASE i <= lc
    BY <1>1, <1>4, <1>5, <2>1
  <2>2. CASE ~ (i <= lc)
    <3> DEFINE j == i - lc
    <3>1. j \in 1 .. k /\ j \in 1 .. lb /\ lc + j = i
      BY <1>1, <1>4, <2>2
    <3> HIDE DEF j
    <3>2. c2[lc + j] = y[j] /\ y[j] = b[j] /\ b[j] = <<"data", s, 0 + (lc + j)>>
      BY <1>1, <1>2, <1>5, <3>1
    <3> QED
      BY <3>1, <3>2
  <2> QED
    BY <2>1, <2>2
<1>7. lc + k \in Nat /\ lc + k <= n
  BY <1>1, <1>4
<1>8. c2 = Bytes(s, 0, lc + k)
  BY <1>5, <1>6, <1>7, BytesEqual
<1>9. Behind(c2, s, n)
  BY <1>5, <1>7, <1>8 DEF Behind
<1>10. ASSUME k = Len(b) PROVE Ahead(c2, <<>>, s, n)
  <2>1. lc + k = n
    BY <1>1, <1>10 DEF lb
  <2>2. c2 \o <<>> = c2
    BY <1>5, ConcatEmptySeq
  <2> QED
    BY <1>8, <2>1, <2>2 DEF Ahead
<1> QED
  BY <1>5, <1>9, <1>10

\* Nothing is buffered: all of it has been sent.
LEMMA AheadAll ==
    ASSUME NEW s \in Streams, NEW n \in Nat, NEW c \in Seq(Cell), Ahead(c, <<>>, s, n)
    PROVE  c = Bytes(s, 0, n) /\ Len(c) = n /\ Behind(c, s, n)
<1>1. c \o <<>> = c
  BY ConcatEmptySeq
<1>2. c = Bytes(s, 0, n)
  BY <1>1 DEF Ahead
<1>3. Len(c) = n
  BY <1>2, BytesAre
<1> QED
  BY <1>2, <1>3 DEF Behind

(***************************************************************************)
(* What the records on a connection are like when the current request is   *)
(* id, the streams in E are closed, and x says whether all of them are:    *)
(* nothing follows an end mark.                                            *)
(***************************************************************************)
RightCell(r, c) ==
    IF r.type = "end" THEN c[1] = "body" /\ c[2] = r.id
    ELSE c[1] = "data" /\ c[2] = r.type

Proper(r) ==
    /\ \A i \in 1 .. Len(r.content) : RightCell(r, r.content[i])
    /\ \A j \in 1 .. Len(r.padding) : r.padding[j] = <<"pad">>

Follows(q, r) ==
    /\ q.id <= r.id
    /\ \A s \in Streams : IsEof(q, s, q.id) => ~ (r.type = s /\ r.id = q.id)
    /\ IsEnd(q, q.id) => r.id > q.id

\* No record of request id of a stream that is open ends it.
Allowed(r, id, E, x) ==
    /\ r.id <= id
    /\ r.id = id => /\ \A s \in Streams : r.type = s /\ r.clen = 0 => s \in E
                    /\ r.type = "end" => x

Ordered(rs, id, E, x) ==
    /\ rs \in Seq(RecordType)
    /\ \A i \in 1 .. Len(rs) : Proper(rs[i])
    /\ \A i, j \in 1 .. Len(rs) : i < j => Follows(rs[i], rs[j])
    /\ \A i \in 1 .. Len(rs) : Allowed(rs[i], id, E, x)

HasEof(rs, s, id) == \E i \in 1 .. Len(rs) : IsEof(rs[i], s, id)

HasEnd(rs, id) == \E i \in 1 .. Len(rs) : IsEnd(rs[i], id)

\* One more record, of a stream that is open or the end of the request.
LEMMA AddsOrdered ==
    ASSUME NEW rs, NEW rs2, NEW r, NEW id \in Nat, NEW E, NEW x \in BOOLEAN,
           Ordered(rs, id, E, x), Adds(rs, rs2, r), Proper(r), r.id = id,
           r.type \notin E, ~ x
    PROVE  Ordered(rs2, id, E \cup (IF r.clen = 0 THEN {r.type} ELSE {}), x \/ r.type = "end")
<1> DEFINE n == Len(rs)
           E2 == E \cup (IF r.clen = 0 THEN {r.type} ELSE {})
           x2 == x \/ r.type = "end"
<1>1. /\ n \in Nat /\ rs \in Seq(RecordType) /\ rs2 \in Seq(RecordType) /\ Len(rs2) = n + 1
      /\ rs2[n + 1] = r /\ \A i \in 1 .. n : rs2[i] = rs[i]
  BY LenProperties DEF Adds, Ordered
<1>2. /\ \A i \in 1 .. n : Proper(rs[i]) /\ Allowed(rs[i], id, E, x) /\ rs[i] \in RecordType
      /\ \A i, j \in 1 .. n : i < j => Follows(rs[i], rs[j])
  BY <1>1, ElementOfSeq DEF Ordered
<1> HIDE DEF n
<1>3. \A i \in 1 .. n + 1 : i \in 1 .. n \/ i = n + 1
  BY <1>1
<1>4. Allowed(r, id, E2, x2)
  <2>1. r.id \in Nat
    BY DEF Adds, RecordType
  <2> QED
    BY <2>1 DEF Allowed
<1>5. ASSUME NEW q \in RecordType, Allowed(q, id, E, x)
      PROVE  Allowed(q, id, E2, x2) /\ Follows(q, r)
  <2>1. Allowed(q, id, E2, x2)
    BY <1>5 DEF Allowed
  <2>2. Follows(q, r)
    <3>1. CASE q.id = id
      BY <1>5, <3>1 DEF Allowed, Follows, IsEof, IsEnd
    <3>2. CASE q.id # id
      BY <1>5, <3>2 DEF Allowed, Follows, IsEof, IsEnd, RecordType
    <3> QED
      BY <3>1, <3>2
  <2> QED
    BY <2>1, <2>2
<1> HIDE DEF E2, x2
<1>6. \A i \in 1 .. n + 1 : Proper(rs2[i]) /\ Allowed(rs2[i], id, E2, x2)
  BY <1>1, <1>2, <1>3, <1>4, <1>5
<1>7. ASSUME NEW i \in 1 .. n + 1, NEW j \in 1 .. n + 1, i < j
      PROVE  Follows(rs2[i], rs2[j])
  <2>1. i \in 1 .. n
    BY <1>1, <1>7
  <2>2. CASE j = n + 1
    BY <1>1, <1>2, <1>5, <2>1, <2>2
  <2>3. CASE j \in 1 .. n
    BY <1>1, <1>2, <1>7, <2>1, <2>3
  <2> QED
    BY <1>3, <2>2, <2>3
<1>8. Ordered(rs2, id, E2, x2)
  BY <1>1, <1>6, <1>7 DEF Ordered
<1> QED
  BY <1>8 DEF E2, x2

\* More streams may have been closed.
LEMMA OrderedWeaker ==
    ASSUME NEW rs, NEW id, NEW E, NEW x \in BOOLEAN, NEW E2, NEW x2 \in BOOLEAN,
           E \subseteq E2, x => x2, Ordered(rs, id, E, x)
    PROVE  Ordered(rs, id, E2, x2)
<1>1. \A i \in 1 .. Len(rs) : Allowed(rs[i], id, E2, x2)
  BY DEF Ordered, Allowed
<1> QED
  BY <1>1 DEF Ordered

\* The next request on the same connection.
LEMMA OrderedNext ==
    ASSUME NEW rs, NEW id \in Nat, NEW E, NEW x \in BOOLEAN, Ordered(rs, id, E, x)
    PROVE  /\ Ordered(rs, id + 1, {}, FALSE)
           /\ \A i \in 1 .. Len(rs) : rs[i].id # id + 1
<1>1. ASSUME NEW i \in 1 .. Len(rs)
      PROVE  Allowed(rs[i], id + 1, {}, FALSE) /\ rs[i].id # id + 1
  <2>1. rs[i].id \in Nat /\ rs[i].id <= id
    <3>1. rs[i] \in RecordType
      BY ElementOfSeq DEF Ordered
    <3> QED
      BY <3>1 DEF Ordered, Allowed, RecordType
  <2>2. rs[i].id <= id + 1 /\ rs[i].id # id + 1
    BY <2>1
  <2> QED
    BY <2>2 DEF Allowed
<1> QED
  BY <1>1 DEF Ordered

(***************************************************************************)
(* rs2 is what rs has become after a record of type t for request id with  *)
(* this content was written, of which all has arrived if full.             *)
(***************************************************************************)
Told(rs, rs2, t, id, content, full) ==
    /\ rs \in Seq(RecordType)
    /\ \/ rs2 = rs /\ ~ full
       \/ \E r \in RecordType, k \in 0 .. Len(content) :
             /\ Adds(rs, rs2, r) /\ Proper(r)
             /\ r.type = t /\ r.id = id /\ r.clen = Len(content)
             /\ r.content = SubSeq(content, 1, k)
             /\ full => k = Len(content)

\* The cells are those of records of type t for request id.
RightContent(t, id, content) ==
    \A i \in 1 .. Len(content) : RightCell([type |-> t, id |-> id], content[i])

\* r has the fields of such a record, and some of its content or all of it.
PartShape(r, t, id, content, all) ==
    /\ r \in RecordType /\ Proper(r)
    /\ r.type = t /\ r.id = id /\ r.clen = Len(content)
    /\ \E k \in 0 .. Len(content) :
          r.content = SubSeq(content, 1, k) /\ (all => k = Len(content))

\* The record that is decoded of a part of what was written.
LEMMA PartRecord ==
    ASSUME NEW t, NEW id, NEW content, NEW l, Framed(t, id, content, l),
           RightContent(t, id, content),
           NEW n \in Nat, n >= 8
    PROVE  PartShape(PartOf(t, id, content, n), t, id, content, n >= 8 + Len(content))
<1> DEFINE c == Len(content)
           k == Smaller(n - 8, c)
           p == IF n > 8 + c THEN n - 8 - c ELSE 0
           part == SubSeq(content, 1, k)
           pad == Padding(p)
           r == [type |-> t, id |-> id, clen |-> c, content |-> part, padding |-> pad]
<1>1. r = PartOf(t, id, content, n)
  BY DEF PartOf
<1>2. /\ t \in Streams \cup {"end"} /\ id \in Nat /\ content \in Seq(Cell) /\ c \in Nat
  BY LenProperties DEF Framed
<1>3. \A i \in 1 .. c : RightCell([type |-> t, id |-> id], content[i])
  BY DEF RightContent
<1> HIDE DEF c
<1>4. k \in 0 .. c /\ k \in Nat /\ p \in Nat /\ (n >= 8 + c => k = c)
  BY <1>2 DEF Smaller
<1> HIDE DEF k, p
<1>5. part \in Seq(Cell) /\ Len(part) = k /\ \A i \in 1 .. k : part[i] = content[i]
  <2>1. k \in Int /\ k <= Len(content) /\ 1 \in Nat \ {0}
    BY <1>2, <1>4 DEF c
  <2>2. /\ part \in Seq(Cell) /\ Len(part) = IF 1 <= k THEN k - 1 + 1 ELSE 0
        /\ \A i \in 1 .. k - 1 + 1 : part[i] = content[1 + i - 1]
    BY <1>2, <2>1, PartLemma
  <2> HIDE DEF part
  <2> QED
    BY <1>4, <2>2
<1>6. pad \in Seq(Cell) /\ \A j \in 1 .. Len(pad) : pad[j] = <<"pad">>
  <2>1. pad \in Seq(Cell) /\ Len(pad) = p
    BY <1>4, FillerLemma, PlainCells
  <2>2. \A j \in 1 .. p : pad[j] = <<"pad">>
    BY DEF Padding
  <2> QED
    BY <2>1, <2>2
<1>7. r \in RecordType
  <2> HIDE DEF part, pad
  <2> QED
    BY <1>2, <1>5, <1>6 DEF RecordType
<1> DEFINE whole == part
<1>8. r.type = t /\ r.id = id /\ r.clen = c /\ r.content = part /\ r.padding = pad
  OBVIOUS
<1> HIDE DEF r, part, pad
<1>9. Proper(r)
  <2>1. \A i \in 1 .. Len(part) : RightCell(r, part[i])
    BY <1>2, <1>3, <1>4, <1>5, <1>8 DEF RightCell
  <2> QED
    BY <1>6, <1>8, <2>1 DEF Proper
<1>10. \E j \in 0 .. c : r.content = SubSeq(content, 1, j) /\ (n >= 8 + c => j = c)
  BY <1>4, <1>8 DEF part
<1> QED
  BY <1>1, <1>7, <1>8, <1>9, <1>10 DEF c, PartShape

\* The records of a connection are records.
LEMMA RecordsTyped ==
    ASSUME NEW w \in Seq(Cell)
    PROVE  Records(w) \in Seq(RecordType)
<1>1. PICK f : Decodes(w, f) /\ Records(w) = f[1]
  BY RecordsDecode
<1>2. 1 \in 1 .. Len(w) + 1
  BY LenProperties
<1> QED
  BY <1>1, <1>2, DecodesTyped

\* n2 is connection n after a record was written, as far as there was room.
Wrote(n, n2, t, id, content, l) ==
    /\ NetOK(n2) /\ n2.open = n.open /\ n2.room <= n.room
    /\ n.room = 0 => n2 = n
    /\ Told(Records(n.wire), Records(n2.wire), t, id, content,
            n2.room > 0 \/ Len(Rec(t, id, content, l)) <= n.room)

\* One record more on the connection is one record more, or none.
LEMMA ToldLemma ==
    ASSUME NEW n, NetOK(n), NEW t, NEW id, NEW content, NEW l,
           Framed(t, id, content, l), ~ Transient,
           n.room > 0 => RightContent(t, id, content)
    PROVE  Wrote(n, WriteItAll(n, Rec(t, id, content, l)), t, id, content, l)
<1> DEFINE Rd == Rec(t, id, content, l)
           n2 == WriteItAll(n, Rd)
           rs == Records(n.wire)
           rs2 == Records(n2.wire)
           full == n2.room > 0 \/ Len(Rd) <= n.room
           c == Len(content)
<1>1. Fed(n, rs, n2, rs2, t, id, content, l)
  BY FeedLemma
<1>2. rs \in Seq(RecordType) /\ rs2 \in Seq(RecordType)
  <2>1. n.wire \in Seq(Cell)
    BY DEF NetOK, NetType
  <2>2. n2.wire \in Seq(Cell)
    BY <1>1 DEF Fed, NetOK, NetType
  <2> HIDE DEF n2
  <2> QED
    BY <2>1, <2>2, RecordsTyped
<1>3. Len(Rd) >= 8 + c /\ Len(Rd) \in Nat /\ Len(Rd) >= 8
  <2>1. RecordShape(Rd, t, id, content, c, l)
    BY RecordCells
  <2> HIDE DEF Rd, c
  <2>2. Len(Rd) = 8 + c + l /\ c \in Nat /\ l \in Nat
    BY <2>1 DEF RecordShape
  <2> QED
    BY <2>2
<1>4. n.room \in Nat /\ n2.room \in Nat
  <2>1. n2 \in NetType
    BY <1>1 DEF Fed, NetOK
  <2> HIDE DEF n2
  <2> QED
    BY <2>1 DEF NetOK, NetType
<1> HIDE DEF n2, rs, rs2
<1>5. /\ NetOK(n2) /\ n2.open = n.open /\ n2.room <= n.room
      /\ n.room = 0 => n2 = n
  BY <1>1 DEF Fed
<1>6. ASSUME NEW m \in Nat, m >= 8, rs2 = rs \o <<PartOf(t, id, content, m)>>, n.room > 0,
             full => m >= 8 + c
      PROVE  Told(rs, rs2, t, id, content, full)
  <2> DEFINE r == PartOf(t, id, content, m)
  <2>0. RightContent(t, id, content)
    BY <1>6
  <2>1. /\ r \in RecordType /\ Proper(r)
        /\ r.type = t /\ r.id = id /\ r.clen = c
        /\ \E k \in 0 .. c :
              /\ r.content = SubSeq(content, 1, k)
              /\ m >= 8 + c => k = c
    <3>1. PartShape(r, t, id, content, m >= 8 + c)
      BY <1>6, <2>0, PartRecord
    <3> HIDE DEF r, c
    <3> QED
      BY <3>1 DEF PartShape, c
  <2> HIDE DEF r
  <2>2. rs2 = rs \o <<r>>
    BY <1>6 DEF r
  <2>3. Adds(rs, rs2, r)
    <3> DEFINE one == <<r>>
    <3>1. one \in Seq(RecordType) /\ Len(one) = 1 /\ one[1] = r
      BY <2>1
    <3> HIDE DEF one
    <3>2. Concatenates(rs \o one, rs, one)
      BY <1>2, <3>1, ConcatCells
    <3>3. Concatenates(rs2, rs, one)
      BY <2>2, <3>2 DEF one
    <3> QED
      BY <1>2, <2>1, <3>1, <3>3 DEF Concatenates, Adds
  <2> HIDE DEF full
  <2> QED
    BY <1>2, <1>6, <2>1, <2>3 DEF Told
<1>7. ASSUME full PROVE Told(rs, rs2, t, id, content, full)
  <2>1. rs2 = rs \o <<PartOf(t, id, content, Len(Rd))>> /\ n.room > 0
    BY <1>1, <1>7 DEF Fed
  <2> QED
    BY <1>3, <1>6, <2>1
<1>8. ASSUME ~ full PROVE Told(rs, rs2, t, id, content, full)
  <2>1. CASE rs2 = rs
    BY <1>2, <1>8, <2>1 DEF Told
  <2>2. CASE \E m \in 8 .. Len(Rd) : rs2 = rs \o <<PartOf(t, id, content, m)>> /\ n.room > 0
    <3>1. PICK m \in 8 .. Len(Rd) : rs2 = rs \o <<PartOf(t, id, content, m)>> /\ n.room > 0
      BY <2>2
    <3>2. m \in Nat /\ m >= 8
      BY <1>3
    <3> QED
      BY <1>6, <1>8, <3>1, <3>2
  <2> QED
    BY <1>1, <2>1, <2>2 DEF Fed
<1>9. Told(rs, rs2, t, id, content, full)
  BY <1>7, <1>8
<1> QED
  BY <1>5, <1>9 DEF n2, rs, rs2, Wrote

\* rs2 is rs and maybe more records of request id.
Grows(rs, rs2, id) ==
    /\ rs \in Seq(RecordType) /\ rs2 \in Seq(RecordType)
    /\ Len(rs) <= Len(rs2)
    /\ \A i \in 1 .. Len(rs) : rs2[i] = rs[i]
    /\ \A i \in 1 .. Len(rs2) : i > Len(rs) => rs2[i].id = id

\* The FCGI_END_REQUEST of request id carries status v.
EndsSay(rs, id, v) == \A i \in 1 .. Len(rs) : IsEnd(rs[i], id) => rs[i].content[1][3] = v

\* Growing twice is growing.
LEMMA GrowsOn ==
    ASSUME NEW a, NEW b, NEW c, NEW id, Grows(a, b, id), Grows(b, c, id)
    PROVE  Grows(a, c, id)
<1> DEFINE l == Len(a)
           m == Len(b)
           n == Len(c)
<1>1. l \in Nat /\ m \in Nat /\ n \in Nat /\ l <= m /\ m <= n
  BY LenProperties DEF Grows
<1>2. /\ a \in Seq(RecordType) /\ c \in Seq(RecordType)
      /\ \A i \in 1 .. l : b[i] = a[i]
      /\ \A i \in 1 .. m : c[i] = b[i]
      /\ \A i \in 1 .. m : i > l => b[i].id = id
      /\ \A i \in 1 .. n : i > m => c[i].id = id
  BY DEF Grows
<1> HIDE DEF l, m, n
<1>3. \A i \in 1 .. l : c[i] = a[i]
  BY <1>1, <1>2
<1>4. \A i \in 1 .. n : i > l => c[i].id = id
  <2> SUFFICES ASSUME NEW i \in 1 .. n, i > l PROVE c[i].id = id
    OBVIOUS
  <2>1. CASE i > m
    BY <1>2, <2>1
  <2>2. CASE ~ (i > m)
    <3>1. i \in 1 .. m
      BY <1>1, <2>2
    <3> QED
      BY <1>2, <3>1
  <2> QED
    BY <2>1, <2>2
<1>5. l <= n
  BY <1>1
<1> QED
  BY <1>2, <1>3, <1>4, <1>5 DEF Grows, l, n

\* What the server has seen it does not unsee.
LEMMA GrowsMarks ==
    ASSUME NEW rs, NEW rs2, NEW id, Grows(rs, rs2, id), NEW s, NEW j
    PROVE  /\ HasEof(rs, s, j) => HasEof(rs2, s, j)
           /\ HasEnd(rs, j) => HasEnd(rs2, j)
<1>1. \A i \in 1 .. Len(rs) : i \in 1 .. Len(rs2) /\ rs2[i] = rs[i]
  <2>1. Len(rs) \in Nat /\ Len(rs2) \in Nat /\ Len(rs) <= Len(rs2)
    BY LenProperties DEF Grows
  <2> QED
    BY <2>1 DEF Grows
<1> QED
  BY <1>1 DEF HasEof, HasEnd

\* A new record at the end.
LEMMA AddsGrows ==
    ASSUME NEW rs \in Seq(RecordType), NEW rs2, NEW r, Adds(rs, rs2, r)
    PROVE  /\ Grows(rs, rs2, r.id) /\ Len(rs2) > Len(rs)
           /\ Len(rs2) \in 1 .. Len(rs2) /\ rs2[Len(rs2)] = r
           /\ \A i \in 1 .. Len(rs2) : (i \in 1 .. Len(rs) /\ rs2[i] = rs[i]) \/ rs2[i] = r
<1> DEFINE n == Len(rs)
           m == Len(rs2)
<1>1. /\ n \in Nat /\ m = n + 1 /\ rs2 \in Seq(RecordType)
      /\ \A i \in 1 .. n : rs2[i] = rs[i]
      /\ rs2[n + 1] = r
  BY LenProperties DEF Adds
<1> HIDE DEF n, m
<1>2. /\ n <= m /\ m > n /\ m \in 1 .. m
      /\ \A i \in 1 .. m : i \in 1 .. n \/ i = n + 1
      /\ \A i \in 1 .. m : i > n => i = n + 1
  BY <1>1
<1>3. /\ \A i \in 1 .. m : (i \in 1 .. n /\ rs2[i] = rs[i]) \/ rs2[i] = r
      /\ \A i \in 1 .. m : i > n => rs2[i].id = r.id
  BY <1>1, <1>2
<1> QED
  BY <1>1, <1>2, <1>3 DEF Grows, n, m

\* Nothing was added.
LEMMA GrowsSame ==
    ASSUME NEW rs \in Seq(RecordType), NEW id
    PROVE  Grows(rs, rs, id)
BY LenProperties DEF Grows

(***************************************************************************)
(* What follows from Told                                                  *)
(***************************************************************************)

\* A record that was written is added behind the others, or nothing is.
LEMMA ToldGrows ==
    ASSUME NEW rs, NEW rs2, NEW t, NEW id, NEW content, NEW full \in BOOLEAN,
           Told(rs, rs2, t, id, content, full)
    PROVE  Grows(rs, rs2, id)
<1>1. CASE rs2 = rs
  BY <1>1, GrowsSame DEF Told
<1>2. CASE rs2 # rs
  <2>1. PICK r \in RecordType : Adds(rs, rs2, r) /\ r.id = id
    BY <1>2 DEF Told
  <2> QED
    BY <2>1, AddsGrows DEF Told
<1> QED
  BY <1>1, <1>2

\* A record that may follow keeps the order of the records.
LEMMA ToldOrdered ==
    ASSUME NEW rs, NEW rs2, NEW t, NEW id \in Nat, NEW content \in Seq(Cell),
           NEW full \in BOOLEAN, Told(rs, rs2, t, id, content, full),
           NEW E, NEW x \in BOOLEAN, Ordered(rs, id, E, x), t \notin E, ~ x,
           NEW E2, NEW x2 \in BOOLEAN, E \subseteq E2, content = <<>> => t \in E2,
           t = "end" => x2
    PROVE  Ordered(rs2, id, E2, x2)
<1>1. CASE rs2 = rs
  BY <1>1, OrderedWeaker
<1>2. CASE rs2 # rs
  <2>1. PICK r \in RecordType : /\ Adds(rs, rs2, r) /\ Proper(r)
                                /\ r.type = t /\ r.id = id /\ r.clen = Len(content)
    BY <1>2 DEF Told
  <2> DEFINE E3 == E \cup (IF r.clen = 0 THEN {r.type} ELSE {})
             x3 == x \/ r.type = "end"
  <2>2. Ordered(rs2, id, E3, x3)
    BY <2>1, AddsOrdered
  <2>3. r.clen = 0 => content = <<>>
    BY <2>1, EmptySeq
  <2>4. E3 \subseteq E2 /\ (x3 => x2) /\ x3 \in BOOLEAN
    BY <2>1, <2>3
  <2> HIDE DEF E3, x3
  <2> QED
    BY <2>2, <2>4, OrderedWeaker
<1> QED
  BY <1>1, <1>2

\* The content of the other streams stays, that of t gets some of the record's.
Carried(rs, rs2, t, id, content, full) ==
    /\ \A s : s # t => Content(rs2, s, id) = Content(rs, s, id)
    /\ Content(rs, t, id) \in Seq(Cell)
    /\ \E k \in 0 .. Len(content) :
          /\ Joins(Content(rs2, t, id), Content(rs, t, id), SubSeq(content, 1, k))
          /\ full => k = Len(content)

\* What a record that was written adds to the content of its stream.
LEMMA ToldContent ==
    ASSUME NEW rs, NEW rs2, NEW t, NEW id, NEW content \in Seq(Cell),
           NEW full \in BOOLEAN, Told(rs, rs2, t, id, content, full)
    PROVE  Carried(rs, rs2, t, id, content, full)
<1> SUFFICES
      /\ \A s : s # t => Content(rs2, s, id) = Content(rs, s, id)
      /\ Content(rs, t, id) \in Seq(Cell)
      /\ \E k \in 0 .. Len(content) :
            /\ Joins(Content(rs2, t, id), Content(rs, t, id), SubSeq(content, 1, k))
            /\ full => k = Len(content)
  BY DEF Carried
<1>1. rs \in Seq(RecordType) /\ Content(rs, t, id) \in Seq(Cell)
  <2>1. rs \in Seq(RecordType)
    BY DEF Told
  <2>2. PICK f : Collected(f, rs, t, id, Len(rs))
    BY <2>1, CollectedExist
  <2> QED
    BY <2>1, <2>2, ContentIs
<1>2. CASE rs2 = rs /\ ~ full
  <2>1. 0 \in 0 .. Len(content) /\ SubSeq(content, 1, 0) = <<>>
    BY LenProperties, SubSeqEmpty
  <2>2. Content(rs, t, id) \o <<>> = Content(rs, t, id)
    BY <1>1, ConcatEmptySeq
  <2>3. Joins(Content(rs2, t, id), Content(rs, t, id), SubSeq(content, 1, 0))
    BY <1>2, <2>1, <2>2 DEF Joins
  <2> QED
    BY <1>1, <1>2, <2>1, <2>3
<1>3. CASE ~ (rs2 = rs /\ ~ full)
  <2>1. PICK r \in RecordType, k \in 0 .. Len(content) :
             /\ Adds(rs, rs2, r)
             /\ r.type = t /\ r.id = id
             /\ r.content = SubSeq(content, 1, k)
             /\ full => k = Len(content)
    BY <1>3 DEF Told
  <2>2. Joins(Content(rs2, t, id), Content(rs, t, id), SubSeq(content, 1, k))
    <3>1. PartFor(r, t, id) = SubSeq(content, 1, k)
      BY <2>1 DEF PartFor
    <3>2. Joins(Content(rs2, t, id), Content(rs, t, id), PartFor(r, t, id))
      BY <1>1, <2>1, AddsContent
    <3> QED
      BY <3>1, <3>2
  <2>3. ASSUME NEW s, s # t PROVE Content(rs2, s, id) = Content(rs, s, id)
    <3>1. PartFor(r, s, id) = <<>>
      BY <2>1, <2>3 DEF PartFor
    <3>2. /\ Joins(Content(rs2, s, id), Content(rs, s, id), PartFor(r, s, id))
          /\ Content(rs, s, id) \in Seq(Cell)
      BY <1>1, <2>1, AddsContent
    <3>3. Content(rs, s, id) \o <<>> = Content(rs, s, id)
      BY <3>2, ConcatEmptySeq
    <3> QED
      BY <3>1, <3>2, <3>3 DEF Joins
  <2> QED
    BY <1>1, <2>1, <2>2, <2>3
<1> QED
  BY <1>2, <1>3

\* An end mark that has arrived.
Marked(rs, rs2, t, id, content, full) ==
    /\ full /\ content = <<>> => HasEof(rs2, t, id)
    /\ full /\ t = "end" /\ Len(content) = 8 => HasEnd(rs2, id)
    /\ t # "end" /\ HasEnd(rs2, id) => HasEnd(rs, id)
    /\ t # "end" => \A v : EndsSay(rs, id, v) => EndsSay(rs2, id, v)

\* What a record that was written adds to the end marks.
LEMMA ToldMarks ==
    ASSUME NEW rs, NEW rs2, NEW t, NEW id, NEW content \in Seq(Cell),
           NEW full \in BOOLEAN, Told(rs, rs2, t, id, content, full)
    PROVE  Marked(rs, rs2, t, id, content, full)
<1> SUFFICES
      /\ full /\ content = <<>> => HasEof(rs2, t, id)
      /\ full /\ t = "end" /\ Len(content) = 8 => HasEnd(rs2, id)
      /\ t # "end" /\ HasEnd(rs2, id) => HasEnd(rs, id)
      /\ t # "end" => \A v : EndsSay(rs, id, v) => EndsSay(rs2, id, v)
  BY DEF Marked
<1>1. CASE rs2 = rs /\ ~ full
  BY <1>1
<1>2. CASE ~ (rs2 = rs /\ ~ full)
  <2>1. PICK r \in RecordType, k \in 0 .. Len(content) :
             /\ Adds(rs, rs2, r)
             /\ r.type = t /\ r.id = id /\ r.clen = Len(content)
             /\ r.content = SubSeq(content, 1, k)
             /\ full => k = Len(content)
    BY <1>2 DEF Told
  <2>2. /\ Len(rs2) \in 1 .. Len(rs2) /\ rs2[Len(rs2)] = r
        /\ \A i \in 1 .. Len(rs2) : (i \in 1 .. Len(rs) /\ rs2[i] = rs[i]) \/ rs2[i] = r
    BY <2>1, AddsGrows DEF Told
  <2>3. ASSUME full, content = <<>> PROVE HasEof(rs2, t, id)
    <3>1. IsEof(r, t, id)
      BY <2>1, <2>3, EmptySeq DEF IsEof
    <3> QED
      BY <2>2, <3>1 DEF HasEof
  <2>4. ASSUME full, t = "end", Len(content) = 8 PROVE HasEnd(rs2, id)
    <3>1. r.content = content
      BY <2>1, <2>4, SubSeqFull
    <3>2. IsEnd(r, id)
      BY <2>1, <2>4, <3>1 DEF IsEnd
    <3> QED
      BY <2>2, <3>2 DEF HasEnd
  <2>5. t # "end" => ~ IsEnd(r, id)
    BY <2>1 DEF IsEnd
  <2> QED
    BY <2>2, <2>3, <2>4, <2>5 DEF HasEnd, EndsSay
<1> QED
  BY <1>1, <1>2

\* The status is that of the body that was written.
LEMMA ToldStatus ==
    ASSUME NEW rs, NEW rs2, NEW id, NEW content \in Seq(Cell),
           NEW full \in BOOLEAN, Told(rs, rs2, "end", id, content, full),
           NEW v, EndsSay(rs, id, v), content[1][3] = v
    PROVE  EndsSay(rs2, id, v)
<1>1. CASE rs2 = rs /\ ~ full
  BY <1>1
<1>2. CASE ~ (rs2 = rs /\ ~ full)
  <2>1. PICK r \in RecordType, k \in 0 .. Len(content) :
             /\ Adds(rs, rs2, r) /\ r.content = SubSeq(content, 1, k)
    BY <1>2 DEF Told
  <2>2. \A i \in 1 .. Len(rs2) : (i \in 1 .. Len(rs) /\ rs2[i] = rs[i]) \/ rs2[i] = r
    BY <2>1, AddsGrows DEF Told
  <2>3. IsEnd(r, id) => r.content[1][3] = v
    <3> SUFFICES ASSUME IsEnd(r, id) PROVE r.content[1] = content[1]
      OBVIOUS
    <3> DEFINE x == SubSeq(content, 1, k)
    <3>1. k \in Int /\ k <= Len(content) /\ 1 \in Nat \ {0} /\ k \in Nat
      BY LenProperties
    <3>2. /\ Len(x) = IF 1 <= k THEN k - 1 + 1 ELSE 0
          /\ \A i \in 1 .. k - 1 + 1 : x[i] = content[1 + i - 1]
      BY <3>1, PartLemma
    <3>3. Len(x) = 8
      BY <2>1 DEF IsEnd
    <3> HIDE DEF x
    <3>4. k = 8
      <4> DEFINE n == Len(x)
      <4>1. n = (IF 1 <= k THEN k - 1 + 1 ELSE 0) /\ n = 8
        BY <3>2, <3>3
      <4>2. k \in Nat
        BY <3>1
      <4> HIDE DEF n
      <4> QED
        BY <4>1, <4>2
    <3>5. x[1] = content[1]
      BY <3>2, <3>4
    <3> QED
      BY <2>1, <3>5 DEF x
  <2> QED
    BY <2>2, <2>3 DEF EndsSay
<1> QED
  BY <1>1, <1>2

(***************************************************************************)
(* What an operation on stream s leaves of connection n and its records.   *)
(***************************************************************************)

\* Nothing but end marks was sent.
Marks(n, n2, id) ==
    /\ NetOK(n2) /\ n2.open = n.open /\ n2.room <= n.room
    /\ n.room = 0 => n2 = n
    /\ Grows(Records(n.wire), Records(n2.wire), id)
    /\ \A u \in Streams : Content(Records(n2.wire), u, id) = Content(Records(n.wire), u, id)

\* Some of b was sent on stream s, or all of it.
Carries(n, n2, s, id, b, all) ==
    /\ NetOK(n2) /\ n2.open = n.open /\ n2.room <= n.room
    /\ n.room = 0 => n2 = n
    /\ Grows(Records(n.wire), Records(n2.wire), id)
    /\ \A u \in Streams : u # s =>
          Content(Records(n2.wire), u, id) = Content(Records(n.wire), u, id)
    /\ Content(Records(n.wire), s, id) \in Seq(Cell)
    /\ \E k \in 0 .. Len(b) :
          /\ Joins(Content(Records(n2.wire), s, id), Content(Records(n.wire), s, id),
                   SubSeq(b, 1, k))
          /\ all => k = Len(b)

\* No FCGI_END_REQUEST has been added.
NoEnd(n, n2, id) ==
    /\ HasEnd(Records(n2.wire), id) => HasEnd(Records(n.wire), id)
    /\ \A v : EndsSay(Records(n.wire), id, v) => EndsSay(Records(n2.wire), id, v)

Took(n, n2, x) == n2.room > 0 \/ Len(x) <= n.room

\* Nothing was sent.
LEMMA NothingSent ==
    ASSUME NEW n, NetOK(n), NEW id
    PROVE  Marks(n, n, id) /\ NoEnd(n, n, id) /\ n.room \in Nat
<1>1. n.wire \in Seq(Cell) /\ n.room \in Nat
  BY DEF NetOK, NetType
<1>2. Grows(Records(n.wire), Records(n.wire), id)
  BY <1>1, RecordsTyped, GrowsSame
<1> QED
  BY <1>1, <1>2 DEF Marks, NoEnd

\* A record without content, or of no stream.
LEMMA MarkSent ==
    ASSUME NEW n, NetOK(n), NEW t, NEW id, NEW content \in Seq(Cell), NEW l,
           Framed(t, id, content, l), ~ Transient,
           RightContent(t, id, content), content = <<>> \/ t \notin Streams
    PROVE  Marks(n, WriteItAll(n, Rec(t, id, content, l)), id)
<1> DEFINE Rd == Rec(t, id, content, l)
           n2 == WriteItAll(n, Rd)
           rs == Records(n.wire)
           rs2 == Records(n2.wire)
           full == n2.room > 0 \/ Len(Rd) <= n.room
<1>1. Wrote(n, n2, t, id, content, l)
  BY ToldLemma
<1> HIDE DEF n2
<1>2. /\ NetOK(n2) /\ n2.open = n.open /\ n2.room <= n.room
      /\ n.room = 0 => n2 = n
      /\ Told(rs, rs2, t, id, content, full)
  BY <1>1 DEF Wrote
<1>3. full \in BOOLEAN
  OBVIOUS
<1> HIDE DEF rs, rs2, full
<1>4. Grows(rs, rs2, id)
  BY <1>2, <1>3, ToldGrows
<1>5. /\ \A u : u # t => Content(rs2, u, id) = Content(rs, u, id)
      /\ Content(rs, t, id) \in Seq(Cell)
      /\ \E k \in 0 .. Len(content) :
                Joins(Content(rs2, t, id), Content(rs, t, id), SubSeq(content, 1, k))
  <2>1. Carried(rs, rs2, t, id, content, full)
    BY <1>2, <1>3, ToldContent
  <2> QED
    BY <2>1 DEF Carried
<1>6. content = <<>> => Content(rs2, t, id) = Content(rs, t, id)
  <2> SUFFICES ASSUME content = <<>> PROVE Content(rs2, t, id) = Content(rs, t, id)
    OBVIOUS
  <2>1. PICK k \in 0 .. Len(content) :
                Joins(Content(rs2, t, id), Content(rs, t, id), SubSeq(content, 1, k))
    BY <1>5
  <2>2. k = 0
    <3>1. Len(content) = 0
      BY EmptySeq
    <3> QED
      BY <3>1
  <2>3. SubSeq(content, 1, 0) = <<>>
    BY SubSeqEmpty
  <2>4. Content(rs, t, id) \o <<>> = Content(rs, t, id)
    BY <1>5, ConcatEmptySeq
  <2> QED
    BY <2>1, <2>2, <2>3, <2>4 DEF Joins
<1>7. \A u \in Streams : Content(rs2, u, id) = Content(rs, u, id)
  BY <1>5, <1>6
<1> QED
  BY <1>2, <1>4, <1>7 DEF Marks, rs, rs2, n2

\* First the content.
LEMMA ContentSent ==
    ASSUME NEW w \in Worlds(Cell), Collecting(w.st), ~ Transient, NetOK(w.net),
           NEW s \in Streams, w.st.type = s, NEW id \in Nat, w.req.requestId = id,
           w.net.room > 0 => RightContent(s, id, BufferedOf(w.st)),
           NEW E, NEW x \in BOOLEAN, Ordered(Records(w.net.wire), id, E, x), s \notin E, ~ x
    PROVE  LET n1 == WriteItAll(w.net, ContentRecord(w))
           IN  /\ Carries(w.net, n1, s, id, BufferedOf(w.st), Took(w.net, n1, ContentRecord(w)))
               /\ Ordered(Records(n1.wire), id, E, x)
               /\ NoEnd(w.net, n1, id)
<1> DEFINE n == w.net
           b == BufferedOf(w.st)
           Rd == Rec(s, id, b, Pad(b))
           n1 == WriteItAll(n, ContentRecord(w))
           all == Took(n, n1, ContentRecord(w))
           rs == Records(n.wire)
           rs1 == Records(n1.wire)
<1>1. /\ b \in Seq(Cell) /\ ContentRecord(w) \in Seq(Cell)
      /\ b # <<>> => Framed(s, id, b, Pad(b))
  BY EncapsulateIs
<1>2. ContentRecord(w) = IF b = <<>> THEN <<>> ELSE Rd
  BY DEF ContentRecord
<1> SUFFICES Carries(n, n1, s, id, b, all) /\ Ordered(rs1, id, E, x) /\ NoEnd(n, n1, id)
  OBVIOUS
<1>3. n \in NetType
  BY DEF NetOK
<1> HIDE DEF b, Rd
<1>4. CASE b = <<>>
  <2>1. n1 = n
    BY <1>1, <1>2, <1>3, <1>4, WriteNothing
  <2> HIDE DEF n1
  <2>2. Marks(n, n, id) /\ NoEnd(n, n, id)
    BY NothingSent
  <2>3. Content(rs, s, id) \in Seq(Cell)
    <3>1. rs \in Seq(RecordType)
      BY DEF Ordered
    <3>2. PICK f : Collected(f, rs, s, id, Len(rs))
      BY <3>1, CollectedExist
    <3> QED
      BY <3>1, <3>2, ContentIs
  <2>4. /\ 0 \in 0 .. Len(b) /\ Len(b) = 0 /\ SubSeq(b, 1, 0) = <<>>
        /\ Content(rs, s, id) \o <<>> = Content(rs, s, id)
    BY <1>1, <1>4, <2>3, EmptySeq, SubSeqEmpty, ConcatEmptySeq
  <2>5. Joins(Content(rs, s, id), Content(rs, s, id), SubSeq(b, 1, 0))
    BY <2>4 DEF Joins
  <2> HIDE DEF all
  <2>6. Carries(n, n, s, id, b, all)
    BY <2>2, <2>3, <2>4, <2>5 DEF Carries, Marks
  <2> QED
    BY <2>1, <2>2, <2>6
<1>5. CASE b # <<>>
  <2> DEFINE full == n1.room > 0 \/ Len(Rd) <= n.room
  <2>1. n1 = WriteItAll(n, Rd) /\ all = Took(n, n1, Rd)
    BY <1>2, <1>5
  <2>2. Wrote(n, n1, s, id, b, Pad(b))
    BY <1>1, <1>5, <2>1, ToldLemma DEF Rd, b
  <2> HIDE DEF n1
  <2>3. /\ NetOK(n1) /\ n1.open = n.open /\ n1.room <= n.room
        /\ n.room = 0 => n1 = n
        /\ Told(rs, rs1, s, id, b, full)
    BY <2>2 DEF Wrote, Rd
  <2>4. full \in BOOLEAN /\ (all <=> full)
    BY <2>1 DEF Took
  <2> HIDE DEF full, rs, rs1, all
  <2>5. Grows(rs, rs1, id)
    BY <2>3, <2>4, ToldGrows
  <2>6. /\ \A u : u # s => Content(rs1, u, id) = Content(rs, u, id)
        /\ Content(rs, s, id) \in Seq(Cell)
        /\ \E k \in 0 .. Len(b) :
                /\ Joins(Content(rs1, s, id), Content(rs, s, id), SubSeq(b, 1, k))
                /\ full => k = Len(b)
    <3>1. Carried(rs, rs1, s, id, b, full)
      BY <1>1, <2>3, <2>4, ToldContent
    <3> QED
      BY <3>1 DEF Carried
  <2>7. /\ HasEnd(rs1, id) => HasEnd(rs, id)
        /\ \A v : EndsSay(rs, id, v) => EndsSay(rs1, id, v)
    <3>1. s # "end"
      BY DEF Streams
    <3>2. Marked(rs, rs1, s, id, b, full)
      BY <1>1, <2>3, <2>4, ToldMarks
    <3> QED
      BY <3>1, <3>2 DEF Marked
  <2>8. Ordered(rs1, id, E, x)
    <3>1. Ordered(rs, id, E, x)
      BY DEF rs
    <3>2. s # "end"
      BY DEF Streams
    <3> QED
      BY <1>1, <1>5, <2>3, <2>4, <3>1, <3>2, ToldOrdered
  <2> QED
    BY <2>3, <2>4, <2>5, <2>6, <2>7, <2>8 DEF Carries, NoEnd, rs, rs1
<1> QED
  BY <1>4, <1>5

\* Then the end mark of the stream.
LEMMA EofSent ==
    ASSUME NEW w, ~ Transient, NEW n, NetOK(n),
           NEW s \in Streams, w.st.type = s, NEW id \in Nat, w.req.requestId = id,
           NEW E, NEW x \in BOOLEAN, Ordered(Records(n.wire), id, E, x), s \notin E, ~ x
    PROVE  LET n2 == WriteItAll(n, EofRecord(w))
           IN  /\ Marks(n, n2, id)
               /\ Ordered(Records(n2.wire), id, E \cup {s}, x)
               /\ NoEnd(n, n2, id)
               /\ Took(n, n2, EofRecord(w)) =>
                    \/ HasEof(Records(n2.wire), s, id)
                    \/ s = "err" /\ ContentRecord(w) = <<>> /\ ~ w.st.isAnythingWritten
<1> DEFINE Rd == Rec(s, id, <<>>, 0)
           n2 == WriteItAll(n, EofRecord(w))
           rs == Records(n.wire)
           rs2 == Records(n2.wire)
           none == s = "err" /\ ContentRecord(w) = <<>> /\ ~ w.st.isAnythingWritten
<1> SUFFICES /\ Marks(n, n2, id) /\ Ordered(rs2, id, E \cup {s}, x) /\ NoEnd(n, n2, id)
             /\ Took(n, n2, EofRecord(w)) => HasEof(rs2, s, id) \/ none
  OBVIOUS
<1>1. EofRecord(w) = IF none THEN <<>> ELSE Rd
  BY DEF EofRecord
<1>2. n \in NetType /\ Ordered(rs, id, E, x)
  BY DEF NetOK
<1>3. CASE none
  <2>1. n2 = n
    BY <1>1, <1>2, <1>3, EmptySeq, WriteNothing
  <2> HIDE DEF n2
  <2>2. Marks(n, n, id) /\ NoEnd(n, n, id)
    BY NothingSent
  <2>3. Ordered(rs, id, E \cup {s}, x)
    BY <1>2, OrderedWeaker
  <2> QED
    BY <1>3, <2>1, <2>2, <2>3
<1>4. CASE ~ none
  <2> DEFINE full == n2.room > 0 \/ Len(Rd) <= n.room
  <2>1. EofRecord(w) = Rd /\ n2 = WriteItAll(n, Rd)
    BY <1>1, <1>4
  <2>2. Framed(s, id, <<>>, 0) /\ <<>> \in Seq(Cell) /\ RightContent(s, id, <<>>)
    <3>1. Framed(s, id, <<>>, 0)
      BY EofIsRecord
    <3>2. RightContent(s, id, <<>>)
      BY EmptySeq DEF RightContent
    <3> QED
      BY <3>1, <3>2, EmptySeq
  <2>3. Marks(n, n2, id)
    BY <2>1, <2>2, MarkSent
  <2>4. Wrote(n, n2, s, id, <<>>, 0)
    BY <2>1, <2>2, ToldLemma
  <2> HIDE DEF n2
  <2>5. Told(rs, rs2, s, id, <<>>, full) /\ full \in BOOLEAN
    BY <2>4 DEF Wrote
  <2>6. Took(n, n2, EofRecord(w)) <=> full
    BY <2>1 DEF Took
  <2> HIDE DEF full, rs, rs2
  <2>7. /\ full => HasEof(rs2, s, id)
        /\ HasEnd(rs2, id) => HasEnd(rs, id)
        /\ \A v : EndsSay(rs, id, v) => EndsSay(rs2, id, v)
    <3>1. s # "end"
      BY DEF Streams
    <3>2. <<>> \in Seq(Cell)
      BY <2>2
    <3>3. Marked(rs, rs2, s, id, <<>>, full)
      BY <2>5, <3>2, ToldMarks
    <3> QED
      BY <3>1, <3>3 DEF Marked
  <2>8. Ordered(rs2, id, E \cup {s}, x)
    <3> DEFINE none2 == <<>>
               E2 == E \cup {s}
    <3>1. E \subseteq E2 /\ (none2 = <<>> => s \in E2) /\ (s = "end" => x)
      BY DEF Streams
    <3>2. Ordered(rs, id, E, x)
      BY <1>2 DEF rs
    <3>3. Told(rs, rs2, s, id, none2, full) /\ full \in BOOLEAN /\ none2 \in Seq(Cell)
      BY <2>2, <2>5
    <3> HIDE DEF none2, E2
    <3>4. Ordered(rs2, id, E2, x)
      BY <3>1, <3>2, <3>3, ToldOrdered
    <3> QED
      BY <3>4 DEF E2
  <2> QED
    BY <2>3, <2>6, <2>7, <2>8 DEF NoEnd, rs, rs2
<1> QED
  BY <1>3, <1>4

\* Then the end of the request, by the last writer.
LEMMA EndSent ==
    ASSUME NEW w, ~ Transient, NEW n, NetOK(n),
           NEW id \in Nat, w.req.requestId = id, w.req.appStatus \in Int,
           NEW E, E \subseteq Streams, NEW x \in BOOLEAN, Ordered(Records(n.wire), id, E, x), ~ x
    PROVE  LET n3 == WriteItAll(n, EndRecord(w))
           IN  /\ Marks(n, n3, id)
               /\ Ordered(Records(n3.wire), id, E, x \/ w.req.nWriters = 1)
               /\ w.req.nWriters # 1 => NoEnd(n, n3, id)
               /\ Took(n, n3, EndRecord(w)) /\ w.req.nWriters = 1 => HasEnd(Records(n3.wire), id)
               /\ HasEnd(Records(n3.wire), id) => HasEnd(Records(n.wire), id) \/ n.room > 0
               /\ EndsSay(Records(n.wire), id, w.req.appStatus)
                    => EndsSay(Records(n3.wire), id, w.req.appStatus)
<1> DEFINE v == w.req.appStatus
           b == EndBody(w)
           Rd == Rec("end", id, b, 0)
           n3 == WriteItAll(n, EndRecord(w))
           rs == Records(n.wire)
           rs3 == Records(n3.wire)
           last == w.req.nWriters = 1
<1> SUFFICES /\ Marks(n, n3, id) /\ Ordered(rs3, id, E, x \/ last)
             /\ ~ last => NoEnd(n, n3, id)
             /\ Took(n, n3, EndRecord(w)) /\ last => HasEnd(rs3, id)
             /\ HasEnd(rs3, id) => HasEnd(rs, id) \/ n.room > 0
             /\ EndsSay(rs, id, v) => EndsSay(rs3, id, v)
  OBVIOUS
<1>1. EndRecord(w) = IF last THEN Rd ELSE <<>>
  BY DEF EndRecord
<1>2. n \in NetType /\ n.room \in Nat /\ Ordered(rs, id, E, x)
  BY DEF NetOK, NetType
<1>3. CASE ~ last
  <2>1. n3 = n
    BY <1>1, <1>2, <1>3, EmptySeq, WriteNothing
  <2> HIDE DEF n3
  <2>2. Marks(n, n, id) /\ NoEnd(n, n, id)
    BY NothingSent
  <2> QED
    BY <1>2, <1>3, <2>1, <2>2
<1>4. CASE last
  <2> DEFINE full == n3.room > 0 \/ Len(Rd) <= n.room
  <2>1. EndRecord(w) = Rd /\ n3 = WriteItAll(n, Rd)
    BY <1>1, <1>4
  <2>2. /\ Framed("end", id, b, 0) /\ b \in Seq(Cell) /\ Len(b) = 8
        /\ b[1][3] = v /\ b # <<>>
        /\ RightContent("end", id, b)
    <3>1. /\ Framed("end", id, b, 0) /\ Len(b) = 8 /\ b \in Seq(Cell)
          /\ \A i \in 1 .. 8 : b[i] = <<"body", id, v, i>>
      BY EndIsRecord DEF EndBody
    <3> HIDE DEF b
    <3>2. \A i \in 1 .. 8 : RightCell([type |-> "end", id |-> id], b[i])
      BY <3>1 DEF RightCell
    <3>3. b[1][3] = v
      BY <3>1
    <3>4. b # <<>>
      BY <3>1, EmptySeq
    <3> QED
      BY <3>1, <3>2, <3>3, <3>4 DEF RightContent
  <2> HIDE DEF b
  <2>3. Marks(n, n3, id)
    <3>1. "end" \notin Streams
      BY DEF Streams
    <3> QED
      BY <2>1, <2>2, <3>1, MarkSent
  <2>4. Wrote(n, n3, "end", id, b, 0)
    BY <2>1, <2>2, ToldLemma
  <2> HIDE DEF n3
  <2>5. Told(rs, rs3, "end", id, b, full) /\ full \in BOOLEAN
    BY <2>4 DEF Wrote
  <2>6. /\ Took(n, n3, EndRecord(w)) <=> full
        /\ n.room = 0 => n3 = n
    BY <2>1, <2>4 DEF Took, Wrote
  <2>7. n.room = 0 => rs3 = rs
    BY <2>6
  <2> HIDE DEF full, rs, rs3
  <2>8. full => HasEnd(rs3, id)
    <3>1. Marked(rs, rs3, "end", id, b, full)
      BY <2>2, <2>5, ToldMarks
    <3> QED
      BY <2>2, <3>1 DEF Marked
  <2>9. EndsSay(rs, id, v) => EndsSay(rs3, id, v)
    BY <2>2, <2>5, ToldStatus
  <2>10. Ordered(rs3, id, E, TRUE)
    <3> DEFINE yes == TRUE
               t == "end"
    <3>1. t \notin E /\ E \subseteq E /\ yes \in BOOLEAN /\ (t = "end" => yes)
      BY DEF Streams
    <3>2. Ordered(rs, id, E, x)
      BY <1>2 DEF rs
    <3>3. Told(rs, rs3, t, id, b, full) /\ full \in BOOLEAN
      BY <2>5
    <3>4. b \in Seq(Cell) /\ (b = <<>> => t \in E)
      BY <2>2
    <3> HIDE DEF yes, t
    <3>5. Ordered(rs3, id, E, yes)
      BY <3>1, <3>2, <3>3, <3>4, ToldOrdered
    <3> QED
      BY <3>5 DEF yes
  <2>11. Ordered(rs3, id, E, x \/ last)
    BY <1>4, <2>10
  <2>12. Took(n, n3, EndRecord(w)) /\ last => HasEnd(rs3, id)
    BY <2>6, <2>8
  <2>13. HasEnd(rs3, id) => HasEnd(rs, id) \/ n.room > 0
    BY <1>2, <2>7
  <2> HIDE DEF last, v
  <2> QED
    BY <1>4, <2>3, <2>9, <2>11, <2>12, <2>13
<1> QED
  BY <1>3, <1>4

\* End marks behind the content.
LEMMA CarriesMarks ==
    ASSUME NEW n, NEW n1, NEW n2, NEW s, NEW id, NEW b, NEW all \in BOOLEAN,
           NEW most \in BOOLEAN, most => all,
           NetOK(n), Carries(n, n1, s, id, b, all), Marks(n1, n2, id), s \in Streams
    PROVE  Carries(n, n2, s, id, b, most)
<1> DEFINE rs == Records(n.wire)
           rs1 == Records(n1.wire)
           rs2 == Records(n2.wire)
<1>1. /\ NetOK(n1) /\ n1.open = n.open /\ n1.room <= n.room
      /\ n.room = 0 => n1 = n
      /\ Grows(rs, rs1, id)
      /\ \A u \in Streams : u # s => Content(rs1, u, id) = Content(rs, u, id)
      /\ Content(rs, s, id) \in Seq(Cell)
  BY DEF Carries
<1>2. PICK k \in 0 .. Len(b) :
          /\ Joins(Content(rs1, s, id), Content(rs, s, id), SubSeq(b, 1, k))
          /\ all => k = Len(b)
  BY DEF Carries
<1>3. /\ NetOK(n2) /\ n2.open = n1.open /\ n2.room <= n1.room
      /\ n1.room = 0 => n2 = n1
      /\ Grows(rs1, rs2, id)
      /\ \A u \in Streams : Content(rs2, u, id) = Content(rs1, u, id)
  BY DEF Marks
<1>4. n.room \in Nat /\ n1.room \in Nat /\ n2.room \in Nat
  BY <1>1, <1>3 DEF NetOK, NetType
<1> HIDE DEF rs, rs1, rs2
<1>5. Grows(rs, rs2, id)
  BY <1>1, <1>3, GrowsOn
<1>6. n2.room <= n.room /\ n2.open = n.open /\ (n.room = 0 => n2 = n)
  BY <1>1, <1>3, <1>4
<1>7. \A u \in Streams : u # s => Content(rs2, u, id) = Content(rs, u, id)
  BY <1>1, <1>3
<1>8. /\ Joins(Content(rs2, s, id), Content(rs, s, id), SubSeq(b, 1, k))
      /\ most => k = Len(b)
  BY <1>2, <1>3
<1> QED
  BY <1>1, <1>3, <1>5, <1>6, <1>7, <1>8 DEF Carries, rs, rs2

\* Sending end marks twice is sending end marks.
LEMMA MarksOn ==
    ASSUME NEW n, NEW n1, NEW n2, NEW id, NetOK(n), Marks(n, n1, id), Marks(n1, n2, id)
    PROVE  Marks(n, n2, id)
<1>1. n.room \in Nat /\ n1.room \in Nat /\ n2.room \in Nat
  BY DEF Marks, NetOK, NetType
<1>2. Grows(Records(n.wire), Records(n2.wire), id)
  BY GrowsOn DEF Marks
<1> QED
  BY <1>1, <1>2 DEF Marks

\* If all of it was taken, then so was each part.
LEMMA TookParts ==
    ASSUME NEW n \in NetType, NEW x \in Seq(Cell), NEW y \in Seq(Cell), ~ Transient
    PROVE  LET n1 == WriteItAll(n, x)
               n2 == WriteItAll(n1, y)
           IN  Took(n, n2, x \o y) => Took(n, n1, x) /\ Took(n1, n2, y)
<1> DEFINE n1 == WriteItAll(n, x)
           n2 == WriteItAll(n1, y)
           k == Len(x)
           l == Len(y)
           z == x \o y
<1> SUFFICES Took(n, n2, z) => Took(n, n1, x) /\ Took(n1, n2, y)
  OBVIOUS
<1>1. n1 \in NetType /\ n1.room = n.room - Smaller(n.room, k)
  BY WriteFields
<1> HIDE DEF n1
<1>2. n2 \in NetType /\ n2.room = n1.room - Smaller(n1.room, l)
  BY <1>1, WriteFields
<1>3. Len(z) = k + l /\ k \in Nat /\ l \in Nat
  BY ConcatLemma, LenProperties
<1> HIDE DEF n2, k, l, z
<1> DEFINE a == n.room
           a1 == n1.room
           a2 == n2.room
<1>4. a \in Nat /\ a1 \in Nat /\ a2 \in Nat
  BY <1>1, <1>2 DEF NetType
<1>5. a1 = a - Smaller(a, k) /\ a2 = a1 - Smaller(a1, l)
  BY <1>1, <1>2
<1> HIDE DEF a, a1, a2
<1>6. a2 > 0 \/ k + l <= a => (a1 > 0 \/ k <= a) /\ (a2 > 0 \/ l <= a1)
  BY <1>3, <1>4, <1>5 DEF Smaller
<1> QED
  BY <1>3, <1>6 DEF Took, a, a1, a2, k, l

\* A record is not empty.
LEMMA RecordIsCells ==
    ASSUME NEW t, NEW id, NEW content, NEW l, Framed(t, id, content, l)
    PROVE  Rec(t, id, content, l) \in Seq(Cell) /\ Rec(t, id, content, l) # <<>>
<1> DEFINE Rd == Rec(t, id, content, l)
           c == Len(content)
<1>1. RecordShape(Rd, t, id, content, c, l)
  BY RecordCells
<1>2. c \in Nat /\ l \in Nat
  BY LenProperties DEF Framed
<1> HIDE DEF Rd, c
<1>3. Rd \in Seq(Cell) /\ Len(Rd) = 8 + c + l
  BY <1>1 DEF RecordShape
<1>4. Len(Rd) # 0
  BY <1>2, <1>3
<1> QED
  BY <1>3, <1>4, EmptySeq DEF Rd

\* The three parts are cells, and the first is empty only without content.
LEMMA PiecesTyped ==
    ASSUME NEW w \in Worlds(Cell), Collecting(w.st)
    PROVE  /\ ContentRecord(w) \in Seq(Cell) /\ EofRecord(w) \in Seq(Cell)
           /\ EndRecord(w) \in Seq(Cell)
           /\ ContentRecord(w) = <<>> => BufferedOf(w.st) = <<>>
<1>1. w.st.type \in Streams /\ w.req.requestId \in Nat /\ w.req.appStatus \in Int
  BY DEF Worlds, StreamOver, RequestType
<1>2. /\ BufferedOf(w.st) \in Seq(Cell) /\ ContentRecord(w) \in Seq(Cell)
      /\ BufferedOf(w.st) # <<>> =>
           Framed(w.st.type, w.req.requestId, BufferedOf(w.st), Pad(BufferedOf(w.st)))
  BY EncapsulateIs
<1>3. EofRecord(w) \in Seq(Cell)
  BY <1>1, EofIsRecord, RecordIsCells, EmptySeq DEF EofRecord
<1>4. EndRecord(w) \in Seq(Cell)
  BY <1>1, EndIsRecord, RecordIsCells, EmptySeq DEF EndRecord, EndBody
<1>5. ContentRecord(w) = <<>> => BufferedOf(w.st) = <<>>
  BY <1>2, RecordIsCells DEF ContentRecord
<1> QED
  BY <1>2, <1>3, <1>4, <1>5

\* What FCGX_FClose has sent: content, end mark, and maybe the end.
Ends(w, n, n3, s, id, b, all, E, x) ==
    /\ Carries(n, n3, s, id, b, all)
    /\ Ordered(Records(n3.wire), id, E \cup {s}, x \/ w.req.nWriters = 1)
    /\ all => \/ HasEof(Records(n3.wire), s, id)
              \/ s = "err" /\ b = <<>> /\ ~ w.st.isAnythingWritten
    /\ all /\ w.req.nWriters = 1 => HasEnd(Records(n3.wire), id)
    /\ HasEnd(Records(n3.wire), id) =>
         \/ HasEnd(Records(n.wire), id)
         \/ HasEof(Records(n3.wire), s, id)
         \/ s = "err" /\ b = <<>> /\ ~ w.st.isAnythingWritten
    /\ w.req.nWriters # 1 => NoEnd(n, n3, id)
    /\ EndsSay(Records(n.wire), id, w.req.appStatus)
         => EndsSay(Records(n3.wire), id, w.req.appStatus)

\* FCGX_FClose sends the content, the end mark and the end of the request.
LEMMA EndsSent ==
    ASSUME NEW w \in Worlds(Cell), Collecting(w.st), ~ Transient, NetOK(w.net),
           NEW s \in Streams, w.st.type = s, NEW id \in Nat, w.req.requestId = id,
           w.net.room > 0 => RightContent(s, id, BufferedOf(w.st)),
           NEW E, E \subseteq Streams, NEW x \in BOOLEAN,
           Ordered(Records(w.net.wire), id, E, x), s \notin E, ~ x
    PROVE  LET y == (ContentRecord(w) \o EofRecord(w)) \o EndRecord(w)
               n3 == WriteItAll(w.net, y)
           IN  Ends(w, w.net, n3, s, id, BufferedOf(w.st), Took(w.net, n3, y), E, x)
<1> DEFINE n == w.net
           b == BufferedOf(w.st)
           v == w.req.appStatus
           x1 == ContentRecord(w)
           x2 == EofRecord(w)
           x3 == EndRecord(w)
           y2 == x1 \o x2
           y == y2 \o x3
           n1 == WriteItAll(n, x1)
           n2 == WriteItAll(n1, x2)
           n3 == WriteItAll(n2, x3)
           all == Took(n, n3, y)
           last == w.req.nWriters = 1
           E2 == E \cup {s}
           none == s = "err" /\ b = <<>> /\ ~ w.st.isAnythingWritten
           rs == Records(n.wire)
           rs1 == Records(n1.wire)
           rs2 == Records(n2.wire)
           rs3 == Records(n3.wire)
<1>1. w.req.appStatus \in Int /\ n \in NetType
  BY DEF Worlds, RequestType, NetOK
<1>2. x1 \in Seq(Cell) /\ x2 \in Seq(Cell) /\ x3 \in Seq(Cell) /\ (x1 = <<>> => b = <<>>)
  BY PiecesTyped
<1>3. y2 \in Seq(Cell) /\ y \in Seq(Cell)
  BY <1>2, ConcatLemma
<1>4. n2 = WriteItAll(n, y2) /\ n3 = WriteItAll(n, y)
  <2>1. n2 = WriteItAll(n, y2)
    <3> HIDE DEF x1, x2
    <3> QED
      BY <1>1, <1>2, WriteTwice
  <2>2. n3 = WriteItAll(WriteItAll(n, y2), x3)
    BY <2>1
  <2>3. WriteItAll(WriteItAll(n, y2), x3) = WriteItAll(n, y)
    <3> HIDE DEF x3, y2, n
    <3> QED
      BY <1>1, <1>2, <1>3, WriteTwice
  <2> QED
    BY <2>1, <2>2, <2>3
<1>5. all => Took(n, n1, x1) /\ Took(n1, n2, x2) /\ Took(n2, n3, x3)
  <2>1. n1 \in NetType
    <3> HIDE DEF x1
    <3> QED
      BY <1>1, <1>2, WriteFields
  <2>2. Took(n, n2, y2) => Took(n, n1, x1) /\ Took(n1, n2, x2)
    <3> HIDE DEF x1, x2, n
    <3> QED
      BY <1>1, <1>2, TookParts
  <2>3. Took(n, n3, y) => Took(n, n2, y2) /\ Took(n2, n3, x3)
    <3> DEFINE m2 == WriteItAll(n, y2)
               m3 == WriteItAll(m2, x3)
    <3>1. Took(n, m3, y) => Took(n, m2, y2) /\ Took(m2, m3, x3)
      <4> HIDE DEF x3, y2, n
      <4> QED
        BY <1>1, <1>2, <1>3, TookParts
    <3>2. n2 = m2 /\ n3 = m3
      BY <1>4
    <3> QED
      BY <3>1, <3>2
  <2> QED
    BY <2>2, <2>3
<1>6. /\ Carries(n, n1, s, id, b, Took(n, n1, x1)) /\ Ordered(rs1, id, E, x)
      /\ NoEnd(n, n1, id)
  BY ContentSent
<1>7. NetOK(n1)
  BY <1>6 DEF Carries
<1> HIDE DEF n1
<1>8. /\ Marks(n1, n2, id) /\ Ordered(rs2, id, E2, x) /\ NoEnd(n1, n2, id)
      /\ Took(n1, n2, x2) => HasEof(rs2, s, id)
                             \/ (s = "err" /\ x1 = <<>> /\ ~ w.st.isAnythingWritten)
  BY <1>6, <1>7, EofSent
<1>9. NetOK(n2)
  BY <1>8 DEF Marks
<1> HIDE DEF n2
<1>10. /\ Marks(n2, n3, id) /\ Ordered(rs3, id, E2, x \/ last)
       /\ ~ last => NoEnd(n2, n3, id)
       /\ Took(n2, n3, x3) /\ last => HasEnd(rs3, id)
       /\ HasEnd(rs3, id) => HasEnd(rs2, id) \/ n2.room > 0
       /\ EndsSay(rs2, id, v) => EndsSay(rs3, id, v)
  <2>1. E2 \subseteq Streams /\ Ordered(rs2, id, E2, x)
    BY <1>8
  <2> HIDE DEF E2
  <2> QED
    BY <1>1, <1>9, <2>1, EndSent
<1> HIDE DEF n3, x1, x2, x3, b, y, n
<1>11. Carries(n, n3, s, id, b, all)
  <2>1. Marks(n1, n3, id)
    BY <1>7, <1>8, <1>10, MarksOn
  <2>2. NetOK(n)
    BY DEF n
  <2>3. all \in BOOLEAN /\ Took(n, n1, x1) \in BOOLEAN /\ (all => Took(n, n1, x1))
    BY <1>5 DEF Took
  <2> DEFINE full == Took(n, n1, x1)
  <2>4. Carries(n, n1, s, id, b, full) /\ full \in BOOLEAN /\ (all => full)
    BY <1>6, <2>3
  <2> HIDE DEF all, full
  <2> QED
    BY <2>1, <2>2, <2>3, <2>4, CarriesMarks
<1>12. Grows(rs2, rs3, id)
  BY <1>10 DEF Marks
<1>13. HasEof(rs2, s, id) => HasEof(rs3, s, id)
  BY <1>12, GrowsMarks
<1>14. Took(n1, n2, x2) => HasEof(rs3, s, id) \/ none
  BY <1>2, <1>8, <1>13
<1>15. HasEnd(rs3, id) => HasEnd(rs, id) \/ HasEof(rs3, s, id) \/ none
  <2>1. n2.room > 0 => Took(n1, n2, x2)
    BY DEF Took
  <2>2. HasEnd(rs2, id) => HasEnd(rs, id)
    BY <1>6, <1>8 DEF NoEnd
  <2> QED
    BY <1>10, <1>14, <2>1, <2>2
<1>16. ~ last => NoEnd(n, n3, id)
  BY <1>6, <1>8, <1>10 DEF NoEnd
<1>17. EndsSay(rs, id, v) => EndsSay(rs3, id, v)
  BY <1>6, <1>8, <1>10 DEF NoEnd
<1>18. Ends(w, n, n3, s, id, b, all, E, x)
  <2>1. all => HasEof(rs3, s, id) \/ none
    BY <1>5, <1>14
  <2>2. all /\ last => HasEnd(rs3, id)
    BY <1>5, <1>10
  <2>3. Ordered(rs3, id, E2, x \/ last)
    BY <1>10
  <2> HIDE DEF rs, rs3, all
  <2> QED
    BY <1>11, <1>15, <1>16, <1>17, <2>1, <2>2, <2>3 DEF Ends, rs, rs3
<1> QED
  BY <1>4, <1>18 DEF n, y, b, x1, x2, x3

(***************************************************************************)
(* What a stream owes the server: sd bytes were written to it in request   *)
(* id, rs are the records on the connection, which takes room bytes more,  *)
(* and fl is not -1 if a write of the stream has failed.                   *)
(***************************************************************************)

\* c has been sent and b is still buffered.
Says(c, b, s, sd, fl) ==
    /\ fl = -1 => Ahead(c, b, s, sd)
    /\ fl # -1 => Behind(c, s, sd)

Ended(st, s, fl, room, rs, id) ==
    st.wasFCloseCalled /\ (room > 0 \/ fl = -1) =>
       HasEof(rs, s, id) \/ (s = "err" /\ Content(rs, s, id) = <<>>)

Owes(st, sd, fl, cl, room, rs, id, s) ==
    /\ sd \in Nat /\ Content(rs, s, id) \in Seq(Cell)
    /\ Says(Content(rs, s, id), BufferedOf(st), s, sd, fl)
    /\ fl # -1 => room = 0
    /\ st.FCGI_errno # 0 => fl # -1
    /\ ~ cl /\ fl # -1 => st.FCGI_errno # 0
    /\ ~ st.wasFCloseCalled /\ st.isClosed => fl # -1
    /\ ~ st.wasFCloseCalled /\ ~ st.isAnythingWritten => Content(rs, s, id) = <<>>
    /\ st.wasFCloseCalled => st.stop = Len(st.buff)
    /\ Ended(st, s, fl, room, rs, id)

\* What the other stream does.
LEMMA OwesOther ==
    ASSUME NEW st, NEW sd, NEW fl, NEW cl, NEW room \in Nat, NEW rs, NEW id, NEW u,
           Owes(st, sd, fl, cl, room, rs, id, u),
           NEW room2 \in Nat, room2 <= room, NEW rs2, NEW j, Grows(rs, rs2, j),
           Content(rs2, u, id) = Content(rs, u, id)
    PROVE  Owes(st, sd, fl, cl, room2, rs2, id, u)
<1>1. HasEof(rs, u, id) => HasEof(rs2, u, id)
  BY GrowsMarks
<1>2. (room = 0 => room2 = 0) /\ (room2 > 0 => room > 0)
  OBVIOUS
<1> QED
  BY <1>1, <1>2 DEF Owes, Ended

\* What is buffered is data of the stream.
LEMMA OwesData ==
    ASSUME NEW sd \in Nat, NEW c \in Seq(Cell), NEW b \in Seq(Cell), NEW s \in Streams,
           Ahead(c, b, s, sd), NEW id
    PROVE  RightContent(s, id, b)
<1>1. \A i \in 1 .. Len(b) : b[i] = <<"data", s, 0 + (Len(c) + i)>>
  BY AheadCells
<1>2. s # "end"
  BY DEF Streams
<1>3. \A k : RightCell([type |-> s, id |-> id], <<"data", s, k>>)
  BY <1>2 DEF RightCell
<1> QED
  BY <1>1, <1>3 DEF RightContent

\* b has been sent, and all of it if no write has failed.
Sends(n, n2, s, id, b, sd, fl, fl2) ==
    /\ \E all \in BOOLEAN :
          Carries(n, n2, s, id, b, all) /\ (fl = -1 /\ fl2 = -1 => all = TRUE)
    /\ Says(Content(Records(n.wire), s, id), b, s, sd, fl)
    /\ fl # -1 => n.room = 0 /\ fl2 = fl

\* What was sent is no longer buffered.
LEMMA SaysSend ==
    ASSUME NEW n, NEW n2, NEW s \in Streams, NEW id, NEW b \in Seq(Cell),
           NEW sd \in Nat, NEW fl, NEW fl2, Sends(n, n2, s, id, b, sd, fl, fl2)
    PROVE  /\ Says(Content(Records(n2.wire), s, id), <<>>, s, sd, fl2)
           /\ Content(Records(n2.wire), s, id) \in Seq(Cell)
<1> DEFINE c == Content(Records(n.wire), s, id)
           c2 == Content(Records(n2.wire), s, id)
<1> SUFFICES ASSUME NEW all \in BOOLEAN, Carries(n, n2, s, id, b, all),
                    Says(c, b, s, sd, fl), fl # -1 => n.room = 0 /\ fl2 = fl,
                    fl = -1 /\ fl2 = -1 => all = TRUE
             PROVE  Says(c2, <<>>, s, sd, fl2) /\ c2 \in Seq(Cell)
  BY DEF Sends
<1>1. c \in Seq(Cell)
  BY DEF Carries
<1>2. CASE fl = -1
  <2>1. PICK k \in 0 .. Len(b) : Joins(c2, c, SubSeq(b, 1, k)) /\ (all => k = Len(b))
    BY DEF Carries
  <2>2. Ahead(c, b, s, sd)
    BY <1>2 DEF Says
  <2> HIDE DEF c, c2
  <2>3. /\ c2 \in Seq(Cell) /\ Behind(c2, s, sd)
        /\ k = Len(b) => Ahead(c2, <<>>, s, sd)
    BY <1>1, <2>1, <2>2, AheadSend
  <2>4. Says(c2, <<>>, s, sd, fl2)
    BY <1>2, <2>1, <2>3 DEF Says
  <2> QED
    BY <2>3, <2>4 DEF c2
<1>3. CASE fl # -1
  <2>1. n2 = n
    BY <1>3 DEF Carries
  <2> QED
    BY <1>1, <1>3, <2>1 DEF Says
<1> QED
  BY <1>2, <1>3

\* A closed stream holds nothing, whatever bytes are still accepted.
LEMMA BufferedTyped ==
    ASSUME NEW s \in Streams, NEW st \in StreamOver(Cell), Sound(st, s)
    PROVE  /\ BufferedOf(st) \in Seq(Cell)
           /\ st.wasFCloseCalled => BufferedOf(st) = <<>>
<1>1. CASE st.wasFCloseCalled
  BY <1>1, EmptySeq DEF Sound, BufferedOf
<1>2. CASE ~ st.wasFCloseCalled
  <2>1. Collecting(st) /\ st.buff \in Seq(Cell) /\ ~ st.rawWrite
    BY <1>2 DEF Sound, StreamOver, Collecting
  <2>2. Len(st.buff) \in Nat /\ 8 + 1 \in Nat \ {0} /\ Len(st.buff) \in Int
        /\ Len(st.buff) <= Len(st.buff)
    BY <2>1, LenProperties
  <2>3. SubSeq(st.buff, 8 + 1, Len(st.buff)) \in Seq(Cell)
    BY <2>1, <2>2, PartLemma
  <2> QED
    BY <1>2, <2>1, <2>3 DEF BufferedOf, FCGI_HEADER_LEN
<1> QED
  BY <1>1, <1>2

\* Bytes put behind the buffered ones.
LEMMA PutBuffered ==
    ASSUME NEW s \in Streams, NEW w \in Worlds(Cell), Sound(w.st, s), NEW x \in Seq(Cell),
           ~ w.st.wasFCloseCalled
    PROVE  BufferedOf(Put(w, x).st) = BufferedOf(w.st) \o x
<1> DEFINE b == w.st.buff
           n == Len(b)
           d == b \o x
           c == SubSeq(b, 9, n)
<1>1. b \in Seq(Cell) /\ ~ w.st.rawWrite /\ n >= 8 /\ n \in Nat
  <2>1. w.st \in StreamOver(Cell) /\ Collecting(w.st)
    BY DEF Worlds, Sound
  <2>2. b \in Seq(Cell)
    BY <2>1 DEF StreamOver
  <2> QED
    BY <2>1, <2>2, LenProperties DEF Collecting, FCGI_HEADER_LEN
<1>2. Put(w, x).st.buff = d /\ Put(w, x).st.rawWrite = w.st.rawWrite
  BY DEF Put, Worlds, StreamOver
<1>3. BufferedOf(w.st) = c
  BY <1>1 DEF BufferedOf, FCGI_HEADER_LEN
<1>4. BufferedOf(Put(w, x).st) = SubSeq(d, 9, Len(d))
  BY <1>1, <1>2 DEF BufferedOf, FCGI_HEADER_LEN
<1>5. SubSeq(d, 9, Len(d)) = c \o x
  <2> HIDE DEF b
  <2> DEFINE m == Len(x)
             l == Len(d)
             e == SubSeq(d, 9, l)
             f == c \o x
  <2>1. m \in Nat /\ Concatenates(d, b, x) /\ d \in Seq(Cell)
    BY <1>1, ConcatCells, LenProperties
  <2>2. l = n + m /\ l \in Nat
    BY <1>1, <2>1 DEF Concatenates
  <2>3. /\ c \in Seq(Cell) /\ Len(c) = (IF 9 <= n THEN n - 9 + 1 ELSE 0)
        /\ \A i \in 1 .. n - 9 + 1 : c[i] = b[9 + i - 1]
    <3>1. 9 \in Nat \ {0} /\ n \in Int /\ n <= Len(b)
      BY <1>1
    <3> HIDE DEF n
    <3> QED
      BY <1>1, <3>1, PartLemma
  <2>4. /\ e \in Seq(Cell) /\ Len(e) = (IF 9 <= l THEN l - 9 + 1 ELSE 0)
        /\ \A i \in 1 .. l - 9 + 1 : e[i] = d[9 + i - 1]
    <3>1. 9 \in Nat \ {0} /\ l \in Int /\ l <= Len(d)
      BY <2>2
    <3> HIDE DEF l, d
    <3> QED
      BY <2>1, <3>1, PartLemma
  <2> DEFINE k == Len(c)
  <2>5. k = n - 8 /\ k \in Nat /\ Len(e) = k + m
    <3> DEFINE le == Len(e)
    <3>1. k = (IF 9 <= n THEN n - 9 + 1 ELSE 0) /\ le = (IF 9 <= l THEN l - 9 + 1 ELSE 0)
      BY <2>3, <2>4
    <3> HIDE DEF k, le, l, n, m
    <3>2. k = n - 8 /\ k \in Nat /\ le = k + m
      BY <1>1, <2>1, <2>2, <3>1
    <3> QED
      BY <3>2 DEF le
  <2>6. f \in Seq(Cell) /\ Concatenates(f, c, x)
    <3> HIDE DEF c
    <3> QED
      BY <2>3, ConcatCells
  <2>7. Len(f) = k + m
    BY <2>6 DEF Concatenates
  <2> HIDE DEF c, d, e, f, l, m, n, k
  <2>8. ASSUME NEW i \in 1 .. k + m PROVE e[i] = f[i]
    <3>1. e[i] = d[8 + i]
      BY <1>1, <2>1, <2>2, <2>4, <2>5
    <3>2. CASE i <= k
      <4>1. i \in 1 .. n - 9 + 1 /\ 8 + i \in 1 .. n /\ i \in 1 .. k
        BY <1>1, <2>5, <3>2
      <4>2. d[8 + i] = b[8 + i]
        BY <2>1, <4>1 DEF Concatenates, n
      <4>3. f[i] = c[i]
        BY <2>6, <4>1 DEF Concatenates, k
      <4>4. c[i] = b[9 + i - 1] /\ 9 + i - 1 = 8 + i
        BY <2>3, <4>1
      <4> QED
        BY <3>1, <4>2, <4>3, <4>4
    <3>3. CASE ~ (i <= k)
      <4> DEFINE j == i - k
      <4>1. j \in 1 .. m /\ 8 + i = n + j /\ i = k + j
        BY <1>1, <2>1, <2>5, <3>3
      <4> HIDE DEF j
      <4>2. d[n + j] = x[j]
        BY <2>1, <4>1 DEF Concatenates, n, m
      <4>3. f[k + j] = x[j]
        BY <2>6, <4>1 DEF Concatenates, k, m
      <4> QED
        BY <3>1, <4>1, <4>2, <4>3
    <3> QED
      BY <3>2, <3>3
  <2>9. e = f
    BY <2>4, <2>5, <2>6, <2>7, <2>8, SeqEqual
  <2> QED
    BY <2>9 DEF e, f, l
<1> QED
  BY <1>3, <1>4, <1>5

\* A stream that has failed stays behind when more is written to it.
LEMMA BehindMore ==
    ASSUME NEW c, NEW s, NEW n \in Nat, NEW m \in Nat, Len(c) \in Int, Behind(c, s, n)
    PROVE  Behind(c, s, n + m)
<1>1. Len(c) <= n => Len(c) <= n + m
  OBVIOUS
<1> QED
  BY <1>1 DEF Behind

\* FCGX_PutStr copies m bytes into the buffer.
LEMMA OwesPut ==
    ASSUME NEW s \in Streams, NEW w \in Worlds(Cell), Sound(w.st, s),
           NEW sd, NEW fl, NEW cl, NEW rs, NEW id, NEW room,
           Owes(w.st, sd, fl, cl, room, rs, id, s),
           NEW m \in Nat, m <= Space(w.st)
    PROVE  Owes(Put(w, Bytes(s, sd, m)).st, sd + m, fl, cl, room, rs, id, s)
<1> DEFINE x == Bytes(s, sd, m)
           p == Put(w, x)
           c == Content(rs, s, id)
           b == BufferedOf(w.st)
<1>1. sd \in Nat /\ c \in Seq(Cell) /\ Says(c, b, s, sd, fl)
  BY DEF Owes
<1>2. x \in Seq(Cell) /\ Len(x) = m
  BY <1>1, BytesAre
<1>3. b \in Seq(Cell) /\ (w.st.wasFCloseCalled => b = <<>>)
  BY BufferedTyped DEF Worlds
<1>4. /\ p.st.FCGI_errno = w.st.FCGI_errno /\ (p.st.isClosed <=> w.st.isClosed)
      /\ p.st.wasFCloseCalled = w.st.wasFCloseCalled
      /\ (p.st.isAnythingWritten <=> w.st.isAnythingWritten)
      /\ p.st.stop = w.st.stop
      /\ p.st.rawWrite = w.st.rawWrite /\ p.st.buff = w.st.buff \o x
  BY DEF Put, Worlds, StreamOver
<1>5. Len(c) \in Nat
  BY <1>1, LenProperties
<1>6. sd + m \in Nat
  BY <1>1
<1> HIDE DEF p
<1>7. CASE ~ w.st.wasFCloseCalled
  <2>1. BufferedOf(p.st) = b \o x
    BY <1>2, <1>7, PutBuffered DEF p
  <2>2. fl = -1 => Ahead(c, b \o x, s, sd + m)
    <3> HIDE DEF c, b
    <3> SUFFICES ASSUME fl = -1 PROVE Ahead(c, b \o x, s, sd + m)
      OBVIOUS
    <3>1. Ahead(c, b, s, sd)
      BY <1>1 DEF Says
    <3> QED
      BY <1>1, <1>3, <3>1, AheadPut
  <2>3. fl # -1 => Behind(c, s, sd + m)
    <3> HIDE DEF c, b
    <3> SUFFICES ASSUME fl # -1 PROVE Behind(c, s, sd + m)
      OBVIOUS
    <3>1. Behind(c, s, sd)
      BY <1>1 DEF Says
    <3> QED
      <4>1. Len(c) \in Int /\ sd \in Nat
        BY <1>1, <1>5
      <4> QED
        BY <3>1, <4>1, BehindMore
  <2>4. Says(c, BufferedOf(p.st), s, sd + m, fl)
    BY <2>1, <2>2, <2>3 DEF Says
  <2> QED
    BY <1>4, <1>6, <1>7, <2>4 DEF Owes, Ended, p
<1>8. CASE w.st.wasFCloseCalled
  <2>1. m = 0
    <3>1. w.st.stop = Len(w.st.buff) /\ w.st.buff \in Seq(Cell)
      BY <1>8 DEF Owes, Worlds, StreamOver
    <3>2. Len(w.st.buff) \in Nat
      BY <3>1, LenProperties
    <3> QED
      BY <3>1, <3>2 DEF Space
  <2>2. x = <<>>
    BY <1>2, <2>1, EmptySeq
  <2>3. w.st.buff \in Seq(Cell) /\ w.st.buff \o <<>> = w.st.buff
    BY ConcatEmptySeq DEF Worlds, StreamOver
  <2>4. p.st.buff = w.st.buff /\ sd + m = sd
    BY <1>1, <1>4, <2>1, <2>2, <2>3
  <2>5. BufferedOf(p.st) = b
    BY <1>4, <2>4 DEF BufferedOf
  <2> QED
    BY <1>4, <2>4, <2>5 DEF Owes, Ended, p
<1> QED
  BY <1>7, <1>8

\* The buffer is emptied while the stream is open.
LEMMA OwesFlush ==
    ASSUME NEW s \in Streams, NEW w \in Worlds(Cell), Sound(w.st, s),
           ~ w.st.wasFCloseCalled, ~ Transient, NetOK(w.net),
           NEW sd, NEW fl, NEW cl, NEW id \in Nat, w.req.requestId = id,
           Owes(w.st, sd, fl, cl, w.net.room, Records(w.net.wire), id, s),
           NEW E, NEW x \in BOOLEAN, Ordered(Records(w.net.wire), id, E, x), s \notin E, ~ x,
           NEW fl2,
           fl2 = IF fl = -1 /\ EmptyBuffProc(w, FALSE).st.FCGI_errno # 0 THEN sd ELSE fl
    PROVE  LET r == EmptyBuffProc(w, FALSE)
           IN  /\ Owes(r.st, sd, fl2, cl, r.net.room, Records(r.net.wire), id, s)
               /\ \E b, all : Carries(w.net, r.net, s, id, b, all)
               /\ Ordered(Records(r.net.wire), id, E, x)
               /\ NoEnd(w.net, r.net, id)
<1> DEFINE r == EmptyBuffProc(w, FALSE)
           y == ContentRecord(w)
           n == w.net
           n1 == WriteItAll(n, y)
           b == BufferedOf(w.st)
           rs == Records(n.wire)
           rs1 == Records(n1.wire)
           c == Content(rs, s, id)
           c1 == Content(rs1, s, id)
           all == Took(n, n1, y)
<1>1. Collecting(w.st) /\ w.st.type = s
  BY DEF Sound
<1>2. /\ r.net = n1 /\ y \in Seq(Cell)
      /\ r.st.isAnythingWritten <=> w.st.isAnythingWritten \/ y # <<>>
      /\ Len(y) <= n.room =>
           /\ r.st.FCGI_errno = w.st.FCGI_errno
           /\ r.st.isClosed <=> w.st.isClosed
           /\ r.st.buff = HeaderSlot
      /\ ~ (Len(y) <= n.room) => r.st.FCGI_errno # 0 /\ r.st.isClosed
  BY <1>1, FlushSends
<1>3. r.st.wasFCloseCalled = w.st.wasFCloseCalled /\ ~ r.st.rawWrite
  BY <1>1, PlainCells, FlushLemma DEF SameStream, Collecting
<1>31. fl2 = IF fl = -1 /\ r.st.FCGI_errno # 0 THEN sd ELSE fl
  OBVIOUS
<1> HIDE DEF r
<1>32. sd # -1
  BY DEF Owes
<1>4. sd \in Nat /\ c \in Seq(Cell) /\ Says(c, b, s, sd, fl)
  BY DEF Owes
<1>5. b \in Seq(Cell)
  BY BufferedTyped DEF Worlds
<1>6. n.room > 0 => RightContent(s, id, b)
  <2> SUFFICES ASSUME n.room > 0 PROVE RightContent(s, id, b)
    OBVIOUS
  <2>1. fl = -1
    BY DEF Owes
  <2>2. Ahead(c, b, s, sd)
    BY <1>4, <2>1 DEF Says
  <2> HIDE DEF c, b
  <2> QED
    BY <1>4, <1>5, <2>2, OwesData
<1>7. Carries(n, n1, s, id, b, all) /\ Ordered(rs1, id, E, x) /\ NoEnd(n, n1, id)
  BY <1>1, <1>6, ContentSent
<1>8. n1 \in NetType /\ n1.room = n.room - Smaller(n.room, Len(y))
  <2> HIDE DEF y
  <2> QED
    BY <1>2, WriteFields DEF NetOK
<1>9. n.room \in Nat /\ n1.room \in Nat /\ Len(y) \in Nat
  BY <1>2, <1>8, LenProperties DEF NetOK, NetType
<1> HIDE DEF n1, y, n, all, b, c, c1
<1>10. all \in BOOLEAN
  BY DEF all, Took
<1>11. /\ fl # -1 => n.room = 0 /\ fl2 = fl
       /\ fl = -1 /\ fl2 = -1 => all
  <2>1. fl # -1 => n.room = 0
    BY DEF Owes, n
  <2>2. fl # -1 => fl2 = fl
    BY <1>31
  <2>3. ASSUME fl = -1, fl2 = -1 PROVE all
    <3>1. r.st.FCGI_errno = 0
      BY <1>31, <1>32, <2>3
    <3>2. Len(y) <= n.room
      BY <1>2, <3>1
    <3> QED
      BY <3>2 DEF all, Took
  <2> QED
    BY <2>1, <2>2, <2>3
<1>12. Says(c1, <<>>, s, sd, fl2) /\ c1 \in Seq(Cell)
  <2>1. NetOK(n)
    BY DEF n
  <2>2. Says(Content(Records(n.wire), s, id), b, s, sd, fl) /\ sd \in Nat
    BY <1>4 DEF c
  <2>3. Carries(n, n1, s, id, b, all)
    BY <1>7
  <2>4. /\ Says(Content(Records(n1.wire), s, id), <<>>, s, sd, fl2)
        /\ Content(Records(n1.wire), s, id) \in Seq(Cell)
    <3>1. fl # -1 => n.room = 0 /\ fl2 = fl
      BY <1>11
    <3>2. fl = -1 /\ fl2 = -1 => all = TRUE
      BY <1>10, <1>11
    <3>3. Sends(n, n1, s, id, b, sd, fl, fl2)
      BY <1>10, <2>2, <2>3, <3>1, <3>2 DEF Sends
    <3> QED
      BY <1>4, <1>5, <3>3, SaysSend
  <2> QED
    BY <2>4 DEF c1
<1>13. /\ fl2 = -1 => BufferedOf(r.st) = <<>>
       /\ fl2 # -1 => n1.room = 0
       /\ r.st.FCGI_errno # 0 => fl2 # -1
       /\ ~ cl /\ fl2 # -1 => r.st.FCGI_errno # 0
       /\ r.st.isClosed => fl2 # -1
  <2>0. /\ fl # -1 => n.room = 0 /\ fl2 = fl
        /\ fl2 = IF fl = -1 /\ r.st.FCGI_errno # 0 THEN sd ELSE fl
        /\ w.st.FCGI_errno # 0 => fl # -1
        /\ ~ cl /\ fl # -1 => w.st.FCGI_errno # 0
        /\ w.st.isClosed => fl # -1
    BY <1>31, <1>11 DEF Owes, n
  <2>1. CASE Len(y) <= n.room
    <3>1. /\ r.st.FCGI_errno = w.st.FCGI_errno /\ (r.st.isClosed <=> w.st.isClosed)
          /\ r.st.buff = HeaderSlot
      BY <1>2, <2>1
    <3>2. BufferedOf(r.st) = <<>>
      <4>1. Len(HeaderSlot) = 8 /\ HeaderSlot \in Seq(Cell)
        BY FillerLemma, PlainCells DEF FCGI_HEADER_LEN
      <4>2. SubSeq(HeaderSlot, 9, 8) = <<>>
        BY <4>1, SubSeqEmpty
      <4> QED
        BY <1>3, <3>1, <4>1, <4>2 DEF BufferedOf, FCGI_HEADER_LEN
    <3>3. fl2 = fl
      BY <1>32, <2>0, <3>1
    <3>4. n.room = 0 => n1.room = 0
      BY <1>7 DEF Carries
    <3> QED
      BY <2>0, <3>1, <3>2, <3>3, <3>4
  <2>2. CASE ~ (Len(y) <= n.room)
    <3>1. r.st.FCGI_errno # 0 /\ r.st.isClosed
      BY <1>2, <2>2
    <3>2. n1.room = 0
      BY <1>8, <1>9, <2>2 DEF Smaller
    <3>3. fl2 # -1
      BY <1>32, <2>0, <3>1
    <3> QED
      BY <3>1, <3>2, <3>3
  <2> QED
    BY <2>1, <2>2
<1>14. ~ r.st.isAnythingWritten => c1 = <<>>
  <2> SUFFICES ASSUME ~ r.st.isAnythingWritten PROVE c1 = <<>>
    OBVIOUS
  <2>1. ~ w.st.isAnythingWritten /\ y = <<>>
    BY <1>2
  <2>2. c = <<>>
    BY <2>1 DEF Owes, c, n
  <2>3. n1 = n
    BY <1>2, <2>1, EmptySeq, WriteNothing DEF n1, NetOK, n
  <2> QED
    BY <2>2, <2>3 DEF c1, c
<1>15. Says(c1, BufferedOf(r.st), s, sd, fl2)
  BY <1>12, <1>13 DEF Says
<1>16. Owes(r.st, sd, fl2, cl, n1.room, rs1, id, s)
  BY <1>3, <1>4, <1>12, <1>13, <1>14, <1>15 DEF Owes, Ended, c1
<1> QED
  BY <1>2, <1>7, <1>16 DEF r, n

\* What FCGX_FClose of stream s, the last one or not, leaves to be known.
Closes(w, r, s, id, E, x, fl2) ==
    /\ \E b, all : Carries(w.net, r.net, s, id, b, all)
    /\ Ordered(Records(r.net.wire), id, E \cup {s}, x \/ w.req.nWriters = 1)
    /\ w.req.nWriters # 1 => NoEnd(w.net, r.net, id)
    /\ EndsSay(Records(w.net.wire), id, w.req.appStatus)
         => EndsSay(Records(r.net.wire), id, w.req.appStatus)
    /\ w.req.nWriters = 1 /\ (r.net.room > 0 \/ fl2 = -1) => HasEnd(Records(r.net.wire), id)
    /\ HasEnd(Records(r.net.wire), id) =>
         \/ HasEnd(Records(w.net.wire), id)
         \/ HasEof(Records(r.net.wire), s, id)
         \/ s = "err" /\ Content(Records(r.net.wire), s, id) = <<>>

\* A stream that never wrote anything has no content.
LEMMA NothingToEnd ==
    ASSUME NEW n, NEW n2, NEW s, NEW id, NEW b, b = <<>>, NEW all,
           Carries(n, n2, s, id, b, all), Content(Records(n.wire), s, id) = <<>>
    PROVE  Content(Records(n2.wire), s, id) = <<>>
<1> DEFINE c == Content(Records(n.wire), s, id)
           c2 == Content(Records(n2.wire), s, id)
<1>1. PICK k \in 0 .. Len(b) : Joins(c2, c, SubSeq(b, 1, k))
  BY DEF Carries
<1> HIDE DEF c2
<1>2. c = <<>>
  OBVIOUS
<1> HIDE DEF c
<1>3. Len(b) = 0 /\ b = <<>>
  BY EmptySeq
<1>4. k = 0
  BY <1>1, <1>3
<1>5. SubSeq(b, 1, 0) = <<>>
  BY <1>3, SubSeqEmpty
<1>6. <<>> \o <<>> = <<>>
  BY EmptySeq, ConcatEmptySeq
<1>7. c2 = c \o SubSeq(b, 1, k)
  BY <1>1 DEF Joins
<1>8. c2 = <<>>
  BY <1>2, <1>4, <1>5, <1>6, <1>7
<1> QED
  BY <1>8 DEF c2

\* FCGX_FClose leaves what the stream owes as it should be.
LEMMA OwesClose ==
    ASSUME NEW s \in Streams, NEW w \in Worlds(Cell), Sound(w.st, s),
           ~ w.st.wasFCloseCalled, ~ Transient, NetOK(w.net), w.req.nWriters \in 1 .. 2,
           NEW sd, NEW fl, NEW cl, NEW id \in Nat, w.req.requestId = id,
           Owes(w.st, sd, fl, cl, w.net.room, Records(w.net.wire), id, s),
           NEW E, E \subseteq Streams, NEW x \in BOOLEAN,
           Ordered(Records(w.net.wire), id, E, x), s \notin E, ~ x,
           NEW fl2,
           fl2 = IF fl = -1 /\ FClose(w).st.FCGI_errno # 0 THEN sd ELSE fl
    PROVE  LET r == FClose(w)
           IN  /\ Owes(r.st, sd, fl2, cl, r.net.room, Records(r.net.wire), id, s)
               /\ Closes(w, r, s, id, E, x, fl2)
<1> DEFINE r == FClose(w)
           y == (ContentRecord(w) \o EofRecord(w)) \o EndRecord(w)
           n == w.net
           n1 == WriteItAll(n, y)
           b == BufferedOf(w.st)
           rs == Records(n.wire)
           rs1 == Records(n1.wire)
           c == Content(rs, s, id)
           c1 == Content(rs1, s, id)
           all == Took(n, n1, y)
           last == w.req.nWriters = 1
           none == s = "err" /\ b = <<>> /\ ~ w.st.isAnythingWritten
<1>1. Collecting(w.st) /\ w.st.type = s
  BY DEF Sound
<1>2. /\ r.net = n1 /\ y \in Seq(Cell) /\ r.st.stop = Len(r.st.buff)
      /\ w.st.FCGI_errno # 0 => r.st.FCGI_errno # 0
      /\ Clean(w.st) => (r.st.FCGI_errno = 0 <=> Len(y) <= n.room)
  <2>1. w.st.isClosed => w.net.room = 0
    BY DEF Owes
  <2> QED
    BY <1>1, <2>1, CloseSends
<1>3. r.st.wasFCloseCalled /\ r.st.rawWrite
  <2>1. CellUpTo(w.req.requestId) \subseteq Cell
    BY CellsGrow
  <2> QED
    BY <1>1, <2>1, PlainCells, CloseLemma
<1>4. fl2 = IF fl = -1 /\ r.st.FCGI_errno # 0 THEN sd ELSE fl
  OBVIOUS
<1> HIDE DEF r
<1>5. sd \in Nat /\ c \in Seq(Cell) /\ Says(c, b, s, sd, fl)
  BY DEF Owes
<1>6. sd # -1
  BY <1>5
<1>7. b \in Seq(Cell)
  BY BufferedTyped DEF Worlds
<1>8. n.room > 0 => RightContent(s, id, b)
  <2> SUFFICES ASSUME n.room > 0 PROVE RightContent(s, id, b)
    OBVIOUS
  <2>1. fl = -1
    BY DEF Owes
  <2>2. Ahead(c, b, s, sd)
    BY <1>5, <2>1 DEF Says
  <2> HIDE DEF c, b
  <2> QED
    BY <1>5, <1>7, <2>2, OwesData
<1>9. Ends(w, n, n1, s, id, b, all, E, x)
  BY <1>1, <1>8, EndsSent
<1>10. n1 \in NetType /\ n1.room = n.room - Smaller(n.room, Len(y))
  <2> HIDE DEF y
  <2> QED
    BY <1>2, WriteFields DEF NetOK
<1>11. n.room \in Nat /\ n1.room \in Nat /\ Len(y) \in Nat
  BY <1>2, <1>10, LenProperties DEF NetOK, NetType
<1> HIDE DEF n1, y, n, all, b, c, c1
<1>12. /\ fl # -1 => n.room = 0
       /\ w.st.FCGI_errno # 0 => fl # -1
       /\ ~ cl /\ fl # -1 => w.st.FCGI_errno # 0
       /\ w.st.isClosed => fl # -1
       /\ ~ w.st.isAnythingWritten => c = <<>>
  BY DEF Owes, n, c
<1>13. Carries(n, n1, s, id, b, all)
  BY <1>9 DEF Ends
<1>14. all \in BOOLEAN /\ (n1.room > 0 => all) /\ (Len(y) <= n.room => all)
  BY DEF all, Took
<1>15. /\ fl # -1 => n.room = 0 /\ fl2 = fl
       /\ fl = -1 => Clean(w.st)
       /\ fl2 = -1 => fl = -1
       /\ fl2 = -1 => all
  <2>1. fl = -1 => Clean(w.st)
    BY <1>12 DEF Clean
  <2>2. fl # -1 => fl2 = fl
    BY <1>4
  <2>3. ASSUME fl = -1, fl2 = -1 PROVE all
    <3>1. r.st.FCGI_errno = 0
      BY <1>4, <1>6, <2>3
    <3>2. Len(y) <= n.room
      BY <1>2, <2>1, <2>3, <3>1 DEF n
    <3> QED
      BY <1>14, <3>2
  <2> QED
    BY <1>12, <2>1, <2>2, <2>3
<1>16. fl2 # -1 => n1.room = 0
  <2>1. CASE fl # -1
    BY <1>12, <1>13, <2>1 DEF Carries
  <2>2. ASSUME fl = -1, fl2 # -1 PROVE n1.room = 0
    <3>1. r.st.FCGI_errno # 0
      BY <1>4, <2>2
    <3>2. ~ (Len(y) <= n.room)
      BY <1>2, <1>15, <2>2, <3>1 DEF n
    <3> QED
      BY <1>10, <1>11, <3>2 DEF Smaller
  <2> QED
    BY <2>1, <2>2
<1>17. /\ r.st.FCGI_errno # 0 => fl2 # -1
       /\ ~ cl /\ fl2 # -1 => r.st.FCGI_errno # 0
  <2>1. CASE fl # -1
    BY <1>2, <1>12, <1>15, <2>1
  <2>2. CASE fl = -1
    BY <1>4, <1>6, <2>2
  <2> QED
    BY <2>1, <2>2
<1>18. Says(c1, <<>>, s, sd, fl2) /\ c1 \in Seq(Cell)
  <2>1. Sends(n, n1, s, id, b, sd, fl, fl2)
    <3>1. fl # -1 => n.room = 0 /\ fl2 = fl
      BY <1>15
    <3>2. fl = -1 /\ fl2 = -1 => all = TRUE
      BY <1>14, <1>15
    <3>3. Says(Content(Records(n.wire), s, id), b, s, sd, fl)
      BY <1>5 DEF c
    <3> QED
      BY <1>13, <1>14, <3>1, <3>2, <3>3 DEF Sends
  <2> QED
    BY <1>5, <1>7, <2>1, SaysSend DEF c1
<1>19. none => c1 = <<>>
  <2> SUFFICES ASSUME none PROVE c1 = <<>>
    OBVIOUS
  <2>1. Content(Records(n.wire), s, id) = <<>> /\ b = <<>>
    BY <1>12 DEF c
  <2> QED
    BY <1>13, <2>1, NothingToEnd DEF c1
<1>20. (n1.room > 0 \/ fl2 = -1) => HasEof(rs1, s, id) \/ (s = "err" /\ c1 = <<>>)
  BY <1>9, <1>14, <1>15, <1>19 DEF Ends
<1>21. BufferedOf(r.st) = <<>>
  BY <1>3 DEF BufferedOf
<1>22. Owes(r.st, sd, fl2, cl, n1.room, rs1, id, s)
  BY <1>2, <1>3, <1>5, <1>16, <1>17, <1>18, <1>20, <1>21 DEF Owes, Ended, c1
<1>23. Closes(w, r, s, id, E, x, fl2)
  <2>1. last /\ (n1.room > 0 \/ fl2 = -1) => HasEnd(rs1, id)
    BY <1>9, <1>14, <1>15 DEF Ends
  <2>2. HasEnd(rs1, id) => HasEnd(rs, id) \/ HasEof(rs1, s, id) \/ (s = "err" /\ c1 = <<>>)
    BY <1>9, <1>19 DEF Ends
  <2>3. /\ Ordered(rs1, id, E \cup {s}, x \/ last)
        /\ ~ last => NoEnd(n, n1, id)
        /\ EndsSay(rs, id, w.req.appStatus) => EndsSay(rs1, id, w.req.appStatus)
    BY <1>9 DEF Ends
  <2>4. r.net = n1 /\ w.net = n
    BY <1>2 DEF n
  <2> QED
    BY <1>13, <2>1, <2>2, <2>3, <2>4 DEF Closes, c1
<1> QED
  BY <1>2, <1>22, <1>23 DEF r

(***************************************************************************)
(* The invariant of the response                                           *)
(***************************************************************************)

Id == request.requestId

Closed == {s \in Streams : stream[s].wasFCloseCalled}

Owed(s) == Owes(stream[s], said[s], failed[s], cleared, net.room, recs, Id, s)

Stated ==
    /\ Len(claimed) <= 1
    /\ request.nWriters > 0 /\ claimed # <<>> => claimed[1] = request.appStatus
    /\ claimed # <<>> => EndsSay(recs, Id, claimed[1])

Ending ==
    /\ BothClosed /\ (net.room > 0 \/ \A s \in Streams : failed[s] = -1) => HasEnd(recs, Id)
    /\ HasEnd(recs, Id) =>
         /\ HasEof(recs, "out", Id)
         /\ HasEof(recs, "err", Id) \/ Content(recs, "err", Id) = <<>>

Between ==
    /\ ~ request.active => Id = 0 \/ BothClosed
    /\ ~ request.active /\ net.open => \A s \in Streams : stream[s].FCGI_errno = 0
    /\ Id = 0 => ~ net.open /\ net.wire = <<>>
    /\ call.op = "Finish" => stream["err"].wasFCloseCalled

Previous(rs, room, id) ==
    rs # <<>> /\ room > 0 /\ rs[Len(rs)].id # id =>
       rs[Len(rs)].id = id - 1 /\ HasEnd(rs, id - 1)

RInv ==
    /\ NetOK(net) /\ recs = Records(net.wire)
    /\ Ordered(recs, Id, Closed, BothClosed)
    /\ \A s \in Streams : Owed(s)
    /\ Stated
    /\ Ending
    /\ Between
    /\ Previous(recs, net.room, Id)

\* What a step adds to the records is of the current request, and a
\* connection on which a write has failed takes nothing any more.
Grown == Id' = Id /\ Grows(recs, recs', Id) /\ (net.room = 0 => recs' = recs)

\* The end of a request is sent when both streams are closed, not before.
LEMMA NoEndYet ==
    ASSUME NEW rs, NEW id, NEW E, NEW x \in BOOLEAN, Ordered(rs, id, E, x), ~ x
    PROVE  ~ HasEnd(rs, id) /\ \A v : EndsSay(rs, id, v)
BY DEF Ordered, Allowed, HasEnd, EndsSay, IsEnd

\* The last record.
LEMMA PreviousGrows ==
    ASSUME NEW rs, NEW rs2, NEW id \in Nat, Grows(rs, rs2, id),
           NEW room \in Nat, NEW room2 \in Nat, room2 <= room, Previous(rs, room, id)
    PROVE  Previous(rs2, room2, id)
<1> DEFINE m == Len(rs)
           n == Len(rs2)
<1>1. /\ m \in Nat /\ n \in Nat /\ m <= n
      /\ rs \in Seq(RecordType) /\ rs2 \in Seq(RecordType)
      /\ \A i \in 1 .. m : rs2[i] = rs[i]
      /\ \A i \in 1 .. n : i > m => rs2[i].id = id
  BY LenProperties DEF Grows
<1> SUFFICES ASSUME rs2 # <<>>, room2 > 0, rs2[n].id # id
             PROVE  rs2[n].id = id - 1 /\ HasEnd(rs2, id - 1)
  BY DEF Previous
<1>2. n # 0
  BY <1>1, EmptySeq
<1> HIDE DEF m, n
<1>3. n \in 1 .. n
  BY <1>1, <1>2
<1>4. ~ (n > m)
  BY <1>1, <1>3
<1>5. n = m
  BY <1>1, <1>4
<1>6. rs # <<>>
  <2>1. m # 0
    BY <1>2, <1>5
  <2> QED
    BY <1>1, <2>1, EmptySeq DEF m
<1>7. rs2[n] = rs[m]
  BY <1>1, <1>3, <1>5
<1>8. room > 0
  OBVIOUS
<1>9. rs[m].id = id - 1 /\ HasEnd(rs, id - 1)
  BY <1>6, <1>7, <1>8 DEF Previous, m
<1>10. HasEnd(rs2, id - 1)
  <2> DEFINE j == id - 1
  <2>1. HasEnd(rs, j)
    BY <1>9
  <2> HIDE DEF j
  <2>2. HasEnd(rs2, j)
    BY <2>1, GrowsMarks
  <2> QED
    BY <2>2 DEF j
<1> QED
  BY <1>7, <1>9, <1>10

\* The invariant gives every operation what it assumes.
LEMMA StepWorld ==
    ASSUME IInv, RInv, NEW s \in Streams
    PROVE  /\ World(s) \in Worlds(Cell) /\ Sound(World(s).st, s)
           /\ World(s).st = stream[s] /\ World(s).req = request /\ World(s).net = net
           /\ Id \in Nat /\ recs = Records(net.wire)
           /\ Ordered(Records(net.wire), Id, Closed, BothClosed)
           /\ Owes(stream[s], said[s], failed[s], cleared, net.room, Records(net.wire), Id, s)
           /\ ~ stream[s].wasFCloseCalled => s \notin Closed /\ ~ BothClosed
           /\ Closed \subseteq Streams /\ BothClosed \in BOOLEAN
           /\ net.room \in Nat /\ NetOK(net)
<1>1. World(s) \in Worlds(CellUpTo(Level)) /\ Sound(World(s).st, s)
  BY WorldLemma
<1>2. Level \in Int
  BY LevelLemma
<1>3. CellUpTo(Level) \subseteq Cell
  BY <1>2, CellsGrow
<1>4. World(s) \in Worlds(Cell)
  <2>1. /\ StreamOver(CellUpTo(Level)) \subseteq StreamOver(Cell)
        /\ NetOver(CellUpTo(Level)) \subseteq NetOver(Cell)
    BY <1>3, WorldsGrow
  <2> QED
    BY <1>1, <2>1 DEF Worlds
<1>5. Id \in Nat
  BY DEF IInv, RequestType, Id
<1>6. net.room \in Nat
  BY DEF RInv, NetOK, NetType
<1>7. recs = Records(net.wire) /\ NetOK(net) /\ Ordered(recs, Id, Closed, BothClosed) /\ Owed(s)
  BY DEF RInv
<1>8. /\ ~ stream[s].wasFCloseCalled => s \notin Closed /\ ~ BothClosed
      /\ Closed \subseteq Streams /\ BothClosed \in BOOLEAN
  BY DEF Closed, BothClosed
<1>9. World(s).st = stream[s] /\ World(s).req = request /\ World(s).net = net
  BY DEF World
<1> QED
  BY <1>1, <1>4, <1>5, <1>6, <1>7, <1>8, <1>9 DEF Owed

\* What a step of stream s leaves of the invariant: all that is not about
\* the end of the request.
LEMMA StepRest ==
    ASSUME IInv, RInv, NEW s \in Streams, NEW v, NEW m, Become(s, v, m),
           recs' = Records(net'.wire), cleared' = cleared,
           v.req.requestId = Id, NEW n2, v.net.wire = n2.wire, v.net.room = n2.room,
           v.net \in NetType,
           NEW b, NEW all, Carries(net, n2, s, Id, b, all),
           Owes(v.st, said[s] + m, failed'[s], cleared, n2.room, Records(n2.wire), Id, s)
    PROVE  /\ NetOK(net') /\ recs' = Records(net'.wire)
           /\ Id' = Id
           /\ \A u \in Streams : Owed(u)'
           /\ Previous(recs', net'.room, Id')
           /\ Grows(recs, recs', Id)
           /\ net'.room <= net.room
           /\ net.room = 0 => recs' = recs
           /\ \A u \in Streams : failed'[u] = -1 => failed[u] = -1
           /\ \A u \in Streams : u # s => Content(recs', u, Id) = Content(recs, u, Id)
<1>1. /\ NetOK(n2) /\ n2.room <= net.room /\ (net.room = 0 => n2 = net)
      /\ Grows(Records(net.wire), Records(n2.wire), Id)
      /\ \A u \in Streams : u # s =>
           Content(Records(n2.wire), u, Id) = Content(Records(net.wire), u, Id)
  BY DEF Carries
<1>2. /\ stream' = [stream EXCEPT ![s] = v.st] /\ request' = v.req /\ net' = v.net
      /\ said' = [said EXCEPT ![s] = @ + m]
      /\ failed' = [failed EXCEPT ![s] =
                      IF @ = -1 /\ v.st.FCGI_errno # 0 THEN said[s] + m ELSE @]
  BY DEF Become
<1>3. /\ stream \in [Streams -> StreamOver(CellUpTo(Level))] /\ said \in [Streams -> Nat]
      /\ failed \in [Streams -> Nat \cup {-1}]
  BY DEF IInv
<1>4. Id' = Id /\ net'.wire = n2.wire /\ net'.room = n2.room
  BY <1>2 DEF Id
<1>5. recs = Records(net.wire) /\ NetOK(net) /\ Previous(recs, net.room, Id)
      /\ \A u \in Streams : Owed(u)
  BY DEF RInv
<1>6. net.room \in Nat /\ n2.room \in Nat /\ Id \in Nat
  BY <1>1, <1>5 DEF NetOK, NetType, IInv, RequestType, Id
<1>7. NetOK(net')
  BY <1>1, <1>2, <1>4 DEF NetOK
<1>8. Grows(recs, recs', Id) /\ recs' = Records(n2.wire)
  BY <1>1, <1>4, <1>5
<1>9. ASSUME NEW u \in Streams
      PROVE  Owed(u)'
  <2>1. CASE u = s
    <3>1. stream'[s] = v.st /\ said'[s] = said[s] + m
      BY <1>2, <1>3
    <3>2. Owes(stream'[s], said'[s], failed'[s], cleared', net'.room, recs', Id', s)
      BY <1>4, <1>8, <3>1
    <3> QED
      BY <2>1, <3>2 DEF Owed
  <2>2. CASE u # s
    <3>1. stream'[u] = stream[u] /\ said'[u] = said[u] /\ failed'[u] = failed[u]
      BY <1>2, <1>3, <2>2
    <3>2. Owes(stream[u], said[u], failed[u], cleared, net.room, recs, Id, u)
      BY <1>5 DEF Owed
    <3>3. Content(recs', u, Id) = Content(recs, u, Id)
      BY <1>1, <1>5, <1>8, <2>2
    <3>4. Owes(stream[u], said[u], failed[u], cleared, n2.room, recs', Id, u)
      BY <1>1, <1>6, <1>8, <3>2, <3>3, OwesOther
    <3>5. Owes(stream'[u], said'[u], failed'[u], cleared', net'.room, recs', Id', u)
      BY <1>4, <3>1, <3>4
    <3> QED
      BY <3>5 DEF Owed
  <2> QED
    BY <2>1, <2>2
<1>10. Previous(recs', net'.room, Id')
  <2>1. Previous(recs', n2.room, Id)
    BY <1>1, <1>5, <1>6, <1>8, PreviousGrows
  <2> QED
    BY <1>4, <2>1
<1>11. ASSUME NEW u \in Streams, failed'[u] = -1 PROVE failed[u] = -1
  <2>1. CASE u = s
    BY <1>2, <1>3, <1>11, <2>1
  <2>2. CASE u # s
    BY <1>2, <1>3, <1>11, <2>2
  <2> QED
    BY <2>1, <2>2
<1>12. \A u \in Streams : u # s => Content(recs', u, Id) = Content(recs, u, Id)
  BY <1>1, <1>5, <1>8
<1>13. net.room = 0 => recs' = recs
  BY <1>1, <1>5, <1>8
<1>14. net'.room <= net.room
  BY <1>1, <1>4
<1> QED
  BY <1>4, <1>7, <1>8, <1>9, <1>10, <1>11, <1>12, <1>13, <1>14

\* Nothing is sent.
LEMMA StandsStill ==
    ASSUME RInv, NEW s \in Streams
    PROVE  Carries(net, net, s, Id, <<>>, TRUE) /\ NoEnd(net, net, Id)
<1> DEFINE c == Content(Records(net.wire), s, Id)
<1>1. NetOK(net)
  BY DEF RInv
<1>2. Marks(net, net, Id) /\ NoEnd(net, net, Id)
  BY <1>1, NothingSent
<1>3. c \in Seq(Cell)
  BY DEF RInv, Owed, Owes
<1>4. c \o <<>> = c /\ SubSeq(<<>>, 1, 0) = <<>> /\ Len(<<>>) = 0
  BY <1>3, ConcatEmptySeq, SubSeqEmpty, EmptySeq
<1>5. 0 \in 0 .. Len(<<>>) /\ Joins(c, c, SubSeq(<<>>, 1, 0))
  <2>1. 0 \in 0 .. Len(<<>>)
    BY <1>4
  <2> HIDE DEF c
  <2>2. c = c \o SubSeq(<<>>, 1, 0)
    BY <1>4
  <2> QED
    BY <2>1, <2>2 DEF Joins
<1> QED
  BY <1>2, <1>3, <1>4, <1>5 DEF Carries, Marks

\* A step of a stream that does not close it.
LEMMA OpenStep ==
    ASSUME IInv, RInv, NEW s \in Streams, NEW v \in Worlds(Cell), NEW m, Become(s, v, m),
           recs' = Records(net'.wire), cleared' = cleared, claimed' = claimed,
           request.active, call'.op # "Finish", v.req = request,
           v.st.wasFCloseCalled = stream[s].wasFCloseCalled,
           v.net = net \/ ~ BothClosed,
           NEW b, NEW all, Carries(net, v.net, s, Id, b, all), NoEnd(net, v.net, Id),
           Ordered(Records(v.net.wire), Id, Closed, BothClosed),
           Owes(v.st, said[s] + m, failed'[s], cleared, v.net.room, Records(v.net.wire), Id, s)
    PROVE  RInv' /\ Grown
<1>1. v.req.requestId = Id /\ v.net \in NetType
  BY DEF Id, Worlds, NetType, NetOver
<1>2. /\ NetOK(net') /\ recs' = Records(net'.wire)
      /\ Id' = Id
      /\ \A u \in Streams : Owed(u)'
      /\ Previous(recs', net'.room, Id')
      /\ Grows(recs, recs', Id)
      /\ net'.room <= net.room
      /\ net.room = 0 => recs' = recs
      /\ \A u \in Streams : failed'[u] = -1 => failed[u] = -1
      /\ \A u \in Streams : u # s => Content(recs', u, Id) = Content(recs, u, Id)
  BY <1>1, StepRest
<1>3. \A u \in Streams : stream'[u].wasFCloseCalled = stream[u].wasFCloseCalled
  BY DEF Become, IInv
<1>4. Closed' = Closed /\ BothClosed' = BothClosed
  BY <1>3 DEF Closed, BothClosed
<1>5. net' = v.net /\ request' = request
  BY DEF Become
<1>6. Ordered(recs', Id', Closed', BothClosed')
  BY <1>2, <1>4, <1>5
<1>7. recs = Records(net.wire) /\ Stated /\ Ending /\ Between
  BY DEF RInv
<1>8. /\ HasEnd(recs', Id) => HasEnd(recs, Id)
      /\ \A w : EndsSay(recs, Id, w) => EndsSay(recs', Id, w)
  BY <1>2, <1>5, <1>7 DEF NoEnd
<1>9. \A w : (HasEof(recs, w, Id) => HasEof(recs', w, Id)) /\ (HasEnd(recs, Id) => HasEnd(recs', Id))
  BY <1>2, GrowsMarks
<1>10. Stated'
  BY <1>2, <1>5, <1>7, <1>8 DEF Stated
<1>11. Ending'
  <2>1. net.room \in Nat /\ net'.room \in Nat
    BY <1>2 DEF RInv, NetOK, NetType
  <2>2. net'.room > 0 => net.room > 0
    BY <1>2, <2>1
  <2>3. ASSUME HasEnd(recs', Id)
        PROVE  HasEof(recs', "out", Id)
               /\ (HasEof(recs', "err", Id) \/ Content(recs', "err", Id) = <<>>)
    <3>1. HasEnd(recs, Id)
      BY <1>8, <2>3
    <3>2. BothClosed
      <4>1. Ordered(recs, Id, Closed, BothClosed) /\ BothClosed \in BOOLEAN
        BY DEF RInv, BothClosed
      <4> QED
        BY <3>1, <4>1, NoEndYet
    <3>3. recs' = recs
      BY <1>2, <1>5, <1>7, <3>2
    <3> QED
      BY <1>7, <3>1, <3>3 DEF Ending
  <2>4. BothClosed /\ (net'.room > 0 \/ \A u \in Streams : failed'[u] = -1) => HasEnd(recs', Id)
    BY <1>2, <1>7, <1>9, <2>2 DEF Ending
  <2> QED
    BY <1>2, <1>4, <2>3, <2>4 DEF Ending
<1>12. Between'
  <2>1. Id # 0
    BY DEF IInv, Id
  <2> QED
    BY <1>2, <1>5, <2>1 DEF Between
<1> QED
  BY <1>2, <1>6, <1>10, <1>11, <1>12 DEF RInv, Grown

\* FCGX_PutStr.
LEMMA PutStrOwed ==
    ASSUME IInv, RInv, ~ Transient, NEW s \in Streams, NEW left \in Nat, request.active,
           PutStrIteration(s, left), recs' = Records(net'.wire), UNCHANGED <<cleared, claimed>>
    PROVE  RInv' /\ Grown
<1> DEFINE n == Space(stream[s])
           m == IF left <= n THEN left ELSE n
           w == Put(World(s), Bytes(s, said[s], m))
           e == EmptyBuffProc(w, FALSE)
           sd == said[s] + m
<1>1. /\ World(s) \in Worlds(Cell) /\ Sound(World(s).st, s)
      /\ World(s).st = stream[s] /\ World(s).req = request /\ World(s).net = net
      /\ Id \in Nat /\ recs = Records(net.wire)
      /\ Ordered(Records(net.wire), Id, Closed, BothClosed)
      /\ Owes(stream[s], said[s], failed[s], cleared, net.room, Records(net.wire), Id, s)
      /\ ~ stream[s].wasFCloseCalled => s \notin Closed /\ ~ BothClosed
      /\ BothClosed \in BOOLEAN /\ NetOK(net)
  BY StepWorld
<1>2. n \in Nat
  <2>1. stream[s].buff \in Seq(Cell) /\ stream[s].stop \in Nat
    BY <1>1 DEF Worlds, StreamOver
  <2>2. Len(stream[s].buff) \in Nat /\ Len(stream[s].buff) <= stream[s].stop
    BY <1>1, <2>1, LenProperties DEF Sound, Collecting
  <2> QED
    BY <2>1, <2>2 DEF Space
<1>3. m \in Nat /\ m <= n /\ said[s] \in Nat
  BY <1>2 DEF IInv
<1> HIDE DEF m
<1>4. Bytes(s, said[s], m) \in Seq(Cell) /\ Len(Bytes(s, said[s], m)) = m
  BY <1>3, BytesAre
<1>5. /\ w \in Worlds(Cell) /\ Sound(w.st, s) /\ w.req = request
      /\ w.st.wasFCloseCalled = stream[s].wasFCloseCalled
      /\ w.st.isClosed <=> stream[s].isClosed
  BY <1>1, <1>3, <1>4, PutLemma
<1>6. w.net = net /\ w.st.FCGI_errno = stream[s].FCGI_errno
  BY <1>1 DEF Put, Worlds, StreamOver
<1>7. Owes(w.st, sd, failed[s], cleared, net.room, Records(net.wire), Id, s)
  <2> DEFINE fl == failed[s]
             rs == Records(net.wire)
             room == net.room
             sd0 == said[s]
             id == Id
  <2>1. Owes(World(s).st, sd0, fl, cleared, room, rs, id, s) /\ m <= Space(World(s).st)
    BY <1>1, <1>3
  <2> HIDE DEF fl, rs, room, sd0, id
  <2>2. Owes(Put(World(s), Bytes(s, sd0, m)).st, sd0 + m, fl, cleared, room, rs, id, s)
    BY <1>1, <1>3, <2>1, OwesPut
  <2> QED
    BY <2>2 DEF fl, rs, room, sd0, id
<1> HIDE DEF w, n
<1>8. Carries(net, net, s, Id, <<>>, TRUE) /\ NoEnd(net, net, Id)
  BY StandsStill
<1>9. CASE Become(s, w, m) /\ call' = Idle
  <2>1. failed'[s] = failed[s]
    <3>1. failed'[s] = IF failed[s] = -1 /\ w.st.FCGI_errno # 0 THEN said[s] + m ELSE failed[s]
      BY <1>9 DEF Become, IInv
    <3>2. stream[s].FCGI_errno # 0 => failed[s] # -1
      BY <1>1 DEF Owes
    <3> QED
      BY <1>6, <3>1, <3>2
  <2>2. call'.op # "Finish"
    BY <1>9 DEF Idle
  <2>3. /\ Carries(net, w.net, s, Id, <<>>, TRUE) /\ NoEnd(net, w.net, Id)
        /\ Ordered(Records(w.net.wire), Id, Closed, BothClosed)
        /\ Owes(w.st, said[s] + m, failed'[s], cleared, w.net.room, Records(w.net.wire), Id, s)
        /\ w.net = net \/ ~ BothClosed
    BY <1>1, <1>6, <1>7, <1>8, <2>1
  <2> QED
    BY <1>5, <1>9, <2>2, <2>3, OpenStep
<1>10. CASE /\ m < left /\ ~ stream[s].isClosed
            /\ Become(s, e, m)
            /\ call' = [op |-> "PutStr", s |-> s, left |-> left - m]
  <2>1. ~ stream[s].wasFCloseCalled
    BY <1>1, <1>10 DEF Sound
  <2>2. Collecting(w.st)
    BY <1>5, <2>1 DEF Sound
  <2>3. e \in Worlds(Cell) /\ SameStream(e, w) /\ e.req = w.req
    BY <1>5, <2>2, PlainCells, FlushLemma
  <2>4. failed'[s] = IF failed[s] = -1 /\ e.st.FCGI_errno # 0 THEN sd ELSE failed[s]
    BY <1>10 DEF Become, IInv
  <2>5. /\ Owes(e.st, sd, failed'[s], cleared, e.net.room, Records(e.net.wire), Id, s)
        /\ \E b, all : Carries(net, e.net, s, Id, b, all)
        /\ Ordered(Records(e.net.wire), Id, Closed, BothClosed)
        /\ NoEnd(net, e.net, Id)
    <3> DEFINE fl == failed[s]
               fl2 == failed'[s]
               id == Id
               cl == cleared
               E == Closed
               x == BothClosed
    <3>1. /\ ~ w.st.wasFCloseCalled /\ NetOK(w.net) /\ id \in Nat /\ w.req.requestId = id
          /\ Owes(w.st, sd, fl, cl, w.net.room, Records(w.net.wire), id, s)
          /\ x \in BOOLEAN /\ Ordered(Records(w.net.wire), id, E, x) /\ s \notin E /\ ~ x
          /\ fl2 = IF fl = -1 /\ EmptyBuffProc(w, FALSE).st.FCGI_errno # 0 THEN sd ELSE fl
      BY <1>1, <1>5, <1>6, <1>7, <2>1, <2>4 DEF Id
    <3> HIDE DEF fl, fl2, id, cl, E, x, sd
    <3>2. /\ Owes(e.st, sd, fl2, cl, e.net.room, Records(e.net.wire), id, s)
          /\ \E b, all : Carries(w.net, e.net, s, id, b, all)
          /\ Ordered(Records(e.net.wire), id, E, x)
          /\ NoEnd(w.net, e.net, id)
      BY <1>5, <3>1, OwesFlush
    <3> QED
      BY <1>6, <3>2 DEF fl, fl2, id, cl, E, x, sd
  <2> HIDE DEF e
  <2>6. call'.op # "Finish"
    BY <1>10
  <2>7. PICK b, all : Carries(net, e.net, s, Id, b, all)
    BY <2>5
  <2>8. e.st.wasFCloseCalled = stream[s].wasFCloseCalled /\ ~ BothClosed
    BY <1>1, <1>5, <2>1, <2>3 DEF SameStream
  <2> QED
    BY <1>5, <1>10, <2>3, <2>5, <2>6, <2>7, <2>8, OpenStep
<1> QED
  BY <1>9, <1>10 DEF PutStrIteration, m, n, w, e

\* FCGX_FFlush.
LEMMA FFlushOwed ==
    ASSUME IInv, RInv, ~ Transient, NEW s \in Streams, FFlush(s), recs' = Records(net'.wire)
    PROVE  RInv' /\ Grown
<1> DEFINE w == World(s)
           e == EmptyBuffProc(w, FALSE)
<1>1. /\ w \in Worlds(Cell) /\ Sound(w.st, s)
      /\ w.st = stream[s] /\ w.req = request /\ w.net = net
      /\ Id \in Nat /\ recs = Records(net.wire)
      /\ Ordered(Records(net.wire), Id, Closed, BothClosed)
      /\ Owes(stream[s], said[s], failed[s], cleared, net.room, Records(net.wire), Id, s)
      /\ ~ stream[s].wasFCloseCalled => s \notin Closed /\ ~ BothClosed
      /\ BothClosed \in BOOLEAN /\ NetOK(net)
  BY StepWorld
<1> HIDE DEF w
<1>2. /\ request.active /\ ~ stream[s].isClosed /\ Become(s, e, 0)
      /\ call' = call /\ call = Idle /\ cleared' = cleared /\ claimed' = claimed
  BY DEF FFlush, w
<1>3. ~ stream[s].wasFCloseCalled
  BY <1>1, <1>2 DEF Sound
<1>4. e \in Worlds(Cell) /\ SameStream(e, w) /\ e.req = w.req
  BY <1>1, <1>3, PlainCells, FlushLemma DEF Sound
<1>5. said[s] \in Nat /\ said[s] + 0 = said[s]
  BY DEF IInv
<1>6. failed'[s] = IF failed[s] = -1 /\ e.st.FCGI_errno # 0 THEN said[s] ELSE failed[s]
  BY <1>2, <1>5 DEF Become, IInv
<1>7. /\ Owes(e.st, said[s], failed'[s], cleared, e.net.room, Records(e.net.wire), Id, s)
      /\ \E b, all : Carries(net, e.net, s, Id, b, all)
      /\ Ordered(Records(e.net.wire), Id, Closed, BothClosed)
      /\ NoEnd(net, e.net, Id)
  <2> DEFINE fl == failed[s]
             fl2 == failed'[s]
             id == Id
             cl == cleared
             E == Closed
             x == BothClosed
             sd == said[s]
  <2>1. /\ ~ w.st.wasFCloseCalled /\ NetOK(w.net) /\ id \in Nat /\ w.req.requestId = id
        /\ Owes(w.st, sd, fl, cl, w.net.room, Records(w.net.wire), id, s)
        /\ x \in BOOLEAN /\ Ordered(Records(w.net.wire), id, E, x) /\ s \notin E /\ ~ x
        /\ fl2 = IF fl = -1 /\ EmptyBuffProc(w, FALSE).st.FCGI_errno # 0 THEN sd ELSE fl
    BY <1>1, <1>3, <1>6 DEF Id
  <2> HIDE DEF fl, fl2, id, cl, E, x, sd
  <2>2. /\ Owes(e.st, sd, fl2, cl, e.net.room, Records(e.net.wire), id, s)
        /\ \E b, all : Carries(w.net, e.net, s, id, b, all)
        /\ Ordered(Records(e.net.wire), id, E, x)
        /\ NoEnd(w.net, e.net, id)
    BY <1>1, <2>1, OwesFlush
  <2> QED
    BY <1>1, <2>2 DEF fl, fl2, id, cl, E, x, sd
<1> HIDE DEF e
<1>8. call'.op # "Finish"
  BY <1>2 DEF Idle
<1>9. PICK b, all : Carries(net, e.net, s, Id, b, all)
  BY <1>7
<1>10. e.st.wasFCloseCalled = stream[s].wasFCloseCalled /\ ~ BothClosed /\ e.req = request
  BY <1>1, <1>3, <1>4 DEF SameStream
<1>11. Owes(e.st, said[s] + 0, failed'[s], cleared, e.net.room, Records(e.net.wire), Id, s)
  BY <1>5, <1>7
<1> QED
  BY <1>2, <1>4, <1>7, <1>8, <1>9, <1>10, <1>11, OpenStep

\* FCGX_FClose of a stream that is open.
LEMMA CloseStep ==
    ASSUME IInv, RInv, ~ Transient, NEW s \in Streams, request.active,
           ~ stream[s].wasFCloseCalled,
           NEW v, Become(s, v, 0), v.st = FClose(World(s)).st,
           v.net.wire = FClose(World(s)).net.wire, v.net.room = FClose(World(s)).net.room,
           v.net \in NetType, v.req.requestId = Id, v.req.appStatus = request.appStatus,
           v.req.nWriters = request.nWriters - 1,
           recs' = Records(net'.wire), cleared' = cleared, claimed' = claimed, Between'
    PROVE  RInv' /\ Grown
<1> DEFINE w == World(s)
           r == FClose(w)
           fl2 == failed'[s]
           last == request.nWriters = 1
<1>1. /\ w \in Worlds(Cell) /\ Sound(w.st, s)
      /\ w.st = stream[s] /\ w.req = request /\ w.net = net
      /\ Id \in Nat /\ recs = Records(net.wire)
      /\ Ordered(Records(net.wire), Id, Closed, BothClosed)
      /\ Owes(stream[s], said[s], failed[s], cleared, net.room, Records(net.wire), Id, s)
      /\ s \notin Closed /\ ~ BothClosed /\ Closed \subseteq Streams
      /\ BothClosed \in BOOLEAN /\ NetOK(net) /\ net.room \in Nat
  BY StepWorld
<1>2. /\ request.nWriters \in 1 .. 2
      /\ last <=> \A t \in Streams \ {s} : Unclosed(t) = 0
  BY LastWriterLemma
<1>3. said[s] \in Nat /\ said[s] + 0 = said[s]
  BY DEF IInv
<1>4. r.st.wasFCloseCalled
  BY FCloseLemma
<1> HIDE DEF w
<1>5. fl2 = IF failed[s] = -1 /\ r.st.FCGI_errno # 0 THEN said[s] ELSE failed[s]
  BY <1>3 DEF Become, IInv, w
<1>6. /\ Owes(r.st, said[s], fl2, cleared, r.net.room, Records(r.net.wire), Id, s)
      /\ Closes(w, r, s, Id, Closed, BothClosed, fl2)
  <2> DEFINE fl == failed[s]
             id == Id
             cl == cleared
             E == Closed
             x == BothClosed
             sd == said[s]
  <2>1. /\ ~ w.st.wasFCloseCalled /\ NetOK(w.net) /\ id \in Nat /\ w.req.requestId = id
        /\ w.req.nWriters \in 1 .. 2
        /\ Owes(w.st, sd, fl, cl, w.net.room, Records(w.net.wire), id, s)
        /\ E \subseteq Streams
        /\ x \in BOOLEAN /\ Ordered(Records(w.net.wire), id, E, x) /\ s \notin E /\ ~ x
        /\ fl2 = IF fl = -1 /\ FClose(w).st.FCGI_errno # 0 THEN sd ELSE fl
    BY <1>1, <1>2, <1>5 DEF Id
  <2> HIDE DEF fl, fl2, id, cl, E, x, sd
  <2>2. /\ Owes(r.st, sd, fl2, cl, r.net.room, Records(r.net.wire), id, s)
        /\ Closes(w, r, s, id, E, x, fl2)
    BY <1>1, <2>1, OwesClose
  <2> QED
    BY <2>2 DEF fl, id, cl, E, x, sd
<1>7. v.st = r.st /\ v.net.wire = r.net.wire /\ v.net.room = r.net.room
  BY DEF w
<1> HIDE DEF r
<1> DEFINE n2 == r.net
           rs2 == Records(n2.wire)
<1>8. /\ \E b, all : Carries(net, n2, s, Id, b, all)
      /\ Ordered(rs2, Id, Closed \cup {s}, last)
      /\ ~ last => NoEnd(net, n2, Id)
      /\ EndsSay(recs, Id, request.appStatus) => EndsSay(rs2, Id, request.appStatus)
      /\ last /\ (n2.room > 0 \/ fl2 = -1) => HasEnd(rs2, Id)
      /\ HasEnd(rs2, Id) =>
           \/ HasEnd(recs, Id)
           \/ HasEof(rs2, s, Id)
           \/ s = "err" /\ Content(rs2, s, Id) = <<>>
  <2>1. (BothClosed \/ w.req.nWriters = 1) = last
    BY <1>1
  <2> QED
    BY <1>1, <1>6, <2>1 DEF Closes
<1>9. PICK b, all : Carries(net, n2, s, Id, b, all)
  BY <1>8
<1>10. Owes(v.st, said[s] + 0, failed'[s], cleared, n2.room, rs2, Id, s)
  BY <1>3, <1>6, <1>7
<1> HIDE DEF n2
<1>11. /\ NetOK(net') /\ recs' = Records(net'.wire)
       /\ Id' = Id
       /\ \A u \in Streams : Owed(u)'
       /\ Previous(recs', net'.room, Id')
       /\ Grows(recs, recs', Id)
       /\ net'.room <= net.room
       /\ net.room = 0 => recs' = recs
       /\ \A u \in Streams : failed'[u] = -1 => failed[u] = -1
       /\ \A u \in Streams : u # s => Content(recs', u, Id) = Content(recs, u, Id)
  <2>1. v.net.wire = n2.wire /\ v.net.room = n2.room
    BY <1>7 DEF n2
  <2> QED
    BY <1>9, <1>10, <2>1, StepRest
<1>12. recs' = rs2 /\ net'.room = n2.room
  BY <1>7, <1>11 DEF Become, n2
<1>13. /\ stream'[s] = r.st /\ \A u \in Streams : u # s => stream'[u] = stream[u]
       /\ request' = v.req
  BY <1>7 DEF Become, IInv
<1>14. Closed' = Closed \cup {s}
  BY <1>4, <1>13 DEF Closed, r
<1>15. BothClosed' = last
  <2>1. (\A u \in Streams : stream'[u].wasFCloseCalled) <=> \A u \in Streams \ {s} : Unclosed(u) = 0
    BY <1>4, <1>13 DEF Unclosed, r
  <2>2. BothClosed' <=> last
    BY <1>2, <2>1 DEF BothClosed
  <2>3. BothClosed' \in BOOLEAN /\ last \in BOOLEAN
    BY DEF BothClosed
  <2> HIDE DEF last
  <2> QED
    BY <2>2, <2>3
<1>16. Ordered(recs', Id', Closed', BothClosed')
  BY <1>8, <1>11, <1>12, <1>14, <1>15
<1>17. ~ HasEnd(recs, Id) /\ Stated /\ Ending
  <2>1. Ordered(recs, Id, Closed, BothClosed)
    BY <1>1
  <2>2. ~ HasEnd(recs, Id)
    BY <1>1, <2>1, NoEndYet
  <2> QED
    BY <2>2 DEF RInv
<1>18. Stated'
  <2>1. claimed # <<>> => claimed[1] = request.appStatus
    BY <1>2, <1>17 DEF Stated
  <2>2. claimed # <<>> => EndsSay(recs', Id, claimed[1])
    BY <1>8, <1>12, <1>17, <2>1 DEF Stated
  <2>3. request'.appStatus = request.appStatus
    BY <1>13
  <2> QED
    BY <1>11, <1>17, <2>1, <2>2, <2>3 DEF Stated
<1>19. \A u \in Streams : u # s /\ HasEnd(recs', Id) =>
            HasEof(recs', u, Id) \/ (u = "err" /\ Content(recs', u, Id) = <<>>)
  <2> SUFFICES ASSUME NEW u \in Streams, u # s, HasEnd(recs', Id)
               PROVE  HasEof(recs', u, Id) \/ (u = "err" /\ Content(recs', u, Id) = <<>>)
    OBVIOUS
  <2>1. net.room > 0
    <3>1. recs' # recs
      BY <1>17
    <3>2. net.room # 0
      BY <1>1, <1>9, <1>12, <3>1 DEF Carries
    <3> QED
      BY <1>1, <3>2
  <2>2. stream[u].wasFCloseCalled
    <3>1. BothClosed'
      BY <1>16, <1>11, <1>15, NoEndYet
    <3> QED
      BY <1>13, <3>1 DEF BothClosed
  <2>3. HasEof(recs, u, Id) \/ (u = "err" /\ Content(recs, u, Id) = <<>>)
    <3>1. Owed(u)
      BY DEF RInv
    <3> QED
      BY <2>1, <2>2, <3>1 DEF Owed, Owes, Ended
  <2>4. HasEof(recs, u, Id) => HasEof(recs', u, Id)
    BY <1>11, GrowsMarks
  <2> QED
    BY <1>11, <2>3, <2>4
<1>20. HasEnd(recs', Id) => HasEof(recs', s, Id) \/ (s = "err" /\ Content(recs', s, Id) = <<>>)
  BY <1>8, <1>12, <1>17
<1>21. Ending'
  <2>1. HasEnd(recs', Id) =>
          /\ HasEof(recs', "out", Id)
          /\ HasEof(recs', "err", Id) \/ Content(recs', "err", Id) = <<>>
    BY <1>19, <1>20 DEF Streams
  <2>2. BothClosed' /\ (net'.room > 0 \/ \A u \in Streams : failed'[u] = -1) => HasEnd(recs', Id)
    BY <1>8, <1>12, <1>15
  <2> QED
    BY <1>11, <2>1, <2>2 DEF Ending
<1> QED
  BY <1>11, <1>16, <1>18, <1>21 DEF RInv, Grown

\* A step that changes no stream.
LEMMA SameStep ==
    ASSUME RInv, net'.wire = net.wire, net'.room = net.room, net' \in NetType,
           recs' = Records(net'.wire), Id' = Id,
           stream' = stream, said' = said, failed' = failed, cleared' = cleared,
           Stated', Between'
    PROVE  RInv' /\ Grown
<1>1. NetOK(net') /\ recs' = recs
  BY DEF RInv, NetOK
<1>2. Closed' = Closed /\ BothClosed' = BothClosed
  BY DEF Closed, BothClosed
<1>3. \A s \in Streams : Owed(s)'
  <2> SUFFICES ASSUME NEW s \in Streams PROVE Owed(s)'
    OBVIOUS
  <2>1. Owes(stream[s], said[s], failed[s], cleared, net.room, recs, Id, s)
    BY DEF RInv, Owed
  <2>2. Owes(stream'[s], said'[s], failed'[s], cleared', net'.room, recs', Id', s)
    BY <1>1, <2>1
  <2> QED
    BY <2>2 DEF Owed
<1>4. Ordered(recs', Id', Closed', BothClosed') /\ Previous(recs', net'.room, Id')
  BY <1>1, <1>2 DEF RInv
<1>5. Ending'
  BY <1>1, <1>2 DEF RInv, Ending
<1>6. recs \in Seq(RecordType)
  BY DEF RInv, Ordered
<1>7. Grown
  BY <1>1, <1>6, GrowsSame DEF Grown
<1> QED
  BY <1>1, <1>3, <1>4, <1>5, <1>7 DEF RInv

\* FCGX_FClose of a stream that is closed does nothing.
LEMMA ClosedStep ==
    ASSUME IInv, RInv, NEW s \in Streams, stream[s].wasFCloseCalled,
           NEW v, Become(s, v, 0), v.st = FClose(World(s)).st,
           v.net.wire = net.wire, v.net.room = net.room, v.net \in NetType,
           v.req.requestId = Id, v.req.appStatus = request.appStatus,
           v.req.nWriters = request.nWriters,
           recs' = Records(net'.wire), cleared' = cleared, claimed' = claimed, Between'
    PROVE  RInv' /\ Grown
<1>1. FClose(World(s)) = World(s) /\ World(s).st = stream[s]
  BY DEF FClose, World
<1>2. stream[s].FCGI_errno # 0 => failed[s] # -1
  BY DEF RInv, Owed, Owes
<1>3. stream' = stream /\ said' = said /\ failed' = failed
  <2>1. stream' = [stream EXCEPT ![s] = stream[s]]
    BY <1>1 DEF Become
  <2>2. said' = [said EXCEPT ![s] = said[s]]
    <3>1. said' = [said EXCEPT ![s] = said[s] + 0]
      BY DEF Become
    <3>2. said[s] + 0 = said[s]
      BY DEF IInv
    <3> QED
      BY <3>1, <3>2
  <2>3. failed' = [failed EXCEPT ![s] = failed[s]]
    <3>1. failed' = [failed EXCEPT ![s] =
                       IF @ = -1 /\ stream[s].FCGI_errno # 0 THEN said[s] + 0 ELSE @]
      BY <1>1 DEF Become
    <3> QED
      BY <1>2, <3>1
  <2> QED
    BY <2>1, <2>2, <2>3 DEF IInv
<1>4. net' = v.net /\ request' = v.req
  BY DEF Become
<1>5. Id' = Id
  BY <1>4 DEF Id
<1>6. recs' = recs
  BY <1>4 DEF RInv
<1>7. Stated'
  <2>1. Stated
    BY DEF RInv
  <2> QED
    BY <1>4, <1>5, <1>6, <2>1 DEF Stated
<1> QED
  BY <1>3, <1>4, <1>5, <1>7, SameStep

\* What FCGX_FClose does to the request, in the words of the steps above.
LEMMA FCloseResult ==
    ASSUME IInv, RInv, NEW s \in Streams, request.active
    PROVE  LET r == FClose(World(s))
           IN  /\ r \in Worlds(Cell) /\ r.net \in NetType
               /\ r.st.wasFCloseCalled
               /\ r.req.requestId = Id /\ r.req.appStatus = request.appStatus
               /\ r.req.active
               /\ r.req.nWriters = request.nWriters - Unclosed(s)
               /\ stream[s].wasFCloseCalled => r.net = net
<1> DEFINE r == FClose(World(s))
<1>1. /\ CloseLevel(s) \in Int /\ r \in Worlds(CellUpTo(CloseLevel(s)))
      /\ r.st.wasFCloseCalled /\ r.req = [request EXCEPT !.nWriters = @ - Unclosed(s)]
  BY FCloseLemma
<1>2. stream[s].wasFCloseCalled => r.net = net
  BY DEF FClose, World
<1> HIDE DEF r
<1>3. r \in Worlds(Cell)
  <2>1. CellUpTo(CloseLevel(s)) \subseteq Cell
    BY <1>1, CellsGrow
  <2>2. /\ StreamOver(CellUpTo(CloseLevel(s))) \subseteq StreamOver(Cell)
        /\ NetOver(CellUpTo(CloseLevel(s))) \subseteq NetOver(Cell)
    BY <2>1, WorldsGrow
  <2> QED
    BY <1>1, <2>2 DEF Worlds
<1>4. request \in RequestType
  BY DEF IInv
<1>5. /\ r.req.requestId = Id /\ r.req.appStatus = request.appStatus
      /\ r.req.active /\ r.req.nWriters = request.nWriters - Unclosed(s)
  BY <1>1, <1>4 DEF RequestType, Id
<1>6. r.net \in NetType
  BY <1>3 DEF Worlds, NetType, NetOver
<1> QED
  BY <1>1, <1>2, <1>3, <1>5, <1>6 DEF r

\* FCGX_FClose of s, called by the application or by FCGX_Finish_r, which may
\* also end the request and close the connection.
LEMMA FCloseOwed ==
    ASSUME IInv, RInv, ~ Transient, NEW s \in Streams, request.active,
           NEW v, Become(s, v, 0), v.st = FClose(World(s)).st,
           v.net.wire = FClose(World(s)).net.wire, v.net.room = FClose(World(s)).net.room,
           v.net \in NetType, v.req.requestId = Id, v.req.appStatus = request.appStatus,
           v.req.nWriters = request.nWriters - Unclosed(s),
           recs' = Records(net'.wire), UNCHANGED <<cleared, claimed>>, Between'
    PROVE  RInv' /\ Grown
<1>1. request.nWriters \in Int
  BY DEF IInv, RequestType
<1>2. CASE stream[s].wasFCloseCalled
  <2>1. Unclosed(s) = 0
    BY <1>2 DEF Unclosed
  <2>2. v.req.nWriters = request.nWriters
    BY <1>1, <2>1
  <2>3. v.net.wire = net.wire /\ v.net.room = net.room
    BY <1>2, FCloseResult
  <2> QED
    BY <1>2, <2>2, <2>3, ClosedStep
<1>3. CASE ~ stream[s].wasFCloseCalled
  <2>1. v.req.nWriters = request.nWriters - 1
    BY <1>3 DEF Unclosed
  <2> QED
    BY <1>3, <2>1, CloseStep
<1> QED
  BY <1>2, <1>3

\* FCGX_FClose by the application, and the first part of FCGX_Finish_r.
LEMMA FCloseByAppOwed ==
    ASSUME IInv, RInv, ~ Transient, NEW s \in Streams,
           FCloseByApp(s) \/ (s = "err" /\ FinishErr), recs' = Records(net'.wire)
    PROVE  RInv' /\ Grown
<1> DEFINE r == FClose(World(s))
<1>1. /\ request.active /\ Become(s, r, 0) /\ UNCHANGED <<cleared, claimed>>
      /\ call'.op = "Finish" => s = "err"
  BY DEF FCloseByApp, FinishErr, Idle
<1>2. /\ r.net \in NetType /\ r.st.wasFCloseCalled
      /\ r.req.requestId = Id /\ r.req.appStatus = request.appStatus
      /\ r.req.active /\ r.req.nWriters = request.nWriters - Unclosed(s)
  BY <1>1, FCloseResult
<1> DEFINE v == r
<1>3. v.st = r.st /\ v.net.wire = r.net.wire /\ v.net.room = r.net.room
  OBVIOUS
<1>4. Between'
  <2>1. request' = r.req /\ stream'[s] = r.st
    BY <1>1 DEF Become, IInv
  <2>2. Id # 0
    BY <1>1 DEF IInv, Id
  <2> HIDE DEF r
  <2>3. Id' # 0 /\ request'.active
    BY <1>2, <2>1, <2>2 DEF Id
  <2>4. call'.op = "Finish" => stream'["err"].wasFCloseCalled
    BY <1>1, <1>2, <2>1
  <2> QED
    BY <2>3, <2>4 DEF Between
<1> HIDE DEF v
<1> QED
  BY <1>1, <1>2, <1>3, <1>4, FCloseOwed DEF v

\* The last part of FCGX_Finish_r, which may close the connection.
LEMMA FinishOutOwed ==
    ASSUME IInv, RInv, ~ Transient, NEW inError \in BOOLEAN, FinishOut(inError),
           recs' = Records(net'.wire)
    PROVE  RInv' /\ Grown
<1> DEFINE w == FClose(World("out"))
           close == \/ ~ request.keepConnection
                    \/ stream["err"].FCGI_errno # 0
                    \/ w.st.FCGI_errno # 0
                    \/ inError
           v == [w EXCEPT !.req.active = FALSE, !.net.open = ~ close]
<1>1. /\ "out" \in Streams /\ "err" \in Streams /\ request.active
      /\ stream["err"].wasFCloseCalled
  BY DEF FinishOut, IInv, Idle, Streams, RInv, Between
<1>2. /\ Become("out", v, 0) /\ call' = Idle /\ UNCHANGED <<cleared, claimed>>
  BY DEF FinishOut
<1>3. /\ w \in Worlds(Cell) /\ w.net \in NetType /\ w.st.wasFCloseCalled
      /\ w.req.requestId = Id /\ w.req.appStatus = request.appStatus
      /\ w.req.nWriters = request.nWriters - Unclosed("out")
  BY <1>1, FCloseResult
<1> DEFINE z == FClose(World("out"))
<1>4. w = z
  OBVIOUS
<1> HIDE DEF w
<1>5. /\ v.st = w.st /\ v.net.wire = w.net.wire /\ v.net.room = w.net.room
      /\ v.net = [w.net EXCEPT !.open = ~ close]
      /\ v.req = [w.req EXCEPT !.active = FALSE]
  BY <1>3 DEF Worlds, NetOver, RequestType
<1> HIDE DEF v
<1>6. /\ v.req.requestId = Id /\ v.req.appStatus = request.appStatus
      /\ v.req.nWriters = request.nWriters - Unclosed("out") /\ ~ v.req.active
  BY <1>3, <1>5 DEF Worlds, RequestType
<1>7. v.net \in NetType /\ (v.net.open <=> ~ close)
  BY <1>3, <1>5 DEF NetType
<1>8. Between'
  <2>1. /\ request' = v.req /\ net' = v.net /\ stream'["out"] = w.st
        /\ stream'["err"] = stream["err"]
    BY <1>2, <1>5 DEF Become, IInv, Streams
  <2>2. BothClosed'
    BY <1>1, <1>3, <2>1 DEF BothClosed, Streams
  <2>3. net'.open => \A s \in Streams : stream'[s].FCGI_errno = 0
    BY <1>7, <2>1 DEF Streams
  <2>4. Id' # 0
    BY <1>1, <1>6, <2>1 DEF IInv, Id
  <2>5. call'.op # "Finish"
    BY <1>2 DEF Idle
  <2> QED
    BY <2>2, <2>3, <2>4, <2>5 DEF Between
<1> QED
  BY <1>1, <1>2, <1>4, <1>5, <1>6, <1>7, <1>8, FCloseOwed

\* FCGX_ClearError forgets that a write has failed, and sends nothing.
LEMMA ClearErrorOwed ==
    ASSUME IInv, RInv, NEW s \in Streams, ClearError(s), recs' = Records(net'.wire)
    PROVE  RInv' /\ Grown
<1>1. /\ stream' = [stream EXCEPT ![s].FCGI_errno = 0] /\ cleared' = TRUE
      /\ UNCHANGED <<request, net, call, said, failed, claimed>> /\ request.active
  BY DEF ClearError
<1>2. ASSUME NEW u \in Streams
      PROVE  /\ stream'[u].wasFCloseCalled = stream[u].wasFCloseCalled
             /\ stream'[u].isClosed = stream[u].isClosed
             /\ stream'[u].isAnythingWritten = stream[u].isAnythingWritten
             /\ stream'[u].stop = stream[u].stop /\ stream'[u].buff = stream[u].buff
             /\ stream'[u].rawWrite = stream[u].rawWrite
             /\ stream'[u].FCGI_errno \in {0, stream[u].FCGI_errno}
  <2>1. stream \in [Streams -> StreamOver(CellUpTo(Level))]
    BY DEF IInv
  <2>2. CASE u # s
    BY <1>1, <2>1, <2>2
  <2>3. CASE u = s
    <3>1. stream'[s] = [stream[s] EXCEPT !.FCGI_errno = 0] /\ stream[s] \in StreamOver(CellUpTo(Level))
      BY <1>1, <2>1
    <3> QED
      BY <2>3, <3>1 DEF StreamOver
  <2> QED
    BY <2>2, <2>3
<1>3. recs' = recs /\ Id' = Id
  BY <1>1 DEF RInv, Id
<1>4. Closed' = Closed /\ BothClosed' = BothClosed
  BY <1>2 DEF Closed, BothClosed
<1>5. ASSUME NEW u \in Streams PROVE Owed(u)'
  <2>1. Owes(stream[u], said[u], failed[u], cleared, net.room, recs, Id, u)
    BY DEF RInv, Owed
  <2>2. BufferedOf(stream'[u]) = BufferedOf(stream[u])
    BY <1>2 DEF BufferedOf
  <2>3. Owes(stream'[u], said[u], failed[u], TRUE, net.room, recs, Id, u)
    BY <1>2, <2>1, <2>2 DEF Owes, Ended
  <2>4. Owes(stream'[u], said'[u], failed'[u], cleared', net'.room, recs', Id', u)
    BY <1>1, <1>3, <2>3
  <2> QED
    BY <2>4 DEF Owed
<1>6. Stated' /\ Ending'
  BY <1>1, <1>3, <1>4 DEF RInv, Stated, Ending
<1>7. Between'
  <2>1. Id # 0 /\ call'.op # "Finish"
    BY <1>1 DEF IInv, Id, ClearError, Idle
  <2> QED
    BY <1>1, <1>3, <2>1 DEF Between
<1>8. recs \in Seq(RecordType)
  BY DEF RInv, Ordered
<1>9. Grown
  BY <1>3, <1>8, GrowsSame DEF Grown
<1> QED
  BY <1>1, <1>3, <1>4, <1>5, <1>6, <1>7, <1>9 DEF RInv

\* FCGX_SetExitStatus comes before the end of the request is sent.
LEMMA SetExitStatusOwed ==
    ASSUME IInv, RInv, NEW status \in Statuses, SetExitStatus(status), recs' = Records(net'.wire)
    PROVE  RInv' /\ Grown
<1>1. /\ request' = [request EXCEPT !.appStatus = status] /\ request.active
      /\ claimed' = IF request.nWriters > 0 THEN <<status>> ELSE claimed
      /\ UNCHANGED <<stream, net, call, said, failed, cleared>> /\ call = Idle
  BY DEF SetExitStatus
<1>2. /\ Id' = Id /\ request'.nWriters = request.nWriters /\ request'.active
      /\ request'.appStatus = status /\ Id # 0
  BY <1>1 DEF IInv, RequestType, Id
<1>3. recs' = recs /\ net' \in NetType
  BY <1>1 DEF RInv, NetOK
<1>4. Stated'
  <2>1. CASE request.nWriters > 0
    <3>1. ~ BothClosed
      <4>1. request.nWriters = Unclosed("out") + Unclosed("err")
        BY <1>1 DEF IInv, WritersCounted
      <4> QED
        BY <2>1, <4>1 DEF BothClosed, Unclosed, Streams
    <3>2. EndsSay(recs, Id, status)
      <4>1. Ordered(recs, Id, Closed, BothClosed) /\ BothClosed \in BOOLEAN
        BY DEF RInv, BothClosed
      <4> QED
        BY <3>1, <4>1, NoEndYet
    <3>3. claimed' = <<status>>
      BY <1>1, <2>1
    <3> QED
      BY <1>2, <1>3, <3>2, <3>3 DEF Stated
  <2>2. CASE ~ (request.nWriters > 0)
    <3>1. claimed' = claimed
      BY <1>1, <2>2
    <3> QED
      BY <1>2, <1>3, <2>2, <3>1 DEF RInv, Stated
  <2> QED
    BY <2>1, <2>2
<1>5. Between'
  BY <1>1, <1>2 DEF Between, Idle
<1> QED
  BY <1>1, <1>2, <1>3, <1>4, <1>5, SameStep

\* A connection that was just made.
LEMMA FreshNet ==
    ASSUME NEW room \in Nat, NEW open \in BOOLEAN
    PROVE  /\ NetOK([wire |-> <<>>, room |-> room, open |-> open])
           /\ Records(<<>>) = <<>>
<1> DEFINE w == <<>>
<1>1. w \in Seq(Cell) /\ Len(w) = 0
  BY EmptySeq
<1> HIDE DEF w
<1>2. 1 \in 1 .. Len(w) + 1 /\ 1 = Len(w) + 1 /\ ~ Starts(w, 1)
  BY <1>1 DEF Starts
<1>3. Records(w) = <<>>
  <2>1. PICK f : Decodes(w, f) /\ Records(w) = f[1]
    BY <1>1, RecordsDecode
  <2> QED
    BY <1>2, <2>1 DEF Decodes
<1>4. InSync(w)
  <2>1. PICK f : Syncs(w, f) /\ InSync(w) = f[1]
    BY <1>1, SyncDecode
  <2>2. f[1]
    BY <1>2, <2>1 DEF Syncs
  <2> QED
    BY <2>1, <2>2
<1>5. Whole(w)
  <2>1. Boundaries(w, {1})
    BY <1>2 DEF Boundaries
  <2> QED
    BY <2>1 DEF Whole
<1> DEFINE n == [wire |-> w, room |-> room, open |-> open]
<1>6. n \in NetType /\ n.wire = w
  BY <1>1 DEF NetType
<1>7. NetOK(n)
  BY <1>4, <1>5, <1>6 DEF NetOK
<1> QED
  BY <1>3, <1>7 DEF w

\* A stream that was just made owes nothing.
LEMMA OwesNothing ==
    ASSUME NEW s \in Streams, NEW rs \in Seq(RecordType), NEW id, NEW room, NEW cl,
           \A i \in 1 .. Len(rs) : rs[i].id # id
    PROVE  /\ Owes(NewWriter(s), 0, -1, cl, room, rs, id, s)
           /\ ~ HasEnd(rs, id) /\ ~ NewWriter(s).wasFCloseCalled
<1>1. Content(rs, s, id) = <<>>
  BY ContentNone
<1>2. /\ NewWriter(s).buff = HeaderSlot /\ ~ NewWriter(s).rawWrite
      /\ ~ NewWriter(s).wasFCloseCalled /\ ~ NewWriter(s).isClosed
      /\ NewWriter(s).FCGI_errno = 0
  BY DEF NewWriter
<1>3. BufferedOf(NewWriter(s)) = <<>>
  <2>1. Len(HeaderSlot) = 8 /\ HeaderSlot \in Seq(Cell)
    BY FillerLemma, PlainCells DEF FCGI_HEADER_LEN
  <2>2. SubSeq(HeaderSlot, 9, 8) = <<>>
    BY <2>1, SubSeqEmpty
  <2> QED
    BY <1>2, <2>1, <2>2 DEF BufferedOf, FCGI_HEADER_LEN
<1>4. Says(<<>>, <<>>, s, 0, -1)
  <2>1. Bytes(s, 0, 0) \in Seq(Cell) /\ Len(Bytes(s, 0, 0)) = 0
    BY BytesAre
  <2>2. Bytes(s, 0, 0) = <<>>
    BY <2>1, EmptySeq
  <2>3. <<>> \o <<>> = <<>>
    BY EmptySeq, ConcatEmptySeq
  <2>4. Ahead(<<>>, <<>>, s, 0)
    BY <2>2, <2>3 DEF Ahead
  <2> QED
    BY <2>4 DEF Says
<1>5. <<>> \in Seq(Cell)
  BY EmptySeq
<1>6. ~ HasEnd(rs, id)
  BY DEF HasEnd, IsEnd
<1> QED
  BY <1>1, <1>2, <1>3, <1>4, <1>5, <1>6 DEF Owes, Ended

\* A process that has just accepted a request, or has not accepted any yet.
LEMMA NewRequest ==
    ASSUME NEW room \in Nat, NetOK(net'), net'.room = room, recs' = Records(net'.wire),
           stream' = [s \in Streams |-> NewWriter(s)], said' = [s \in Streams |-> 0],
           failed' = [s \in Streams |-> -1], claimed' = <<>>, call' = Idle,
           Id' \in Nat, Ordered(recs', Id', {}, FALSE),
           \A i \in 1 .. Len(recs') : recs'[i].id # Id',
           Previous(recs', net'.room, Id'),
           request'.active \/ (Id' = 0 /\ ~ net'.open /\ net'.wire = <<>>),
           request'.active => Id' # 0
    PROVE  RInv'
<1>1. recs' \in Seq(RecordType)
  BY DEF Ordered
<1>2. ASSUME NEW s \in Streams
      PROVE  /\ stream'[s] = NewWriter(s) /\ said'[s] = 0 /\ failed'[s] = -1
             /\ Owed(s)' /\ ~ HasEnd(recs', Id') /\ ~ stream'[s].wasFCloseCalled
  <2>1. stream'[s] = NewWriter(s) /\ said'[s] = 0 /\ failed'[s] = -1
    OBVIOUS
  <2>2. /\ Owes(NewWriter(s), 0, -1, cleared', net'.room, recs', Id', s)
        /\ ~ HasEnd(recs', Id') /\ ~ NewWriter(s).wasFCloseCalled
    <3> DEFINE rs == recs'
               id == Id'
               cl == cleared'
               rm == net'.room
    <3>1. rs \in Seq(RecordType) /\ \A i \in 1 .. Len(rs) : rs[i].id # id
      BY <1>1
    <3> HIDE DEF rs, id, cl, rm
    <3>2. /\ Owes(NewWriter(s), 0, -1, cl, rm, rs, id, s)
          /\ ~ HasEnd(rs, id) /\ ~ NewWriter(s).wasFCloseCalled
      BY <3>1, OwesNothing
    <3> QED
      BY <3>2 DEF rs, id, cl, rm
  <2>3. Owed(s)'
    BY <2>1, <2>2 DEF Owed
  <2> QED
    BY <2>1, <2>2, <2>3
<1>3. "out" \in Streams
  BY DEF Streams
<1>4. Closed' = {} /\ BothClosed' = FALSE
  BY <1>2, <1>3 DEF Closed, BothClosed
<1>5. Stated'
  <2>1. Len(<<>>) = 0
    BY EmptySeq
  <2> QED
    BY <2>1 DEF Stated
<1>6. Ending'
  BY <1>2, <1>3, <1>4 DEF Ending
<1>7. Between'
  <2>1. \A s \in Streams : stream'[s].FCGI_errno = 0
    BY <1>2 DEF NewWriter
  <2>2. call'.op # "Finish"
    BY DEF Idle
  <2> QED
    BY <2>1, <2>2 DEF Between
<1>8. Ordered(recs', Id', Closed', BothClosed')
  BY <1>4
<1> QED
  BY <1>2, <1>5, <1>6, <1>7, <1>8 DEF RInv

\* No records are in order.
LEMMA OrderedNone ==
    ASSUME NEW id
    PROVE  Ordered(<<>>, id, {}, FALSE) /\ Len(<<>>) = 0
<1>1. <<>> \in Seq(RecordType) /\ Len(<<>>) = 0
  BY EmptySeq
<1> QED
  BY <1>1 DEF Ordered

\* The invariant holds at the start.
LEMMA InitOwed ==
    ASSUME Init, recs = <<>>
    PROVE  RInv
<1>1. net = [wire |-> <<>>, room |-> 0, open |-> FALSE]
  BY DEF Init
<1>2. NetOK(net) /\ recs = Records(net.wire) /\ net.wire = <<>> /\ ~ net.open
  BY <1>1, FreshNet
<1>3. /\ stream = [s \in Streams |-> NewWriter(s)] /\ said = [s \in Streams |-> 0]
      /\ failed = [s \in Streams |-> -1] /\ claimed = <<>> /\ call = Idle
      /\ ~ request.active /\ Id = 0
  BY DEF Init, Id
<1>4. Ordered(recs, Id, {}, FALSE) /\ Len(recs) = 0
  BY OrderedNone
<1>5. ASSUME NEW s \in Streams
      PROVE  /\ stream[s] = NewWriter(s) /\ failed[s] = -1
             /\ Owed(s) /\ ~ HasEnd(recs, Id) /\ ~ stream[s].wasFCloseCalled
  <2>1. stream[s] = NewWriter(s) /\ said[s] = 0 /\ failed[s] = -1
    BY <1>3
  <2>2. recs \in Seq(RecordType) /\ \A i \in 1 .. Len(recs) : recs[i].id # Id
    BY <1>4 DEF Ordered
  <2>3. /\ Owes(NewWriter(s), 0, -1, cleared, net.room, recs, Id, s)
        /\ ~ HasEnd(recs, Id) /\ ~ NewWriter(s).wasFCloseCalled
    <3> DEFINE id == Id
    <3>1. recs \in Seq(RecordType) /\ \A i \in 1 .. Len(recs) : recs[i].id # id
      BY <2>2
    <3> HIDE DEF id
    <3>2. /\ Owes(NewWriter(s), 0, -1, cleared, net.room, recs, id, s)
          /\ ~ HasEnd(recs, id) /\ ~ NewWriter(s).wasFCloseCalled
      BY <3>1, OwesNothing
    <3> QED
      BY <3>2 DEF id
  <2> QED
    BY <2>1, <2>3 DEF Owed
<1>6. "out" \in Streams
  BY DEF Streams
<1>7. Closed = {} /\ BothClosed = FALSE
  BY <1>5, <1>6 DEF Closed, BothClosed
<1>8. Stated
  BY <1>3, EmptySeq DEF Stated
<1>9. Ending
  BY <1>5, <1>6, <1>7 DEF Ending
<1>10. Between
  BY <1>2, <1>3 DEF Between, Idle
<1>11. Previous(recs, net.room, Id)
  BY DEF Previous
<1> QED
  BY <1>2, <1>4, <1>5, <1>7, <1>8, <1>9, <1>10, <1>11 DEF RInv

\* FCGX_Accept_r, on a connection that was kept or on a new one.
LEMMA AcceptOwed ==
    ASSUME IInv, RInv, NEW keep \in KeepConns, NEW room \in Rooms, Accept(keep, room),
           recs' = Records(net'.wire)
    PROVE  RInv'
<1>1. /\ call = Idle /\ ~ request.active /\ call' = call
      /\ stream' = [s \in Streams |-> NewWriter(s)]
      /\ request' = [request EXCEPT !.requestId = @ + 1, !.active = TRUE,
                                    !.keepConnection = keep, !.nWriters = 2]
      /\ net' = IF net.open THEN net ELSE [wire |-> <<>>, room |-> room, open |-> TRUE]
      /\ said' = [s \in Streams |-> 0] /\ failed' = [s \in Streams |-> -1]
      /\ claimed' = <<>>
  BY DEF Accept
<1>2. request \in RequestType /\ Id \in Nat /\ room \in Nat
  BY TransportAssumption DEF IInv, RequestType, Id
<1>3. request'.active /\ Id' = Id + 1 /\ Id' \in Nat /\ Id' # 0
  BY <1>1, <1>2 DEF RequestType, Id
<1>4. CASE net.open
  <2>1. net' = net /\ recs' = recs /\ NetOK(net') /\ net'.room \in Nat
    BY <1>1, <1>4 DEF RInv, NetOK, NetType
  <2>2. Ordered(recs, Id, Closed, BothClosed) /\ BothClosed \in BOOLEAN
    BY DEF RInv, BothClosed
  <2>3. /\ Ordered(recs, Id + 1, {}, FALSE)
        /\ \A i \in 1 .. Len(recs) : recs[i].id # Id + 1
    BY <1>2, <2>2, OrderedNext
  <2>4. Previous(recs, net.room, Id + 1)
    <3> SUFFICES ASSUME recs # <<>>, net.room > 0
                 PROVE  recs[Len(recs)].id = Id /\ HasEnd(recs, Id)
      BY <1>2 DEF Previous
    <3>1. HasEnd(recs, Id)
      <4>1. BothClosed
        BY <1>1, <1>4 DEF RInv, Between
      <4> QED
        BY <4>1 DEF RInv, Ending
    <3>2. recs \in Seq(RecordType) /\ Len(recs) \in Nat /\ Len(recs) # 0
      BY <2>2, EmptySeq, LenProperties DEF Ordered
    <3>3. Len(recs) \in 1 .. Len(recs)
      BY <3>2
    <3>4. PICK i \in 1 .. Len(recs) : IsEnd(recs[i], Id)
      BY <3>1 DEF HasEnd
    <3>5. recs[i].id = Id /\ recs[Len(recs)].id <= Id /\ recs[Len(recs)].id \in Nat
      <4>1. recs[Len(recs)] \in RecordType
        BY <3>2, <3>3, ElementOfSeq
      <4>2. Allowed(recs[Len(recs)], Id, Closed, BothClosed)
        BY <2>2, <3>3 DEF Ordered
      <4>3. recs[Len(recs)].id <= Id
        BY <4>2 DEF Allowed
      <4>4. recs[Len(recs)].id \in Nat
        BY <4>1 DEF RecordType
      <4> QED
        BY <3>4, <4>3, <4>4 DEF IsEnd
    <3>6. CASE i = Len(recs)
      BY <3>1, <3>5, <3>6
    <3>7. CASE i # Len(recs)
      <4>1. i < Len(recs)
        BY <3>2, <3>7
      <4>2. recs[i].id <= recs[Len(recs)].id
        BY <2>2, <3>3, <4>1 DEF Ordered, Follows
      <4> QED
        BY <1>2, <3>1, <3>5, <4>2
    <3> QED
      BY <3>6, <3>7
  <2>5. /\ Ordered(recs', Id', {}, FALSE)
        /\ \A i \in 1 .. Len(recs') : recs'[i].id # Id'
        /\ Previous(recs', net'.room, Id')
    BY <1>3, <2>1, <2>3, <2>4
  <2> QED
    BY <1>1, <1>3, <2>1, <2>5, NewRequest
<1>5. CASE ~ net.open
  <2>1. net' = [wire |-> <<>>, room |-> room, open |-> TRUE]
    BY <1>1, <1>5
  <2>2. NetOK(net') /\ Records(<<>>) = <<>>
    BY <1>2, <2>1, FreshNet
  <2>3. net'.room = room /\ recs' = <<>>
    BY <2>1, <2>2
  <2>4. Ordered(recs', Id', {}, FALSE) /\ Len(recs') = 0
    <3> DEFINE id == Id'
    <3>1. Ordered(<<>>, id, {}, FALSE) /\ Len(<<>>) = 0
      BY OrderedNone
    <3> QED
      BY <2>3, <3>1
  <2>5. Previous(recs', net'.room, Id')
    BY <2>3 DEF Previous
  <2>6. \A i \in 1 .. Len(recs') : recs'[i].id # Id'
    BY <2>4
  <2> QED
    BY <1>1, <1>2, <1>3, <2>2, <2>3, <2>4, <2>5, <2>6, NewRequest
<1> QED
  BY <1>4, <1>5

\* What happens to the records in a step.
Received == Grown \/ recs' = recs \/ recs' = <<>>

\* Every action preserves the invariant.
LEMMA NextOwed ==
    ASSUME IInv, RInv, ~ Transient, [ResponseNext]_<<vars, recs>>
    PROVE  RInv' /\ Received
<1>1. CASE UNCHANGED <<vars, recs>>
  <2>1. /\ stream' = stream /\ request' = request /\ net' = net /\ call' = call
        /\ said' = said /\ failed' = failed /\ cleared' = cleared /\ claimed' = claimed
        /\ recs' = recs
    BY <1>1 DEF vars
  <2>2. Id' = Id /\ Stated' /\ Between'
    BY <2>1 DEF RInv, Id, Stated, Between, EndsSay, BothClosed
  <2>3. net'.wire = net.wire /\ net'.room = net.room /\ net' \in NetType
        /\ recs' = Records(net'.wire)
    BY <2>1 DEF RInv, NetOK
  <2>4. RInv' /\ Grown
    BY <2>1, <2>2, <2>3, SameStep
  <2> QED
    BY <2>4 DEF Received
<1>2. CASE ResponseNext
  <2>1. recs' = Records(net'.wire) /\ Next
    BY <1>2 DEF ResponseNext
  <2>2. ASSUME NEW s \in Streams, NEW n \in Chunks, PutStr(s, n)
        PROVE  RInv' /\ Grown
    <3>1. n \in Nat
      BY ChunksAssumption
    <3>2. request.active /\ PutStrIteration(s, n) /\ UNCHANGED <<cleared, claimed>>
      BY <2>2 DEF PutStr, PutStrIteration
    <3> QED
      BY <2>1, <3>1, <3>2, PutStrOwed
  <2>3. ASSUME PutStrLoop PROVE RInv' /\ Grown
    <3>1. call.s \in Streams /\ call.left \in Nat /\ call # Idle
      BY <2>3 DEF PutStrLoop, IInv, CallType, Idle
    <3>2. request.active
      BY <3>1 DEF IInv
    <3>3. PutStrIteration(call.s, call.left) /\ UNCHANGED <<cleared, claimed>>
      BY <2>3 DEF PutStrLoop, PutStrIteration
    <3> QED
      BY <2>1, <3>1, <3>2, <3>3, PutStrOwed
  <2>4. ASSUME NEW s \in Streams, FFlush(s)
        PROVE  RInv' /\ Grown
    BY <2>1, <2>4, FFlushOwed
  <2>5. ASSUME NEW s \in Streams, FCloseByApp(s)
        PROVE  RInv' /\ Grown
    BY <2>1, <2>5, FCloseByAppOwed
  <2>6. ASSUME NEW s \in Streams, ClearError(s)
        PROVE  RInv' /\ Grown
    BY <2>1, <2>6, ClearErrorOwed
  <2>7. ASSUME NEW status \in Statuses, SetExitStatus(status)
        PROVE  RInv' /\ Grown
    BY <2>1, <2>7, SetExitStatusOwed
  <2>8. ASSUME FinishErr PROVE RInv' /\ Grown
    <3>1. "err" \in Streams
      BY DEF Streams
    <3> QED
      BY <2>1, <2>8, <3>1, FCloseByAppOwed
  <2>9. ASSUME NEW inError \in BOOLEAN, FinishOut(inError)
        PROVE  RInv' /\ Grown
    BY <2>1, <2>9, FinishOutOwed
  <2>10. ASSUME NEW keep \in KeepConns, NEW room \in Rooms, Accept(keep, room)
         PROVE  RInv' /\ (recs' = recs \/ recs' = <<>>)
    <3>1. RInv'
      BY <2>1, <2>10, AcceptOwed
    <3>2. recs' = recs \/ recs' = <<>>
      <4>1. room \in Nat
        BY TransportAssumption
      <4>2. Records(<<>>) = <<>>
        BY <4>1, FreshNet
      <4>3. net' = net \/ net'.wire = <<>>
        BY <2>10 DEF Accept
      <4> QED
        BY <2>1, <4>2, <4>3 DEF RInv
    <3> QED
      BY <3>1, <3>2
  <2>11. (RInv' /\ Grown) \/ (RInv' /\ (recs' = recs \/ recs' = <<>>))
    BY <2>1, <2>2, <2>3, <2>4, <2>5, <2>6, <2>7, <2>8, <2>9, <2>10 DEF Next
  <2> QED
    BY <2>11 DEF Received
<1> QED
  BY <1>1, <1>2

\* A step of the response is one of the writers.
LEMMA ResponseStep ==
    [ResponseNext]_<<vars, recs>> => [Next]_vars
BY DEF ResponseNext

\* Both invariants hold in every reachable state.
LEMMA ResponseInvariant ==
    ASSUME ~ Transient
    PROVE  ResponseSpec => [](IInv /\ RInv)
<1>1. ResponseInit => IInv /\ RInv
  BY InitLemma, InitOwed DEF ResponseInit
<1>2. IInv /\ RInv /\ [ResponseNext]_<<vars, recs>> => (IInv /\ RInv)'
  BY NextLemma, NextOwed, ResponseStep
<1> QED
  BY <1>1, <1>2, PTL DEF ResponseSpec

\* The framing is part of the invariant.
LEMMA FramedLemma ==
    ASSUME RInv
    PROVE  WellFramed
<1>1. /\ InSync(net.wire)
      /\ \A i \in 1 .. Len(recs) : Proper(recs[i])
      /\ \A i, j \in 1 .. Len(recs) : i < j => Follows(recs[i], recs[j])
  BY DEF RInv, NetOK, Ordered
<1>2. ASSUME NEW i \in 1 .. Len(recs)
      PROVE  /\ \A k \in 1 .. Len(recs[i].content) :
                  IF recs[i].type = "end"
                  THEN recs[i].content[k][1] = "body" /\ recs[i].content[k][2] = recs[i].id
                  ELSE recs[i].content[k][1] = "data" /\ recs[i].content[k][2] = recs[i].type
             /\ \A j \in 1 .. Len(recs[i].padding) : recs[i].padding[j] = <<"pad">>
  BY <1>1 DEF Proper, RightCell
<1>3. ASSUME NEW i \in 1 .. Len(recs), NEW j \in 1 .. Len(recs), i < j
      PROVE  /\ \A s \in Streams, id \in {recs[i].id} :
                   IsEof(recs[i], s, id) => ~ (recs[j].type = s /\ recs[j].id = id)
             /\ IsEnd(recs[i], recs[i].id) => recs[j].id > recs[i].id
  BY <1>1, <1>3 DEF Follows
<1> QED
  BY <1>1, <1>2, <1>3 DEF WellFramed

\* What the server has of the current request.
LEMMA CurrentIs ==
    /\ \A s \in Streams : Current.got[s] = Content(recs, s, Id)
    /\ \A s \in Streams : Current.eof[s] <=> HasEof(recs, s, Id)
    /\ ~ HasEnd(recs, Id) => Current.status = NoStatus
    /\ HasEnd(recs, Id) =>
         \E i \in 1 .. Len(recs) :
            IsEnd(recs[i], Id) /\ Current.status = <<recs[i].content[1][3]>>
<1> DEFINE ends == {i \in 1 .. Len(recs) : IsEnd(recs[i], Id)}
           c == CHOOSE i \in ends : TRUE
<1>1. /\ \A s \in Streams : Current.got[s] = Content(recs, s, Id)
      /\ \A s \in Streams : Current.eof[s] <=> HasEof(recs, s, Id)
  BY DEF Current, Response, HasEof, Id
<1>2. Current.status = IF ends = {} THEN NoStatus ELSE <<recs[c].content[1][3]>>
  BY DEF Current, Response, Id
<1>3. HasEnd(recs, Id) <=> ends # {}
  BY DEF HasEnd
<1>4. ends # {} => c \in ends
  OBVIOUS
<1>5. ends \subseteq 1 .. Len(recs) /\ \A i \in ends : IsEnd(recs[i], Id)
  OBVIOUS
<1> HIDE DEF ends, c
<1> QED
  BY <1>1, <1>2, <1>3, <1>4, <1>5

\* What the server has, followed by what is buffered, is what was written.
LEMMA NothingLostLemma ==
    ASSUME RInv
    PROVE  NothingLostOrRepeated
<1> SUFFICES ASSUME NEW s \in Streams
             PROVE  LET c == Content(recs, s, Id)
                    IN  IF failed[s] = -1 THEN c \o Buffered(s) = Bytes(s, 0, said[s])
                        ELSE c = Bytes(s, 0, Len(c)) /\ Len(c) <= said[s]
  BY CurrentIs DEF NothingLostOrRepeated
<1>1. Says(Content(recs, s, Id), BufferedOf(stream[s]), s, said[s], failed[s])
  BY DEF RInv, Owed, Owes
<1>2. BufferedOf(stream[s]) = Buffered(s)
  BY DEF BufferedOf, Buffered
<1> QED
  BY <1>1, <1>2 DEF Says, Ahead, Behind

\* A response is whole when the request is finished without a failure.
LEMMA FinishedLemma ==
    ASSUME IInv, RInv
    PROVE  FinishedMeansSent
<1> SUFFICES ASSUME Finished, (\A s \in Streams : failed[s] = -1) \/ (net.open /\ ~ cleared)
             PROVE  CompleteResponse
  BY DEF FinishedMeansSent
<1>1. BothClosed /\ Id \in Nat
  BY DEF RInv, Between, Finished, Id, IInv, RequestType
<1>2. \A s \in Streams : Owes(stream[s], said[s], failed[s], cleared, net.room, recs, Id, s)
  BY DEF RInv, Owed
<1>3. ASSUME NEW s \in Streams PROVE failed[s] = -1
  <2>1. CASE net.open /\ ~ cleared
    <3>1. stream[s].FCGI_errno = 0
      BY <2>1 DEF RInv, Between, Finished
    <3> QED
      BY <1>2, <2>1, <3>1 DEF Owes
  <2> QED
    BY <2>1
<1>4. HasEnd(recs, Id)
  BY <1>1, <1>3 DEF RInv, Ending
<1>5. ASSUME NEW s \in Streams
      PROVE  Content(recs, s, Id) = Bytes(s, 0, said[s])
  <2>1. BufferedOf(stream[s]) = <<>>
    <3>1. World(s) \in Worlds(Cell) /\ Sound(World(s).st, s) /\ World(s).st = stream[s]
      BY StepWorld
    <3>2. stream[s] \in StreamOver(Cell) /\ Sound(stream[s], s)
      BY <3>1 DEF Worlds
    <3>3. stream[s].wasFCloseCalled
      BY <1>1 DEF BothClosed
    <3> QED
      BY <3>2, <3>3, BufferedTyped
  <2>2. /\ said[s] \in Nat /\ Content(recs, s, Id) \in Seq(Cell)
        /\ Says(Content(recs, s, Id), BufferedOf(stream[s]), s, said[s], failed[s])
    BY <1>2 DEF Owes
  <2>3. Ahead(Content(recs, s, Id), <<>>, s, said[s])
    BY <1>3, <2>1, <2>2 DEF Says
  <2> QED
    BY <2>2, <2>3, AheadAll
<1>6. HasEof(recs, "out", Id) /\ (said["err"] > 0 => HasEof(recs, "err", Id))
  <2>1. /\ HasEof(recs, "out", Id)
        /\ HasEof(recs, "err", Id) \/ Content(recs, "err", Id) = <<>>
    BY <1>4 DEF RInv, Ending
  <2>2. said["err"] > 0 => Content(recs, "err", Id) # <<>>
    <3>1. "err" \in Streams /\ said["err"] \in Nat
      BY DEF Streams, IInv
    <3>2. Len(Bytes("err", 0, said["err"])) = said["err"]
      BY <3>1, BytesAre
    <3>3. Content(recs, "err", Id) = Bytes("err", 0, said["err"])
      BY <1>5, <3>1
    <3>4. Content(recs, "err", Id) = <<>> => said["err"] = 0
      BY <3>2, <3>3, EmptySeq
    <3> QED
      BY <3>1, <3>4
  <2> QED
    BY <2>1, <2>2
<1>7. Current.status # NoStatus /\ (claimed # <<>> => Current.status = claimed)
  <2>1. PICK i \in 1 .. Len(recs) :
           IsEnd(recs[i], Id) /\ Current.status = <<recs[i].content[1][3]>>
    BY <1>4, CurrentIs
  <2>2. Current.status # NoStatus
    BY <2>1 DEF NoStatus
  <2>3. ASSUME claimed # <<>> PROVE Current.status = claimed
    <3>1. Len(claimed) <= 1 /\ EndsSay(recs, Id, claimed[1]) /\ claimed \in Seq(Int)
      BY <2>3 DEF RInv, Stated, IInv
    <3>2. recs[i].content[1][3] = claimed[1]
      BY <2>1, <3>1 DEF EndsSay
    <3>3. Len(claimed) = 1
      <4> DEFINE n == Len(claimed)
      <4>1. n \in Nat /\ n # 0 /\ n <= 1
        BY <2>3, <3>1, EmptySeq, LenProperties
      <4> HIDE DEF n
      <4>2. n = 1
        BY <4>1
      <4> QED
        BY <4>2 DEF n
    <3>4. claimed = <<claimed[1]>>
      BY <3>1, <3>3
    <3> QED
      BY <2>1, <3>2, <3>4
  <2> QED
    BY <2>2, <2>3
<1> QED
  BY <1>5, <1>6, <1>7, CurrentIs DEF CompleteResponse, Streams

(***************************************************************************)
(* What Grows does to the responses                                        *)
(***************************************************************************)

\* b begins with a.
Begins(a, b) == Len(a) <= Len(b) /\ \A i \in 1 .. Len(a) : b[i] = a[i]

\* What begins with a still does when more is joined to it.
LEMMA JoinBegins ==
    ASSUME NEW a \in Seq(Cell), NEW b \in Seq(Cell), NEW y \in Seq(Cell), NEW c,
           Begins(a, b), Joins(c, b, y)
    PROVE  Begins(a, c)
<1> DEFINE l == Len(a)
           m == Len(b)
           d == b \o y
<1>1. d \in Seq(Cell) /\ Concatenates(d, b, y)
  BY ConcatCells
<1> HIDE DEF d
<1>2. /\ l \in Nat /\ m \in Nat /\ l <= m /\ m <= Len(d)
      /\ \A i \in 1 .. l : b[i] = a[i]
      /\ \A i \in 1 .. m : d[i] = b[i]
  <2>1. /\ Len(d) = m + Len(y) /\ Len(y) \in Nat
        /\ \A i \in 1 .. m : d[i] = b[i]
    BY <1>1 DEF Concatenates
  <2>2. l \in Nat /\ m \in Nat
    BY LenProperties
  <2> QED
    BY <2>1, <2>2 DEF Begins
<1>3. Len(d) \in Nat
  BY <1>1, LenProperties
<1> HIDE DEF l, m
<1>4. l <= Len(d) /\ \A i \in 1 .. l : d[i] = a[i]
  BY <1>2, <1>3
<1>5. c = d
  BY DEF Joins, d
<1> QED
  BY <1>4, <1>5 DEF Begins, l

\* The content of a stream only grows, and only by records of that stream.
LEMMA GrowsContent ==
    ASSUME NEW rs, NEW rs2, NEW j, Grows(rs, rs2, j), NEW s, NEW id
    PROVE  /\ Content(rs, s, id) \in Seq(Cell) /\ Content(rs2, s, id) \in Seq(Cell)
           /\ Begins(Content(rs, s, id), Content(rs2, s, id))
           /\ (\A i \in 1 .. Len(rs2) : i > Len(rs) => ~ (rs2[i].type = s /\ rs2[i].id = id))
                => Content(rs2, s, id) = Content(rs, s, id)
<1> DEFINE n == Len(rs)
           m == Len(rs2)
           Silent == \A i \in 1 .. m : i > n => ~ (rs2[i].type = s /\ rs2[i].id = id)
<1>1. /\ n \in Nat /\ m \in Nat /\ n <= m /\ rs \in Seq(RecordType) /\ rs2 \in Seq(RecordType)
      /\ \A i \in 1 .. n : rs2[i] = rs[i]
  BY LenProperties DEF Grows
<1>2. PICK f : Collected(f, rs, s, id, n)
  BY <1>1, CollectedExist
<1>3. PICK g : Collected(g, rs2, s, id, m)
  BY <1>1, CollectedExist
<1>4. Content(rs, s, id) = f[n] /\ f[n] \in Seq(Cell)
  BY <1>1, <1>2, ContentIs
<1>5. Content(rs2, s, id) = g[m] /\ g[m] \in Seq(Cell)
  BY <1>1, <1>3, ContentIs
<1>6. \A i \in 1 .. m : PartFor(rs2[i], s, id) \in Seq(Cell)
  <2> SUFFICES ASSUME NEW i \in 1 .. m PROVE PartFor(rs2[i], s, id) \in Seq(Cell)
    OBVIOUS
  <2>1. rs2[i] \in RecordType
    BY <1>1, ElementOfSeq
  <2> QED
    BY <2>1, EmptySeq DEF PartFor, RecordType
<1>7. \A i \in 1 .. m : i > n /\ Silent => PartFor(rs2[i], s, id) = <<>>
  BY DEF PartFor
<1> HIDE DEF n, m, Silent
<1>8. g[n] = f[n]
  <2>1. Alike(rs, rs2, n)
    BY <1>1 DEF Alike
  <2> QED
    BY <1>1, <1>2, <1>3, <2>1, CollectedOnce
<1>9. \A i \in 0 .. m : g[i] \in Seq(Cell)
  BY <1>3 DEF Collected
<1> DEFINE S == {k \in Nat : n + k <= m =>
                    Begins(f[n], g[n + k]) /\ (Silent => g[n + k] = f[n])}
<1>10. 0 \in S
  <2>1. n + 0 = n
    BY <1>1
  <2>2. Begins(f[n], f[n])
    BY <1>4, LenProperties DEF Begins
  <2> QED
    BY <1>8, <2>1, <2>2
<1>11. ASSUME NEW k \in Nat, k \in S
       PROVE  k + 1 \in S
  <2> SUFFICES ASSUME n + (k + 1) <= m
               PROVE  /\ Begins(f[n], g[n + (k + 1)])
                      /\ Silent => g[n + (k + 1)] = f[n]
    OBVIOUS
  <2> DEFINE i == n + (k + 1)
             h == n + k
  <2>1. i \in 1 .. m /\ i - 1 = h /\ i > n /\ h \in 0 .. m /\ h <= m
    BY <1>1
  <2>2. Begins(f[n], g[h]) /\ (Silent => g[h] = f[n])
    BY <1>11, <2>1
  <2> HIDE DEF i, h
  <2>3. Joins(g[i], g[h], PartFor(rs2[i], s, id))
    BY <1>3, <2>1 DEF Collected
  <2>4. g[h] \in Seq(Cell) /\ PartFor(rs2[i], s, id) \in Seq(Cell)
    BY <1>6, <1>9, <2>1
  <2>5. Begins(f[n], g[i])
    BY <1>4, <2>2, <2>3, <2>4, JoinBegins
  <2>6. Silent => g[i] = f[n]
    <3> SUFFICES ASSUME Silent PROVE g[i] = f[n]
      OBVIOUS
    <3>1. PartFor(rs2[i], s, id) = <<>> /\ g[h] = f[n]
      BY <1>7, <2>1, <2>2
    <3>2. f[n] \o <<>> = f[n]
      BY <1>4, ConcatEmptySeq
    <3> QED
      BY <2>3, <3>1, <3>2 DEF Joins
  <2> QED
    BY <2>5, <2>6 DEF i
<1> HIDE DEF S
<1>12. \A k \in Nat : k \in S
  BY <1>10, <1>11, SetInduction
<1>13. Begins(f[n], g[m]) /\ (Silent => g[m] = f[n])
  <2> DEFINE k == m - n
  <2>1. k \in Nat /\ n + k = m
    BY <1>1
  <2> HIDE DEF k
  <2>2. k \in S
    BY <1>12, <2>1
  <2>3. n + k <= m
    BY <1>1, <2>1
  <2>4. Begins(f[n], g[n + k]) /\ (Silent => g[n + k] = f[n])
    BY <2>2, <2>3 DEF S
  <2> QED
    BY <2>1, <2>4
<1> QED
  BY <1>4, <1>5, <1>13 DEF Silent, n, m

\* A prefix in the words of the abstract specification.
LEMMA BeginsPrefix ==
    ASSUME NEW a \in Seq(Cell), NEW b \in Seq(Cell), Begins(a, b)
    PROVE  R!IsPrefixOf(a, b)
<1> DEFINE l == Len(a)
           p == SubSeq(b, 1, l)
<1>1. l \in Nat /\ Len(b) \in Nat /\ l <= Len(b) /\ \A i \in 1 .. l : b[i] = a[i]
  BY LenProperties DEF Begins
<1>2. 1 \in Nat \ {0} /\ l \in Int
  BY <1>1
<1>3. p \in Seq(Cell) /\ Len(p) = (IF 1 <= l THEN l - 1 + 1 ELSE 0)
      /\ \A i \in 1 .. l - 1 + 1 : p[i] = b[1 + i - 1]
  BY <1>1, <1>2, PartLemma
<1> HIDE DEF p
<1>4. Len(p) = l /\ \A i \in 1 .. l : p[i] = b[i]
  <2> HIDE DEF l
  <2> QED
    BY <1>1, <1>3
<1>5. \A i \in 1 .. l : p[i] = a[i]
  BY <1>1, <1>4
<1>6. p = a
  BY <1>3, <1>4, <1>5, SeqEqual
<1> QED
  BY <1>1, <1>6 DEF R!IsPrefixOf, p

\* What a response is made of.
LEMMA ResponseIs ==
    ASSUME NEW rs, NEW id
    PROVE  LET r == Response(rs, id)
           IN  /\ r = [got |-> [s \in Streams |-> Content(rs, s, id)],
                       eof |-> [s \in Streams |-> HasEof(rs, s, id)],
                       status |-> r.status]
               /\ \A s \in Streams : r.got[s] = Content(rs, s, id)
               /\ \A s \in Streams : r.eof[s] <=> HasEof(rs, s, id)
               /\ r.status # NoStatus <=> HasEnd(rs, id)
<1> DEFINE ends == {i \in 1 .. Len(rs) : IsEnd(rs[i], id)}
           c == CHOOSE i \in ends : TRUE
           r == Response(rs, id)
<1>1. r = [got |-> [s \in Streams |-> Content(rs, s, id)],
           eof |-> [s \in Streams |-> HasEof(rs, s, id)],
           status |-> IF ends = {} THEN NoStatus ELSE <<rs[c].content[1][3]>>]
  BY DEF Response, HasEof
<1>2. HasEnd(rs, id) <=> ends # {}
  BY DEF HasEnd
<1>3. <<rs[c].content[1][3]>> # NoStatus
  BY DEF NoStatus
<1> HIDE DEF ends, c, r
<1>4. r.status # NoStatus <=> HasEnd(rs, id)
  BY <1>1, <1>2, <1>3
<1>5. /\ \A s \in Streams : r.got[s] = Content(rs, s, id)
      /\ \A s \in Streams : r.eof[s] <=> HasEof(rs, s, id)
  BY <1>1
<1>6. r = [got |-> [s \in Streams |-> Content(rs, s, id)],
           eof |-> [s \in Streams |-> HasEof(rs, s, id)],
           status |-> r.status]
  BY <1>1
<1> QED
  BY <1>4, <1>5, <1>6 DEF r

\* The records of one request change no other response.
LEMMA OtherResponse ==
    ASSUME NEW rs, NEW rs2, NEW id, Grows(rs, rs2, id), NEW j, j # id
    PROVE  Response(rs2, j) = Response(rs, j)
<1> DEFINE n == Len(rs)
           m == Len(rs2)
           ends == {i \in 1 .. n : IsEnd(rs[i], j)}
           ends2 == {i \in 1 .. m : IsEnd(rs2[i], j)}
           c == CHOOSE i \in ends : TRUE
           c2 == CHOOSE i \in ends2 : TRUE
<1>1. /\ n \in Nat /\ m \in Nat /\ n <= m
      /\ \A i \in 1 .. n : rs2[i] = rs[i]
      /\ \A i \in 1 .. m : i > n => rs2[i].id = id
  BY LenProperties DEF Grows
<1>2. /\ 1 .. n \subseteq 1 .. m
      /\ \A i \in 1 .. m : i > n \/ i \in 1 .. n
  BY <1>1
<1>3. ends2 = ends
  <2>1. \A i \in 1 .. m : IsEnd(rs2[i], j) => i \in 1 .. n
    BY <1>1, <1>2 DEF IsEnd
  <2> QED
    BY <1>1, <1>2, <2>1
<1>4. \A s : HasEof(rs2, s, j) <=> HasEof(rs, s, j)
  <2>1. \A s : \A i \in 1 .. m : IsEof(rs2[i], s, j) => i \in 1 .. n
    BY <1>1, <1>2 DEF IsEof
  <2> QED
    BY <1>1, <1>2, <2>1 DEF HasEof
<1>5. \A s \in Streams : Content(rs2, s, j) = Content(rs, s, j)
  <2> SUFFICES ASSUME NEW s \in Streams PROVE Content(rs2, s, j) = Content(rs, s, j)
    OBVIOUS
  <2>1. \A i \in 1 .. Len(rs2) : i > Len(rs) => ~ (rs2[i].type = s /\ rs2[i].id = j)
    BY <1>1
  <2> QED
    BY <2>1, GrowsContent
<1>6. c2 = c
  BY <1>3
<1>7. ends # {} => rs2[c] = rs[c]
  <2>1. ends # {} => c \in ends
    OBVIOUS
  <2>2. ends \subseteq 1 .. n
    OBVIOUS
  <2> HIDE DEF ends, c
  <2> QED
    BY <1>1, <2>1, <2>2
<1>8. Response(rs, j) =
        [got |-> [s \in Streams |-> Content(rs, s, j)],
         eof |-> [s \in Streams |-> HasEof(rs, s, j)],
         status |-> IF ends = {} THEN NoStatus ELSE <<rs[c].content[1][3]>>]
  BY DEF Response, HasEof
<1>9. Response(rs2, j) =
        [got |-> [s \in Streams |-> Content(rs2, s, j)],
         eof |-> [s \in Streams |-> HasEof(rs2, s, j)],
         status |-> IF ends2 = {} THEN NoStatus ELSE <<rs2[c2].content[1][3]>>]
  BY DEF Response, HasEof
<1> HIDE DEF ends, ends2, c, c2
<1>10. [s \in Streams |-> Content(rs2, s, j)] = [s \in Streams |-> Content(rs, s, j)]
  BY <1>5
<1>11. [s \in Streams |-> HasEof(rs2, s, j)] = [s \in Streams |-> HasEof(rs, s, j)]
  <2>1. \A s : HasEof(rs2, s, j) = HasEof(rs, s, j)
    BY <1>4 DEF HasEof
  <2> QED
    BY <2>1
<1>12. (IF ends2 = {} THEN NoStatus ELSE <<rs2[c2].content[1][3]>>)
        = (IF ends = {} THEN NoStatus ELSE <<rs[c].content[1][3]>>)
  BY <1>3, <1>6, <1>7
<1> QED
  BY <1>8, <1>9, <1>10, <1>11, <1>12

\* The response the records are of is read on.
LEMMA ResponseExtends ==
    ASSUME NEW rs, NEW rs2, NEW id \in Nat, Grows(rs, rs2, id), NEW E, NEW x, Ordered(rs2, id, E, x)
    PROVE  R!Extends(Response(rs, id), Response(rs2, id))
<1> DEFINE n == Len(rs)
           m == Len(rs2)
           r == Response(rs, id)
           q == Response(rs2, id)
<1>1. /\ n \in Nat /\ m \in Nat /\ n <= m
      /\ rs \in Seq(RecordType) /\ rs2 \in Seq(RecordType)
      /\ \A i \in 1 .. n : rs2[i] = rs[i]
      /\ \A i \in 1 .. m : i > n => rs2[i].id = id
  BY LenProperties DEF Grows
<1>2. \A i, k \in 1 .. m : i < k => Follows(rs2[i], rs2[k])
  BY DEF Ordered
<1>3. /\ \A s \in Streams : r.got[s] = Content(rs, s, id) /\ q.got[s] = Content(rs2, s, id)
      /\ \A s \in Streams : (r.eof[s] <=> HasEof(rs, s, id)) /\ (q.eof[s] <=> HasEof(rs2, s, id))
      /\ r.status # NoStatus <=> HasEnd(rs, id)
  BY ResponseIs
<1> HIDE DEF n, m, r, q
<1>4. ASSUME NEW i \in 1 .. n, NEW k \in 1 .. m, k > n
      PROVE  i \in 1 .. m /\ rs2[i] = rs[i] /\ Follows(rs[i], rs2[k]) /\ rs2[k].id = id
  <2>1. i \in 1 .. m /\ i < k
    BY <1>1, <1>4
  <2> QED
    BY <1>1, <1>2, <1>4, <2>1
<1>5. ASSUME NEW s \in Streams
      PROVE  /\ R!IsPrefixOf(r.got[s], q.got[s])
             /\ r.eof[s] => q.eof[s] /\ q.got[s] = r.got[s]
  <2>1. /\ Content(rs, s, id) \in Seq(Cell) /\ Content(rs2, s, id) \in Seq(Cell)
        /\ Begins(Content(rs, s, id), Content(rs2, s, id))
    BY GrowsContent
  <2>2. R!IsPrefixOf(Content(rs, s, id), Content(rs2, s, id))
    BY <2>1, BeginsPrefix
  <2>3. ASSUME HasEof(rs, s, id)
        PROVE  HasEof(rs2, s, id) /\ Content(rs2, s, id) = Content(rs, s, id)
    <3>1. PICK i \in 1 .. n : IsEof(rs[i], s, id)
      BY <2>3 DEF HasEof, n
    <3>2. \A k \in 1 .. m : k > n => ~ (rs2[k].type = s /\ rs2[k].id = id)
      BY <1>4, <3>1 DEF Follows, IsEof
    <3>3. Content(rs2, s, id) = Content(rs, s, id)
      BY <3>2, GrowsContent DEF n, m
    <3> QED
      BY <2>3, <3>3, GrowsMarks
  <2> QED
    BY <1>3, <2>2, <2>3
<1>6. ASSUME r.status # NoStatus PROVE q = r
  <2>1. PICK i \in 1 .. n : IsEnd(rs[i], id)
    BY <1>3, <1>6 DEF HasEnd, n
  <2>2. \A k \in 1 .. m : ~ (k > n)
    BY <1>4, <2>1 DEF Follows, IsEnd
  <2>3. m = n
    <3>1. m > n => m \in 1 .. m
      BY <1>1
    <3> QED
      BY <1>1, <2>2, <3>1
  <2>4. rs2 = rs
    BY <1>1, <2>3, SeqEqual DEF n, m
  <2> QED
    BY <2>4 DEF r, q
<1>7. R!Streams = Streams /\ R!NoStatus = NoStatus
  BY DEF R!Streams, Streams, R!NoStatus, NoStatus
<1> QED
  BY <1>5, <1>6, <1>7 DEF R!Extends, r, q

\* The first record of a request makes a new response.
LEMMA ResponseBegins ==
    ASSUME NEW rs \in Seq(RecordType), NEW id
    PROVE  R!Extends(R!EmptyResponse, Response(rs, id))
<1> DEFINE q == Response(rs, id)
           e == R!EmptyResponse
<1>1. /\ \A s \in Streams : e.got[s] = <<>> /\ ~ e.eof[s]
      /\ e.status = R!NoStatus
  BY DEF R!EmptyResponse, R!Streams, Streams
<1>2. \A s \in Streams : q.got[s] = Content(rs, s, id)
  BY ResponseIs
<1> HIDE DEF q, e
<1>3. ASSUME NEW s \in Streams PROVE R!IsPrefixOf(<<>>, Content(rs, s, id))
  <2>1. Content(rs, s, id) \in Seq(Cell)
    <3>1. Grows(rs, rs, id)
      BY GrowsSame
    <3> QED
      BY <3>1, GrowsContent
  <2>2. <<>> \in Seq(Cell) /\ Begins(<<>>, Content(rs, s, id))
    <3>1. <<>> \in Seq(Cell) /\ Len(<<>>) = 0
      BY EmptySeq
    <3>2. Len(Content(rs, s, id)) \in Nat
      BY <2>1, LenProperties
    <3> QED
      BY <3>1, <3>2 DEF Begins
  <2> QED
    BY <2>1, <2>2, BeginsPrefix
<1>4. R!Streams = Streams
  BY DEF R!Streams, Streams
<1> QED
  BY <1>1, <1>2, <1>3, <1>4 DEF R!Extends, q, e

\* FCGI_END_REQUEST has come after the ends of both streams.
LEMMA ResponseComplete ==
    ASSUME NEW rs, NEW id,
           HasEnd(rs, id) => /\ HasEof(rs, "out", id)
                             /\ HasEof(rs, "err", id) \/ Content(rs, "err", id) = <<>>
    PROVE  R!Complete(Response(rs, id))
<1> DEFINE q == Response(rs, id)
<1>1. /\ \A s \in Streams : q.got[s] = Content(rs, s, id)
      /\ \A s \in Streams : q.eof[s] <=> HasEof(rs, s, id)
      /\ q.status # NoStatus <=> HasEnd(rs, id)
  BY ResponseIs
<1>2. "out" \in Streams /\ "err" \in Streams /\ R!NoStatus = NoStatus
  BY DEF Streams, R!NoStatus, NoStatus
<1> HIDE DEF q
<1> QED
  BY <1>1, <1>2 DEF R!Complete, q

\* The responses one by one: count of them, first the one of request first.
Lists(a, rs, first, count) ==
    /\ first \in Nat /\ count \in Nat
    /\ Len(a) = count
    /\ \A k \in 1 .. count : a[k] = Response(rs, first + k - 1)

\* The responses are those of the requests from the first to the last.
LEMMA ResponsesList ==
    ASSUME NEW rs, rs # <<>>, NEW first \in Nat, NEW last \in Nat, first <= last,
           rs[1].id = first, rs[Len(rs)].id = last
    PROVE  Lists(Responses(rs), rs, first, last - first + 1) /\ Responses(rs) # <<>>
<1> DEFINE n == last - first + 1
           a == [k \in 1 .. n |-> Response(rs, first + k - 1)]
           S == {Response(rs, first + k - 1) : k \in 1 .. n}
<1>1. Responses(rs) = a
  BY DEF Responses
<1>2. n \in Nat /\ n # 0
  OBVIOUS
<1>3. a \in [1 .. n -> S]
  OBVIOUS
<1> HIDE DEF S
<1>4. DOMAIN a = 1 .. n /\ \A k \in 1 .. n : a[k] = Response(rs, first + k - 1)
  OBVIOUS
<1> HIDE DEF a, n
<1>5. a \in Seq(S)
  BY <1>2, <1>3, SeqDef
<1>6. Len(a) = n
  BY <1>2, <1>4, <1>5, LenProperties
<1>7. a # <<>>
  BY <1>2, <1>6, EmptySeq
<1> QED
  BY <1>1, <1>2, <1>4, <1>6, <1>7 DEF Lists, n

\* The numbers of the requests that records are of.
LEMMA RequestNumbers ==
    ASSUME NEW rs, NEW id \in Nat, NEW E, NEW x, Ordered(rs, id, E, x), rs # <<>>
    PROVE  /\ rs[1].id \in Nat /\ rs[Len(rs)].id \in Nat
           /\ rs[1].id <= rs[Len(rs)].id
           /\ Len(rs) \in Nat /\ Len(rs) > 0
<1> DEFINE n == Len(rs)
<1>1. n \in Nat /\ n # 0 /\ rs \in Seq(RecordType)
  BY LenProperties, EmptySeq DEF Ordered
<1>2. 1 \in 1 .. n /\ n \in 1 .. n
  BY <1>1
<1>3. rs[1].id \in Nat /\ rs[n].id \in Nat
  <2>1. rs[1] \in RecordType /\ rs[n] \in RecordType
    BY <1>1, <1>2, ElementOfSeq
  <2> QED
    BY <2>1 DEF RecordType
<1>4. CASE n = 1
  BY <1>1, <1>3, <1>4
<1>5. CASE n # 1
  <2>1. 1 < n
    <3> HIDE DEF n
    <3> QED
      BY <1>1, <1>5
  <2>2. Follows(rs[1], rs[n])
    BY <1>2, <2>1 DEF Ordered
  <2> QED
    BY <1>1, <1>3, <2>2 DEF Follows
<1> QED
  BY <1>4, <1>5

(***************************************************************************)
(* The steps of the abstract specification, in terms of two sequences of   *)
(* responses a and b.                                                      *)
(***************************************************************************)
Grew(a, b) ==
    /\ a # <<>>
    /\ Len(b) = Len(a)
    /\ \A i \in 1 .. Len(a) - 1 : b[i] = a[i]
    /\ R!Extends(a[Len(a)], b[Len(a)])
    /\ R!Complete(b[Len(a)])

Began(a, b) ==
    /\ a # <<>> => a[Len(a)].status # R!NoStatus
    /\ Len(b) = Len(a) + 1
    /\ \A i \in 1 .. Len(a) : b[i] = a[i]
    /\ R!Extends(R!EmptyResponse, b[Len(b)])
    /\ R!Complete(b[Len(b)])

\* More records of the request the last records were of.
LEMMA GrowStep ==
    ASSUME NEW rs, NEW rs2, NEW id \in Nat, Grows(rs, rs2, id),
           NEW E, NEW x, Ordered(rs2, id, E, x), NEW F, NEW y, Ordered(rs, id, F, y),
           rs # <<>>, rs[Len(rs)].id = id,
           HasEnd(rs2, id) => /\ HasEof(rs2, "out", id)
                              /\ HasEof(rs2, "err", id) \/ Content(rs2, "err", id) = <<>>
    PROVE  Grew(Responses(rs), Responses(rs2))
<1> DEFINE a == Responses(rs)
           b == Responses(rs2)
           first == rs[1].id
           count == id - first + 1
           n == Len(rs)
           m == Len(rs2)
<1>1. first \in Nat /\ first <= id /\ n \in Nat /\ n > 0
  BY RequestNumbers
<1>2. /\ m \in Nat /\ n <= m
      /\ \A i \in 1 .. n : rs2[i] = rs[i]
      /\ \A i \in 1 .. m : i > n => rs2[i].id = id
  BY LenProperties DEF Grows
<1>3. Lists(a, rs, first, count) /\ a # <<>>
  BY <1>1, ResponsesList
<1>4. Lists(b, rs2, first, count)
  <2>1. rs2[1].id = first
    <3>1. 1 \in 1 .. n
      BY <1>1
    <3> QED
      BY <1>2, <3>1
  <2>2. rs2[m].id = id
    <3>1. CASE m = n
      <4>1. n \in 1 .. n
        BY <1>1
      <4> QED
        BY <1>2, <3>1, <4>1
    <3>2. CASE m # n
      <4>1. m \in 1 .. m /\ m > n
        BY <1>1, <1>2, <3>2
      <4> QED
        BY <1>2, <4>1
    <3> QED
      BY <3>1, <3>2
  <2>3. rs2 # <<>>
    <3>1. m # 0
      BY <1>1, <1>2
    <3> QED
      BY <3>1, EmptySeq
  <2> HIDE DEF first
  <2> QED
    BY <1>1, <2>1, <2>2, <2>3, ResponsesList
<1> HIDE DEF a, b, first, n, m
<1>5. count \in Nat /\ count \in 1 .. count /\ first + count - 1 = id
  BY <1>1
<1>6. \A k \in 1 .. count - 1 : k \in 1 .. count /\ first + k - 1 # id
  BY <1>1
<1> HIDE DEF count
<1>7. \A k \in 1 .. count - 1 : b[k] = a[k]
  <2> SUFFICES ASSUME NEW k \in 1 .. count - 1 PROVE b[k] = a[k]
    OBVIOUS
  <2> DEFINE j == first + k - 1
  <2>1. a[k] = Response(rs, j) /\ b[k] = Response(rs2, j) /\ j # id
    BY <1>3, <1>4, <1>6 DEF Lists
  <2> HIDE DEF j
  <2>2. Response(rs2, j) = Response(rs, j)
    BY <2>1, OtherResponse
  <2> QED
    BY <2>1, <2>2
<1>8. a[count] = Response(rs, id) /\ b[count] = Response(rs2, id)
      /\ Len(a) = count /\ Len(b) = count
  BY <1>3, <1>4, <1>5 DEF Lists
<1>9. R!Extends(Response(rs, id), Response(rs2, id)) /\ R!Complete(Response(rs2, id))
  BY ResponseExtends, ResponseComplete
<1>10. Grew(a, b)
  BY <1>3, <1>7, <1>8, <1>9 DEF Grew
<1> QED
  BY <1>10 DEF a, b

\* The first records of the next request.
LEMMA BeginStep ==
    ASSUME NEW rs, NEW rs2, NEW id \in Nat, Grows(rs, rs2, id), rs2 # rs,
           NEW E, NEW x, Ordered(rs2, id, E, x), NEW F, NEW y, Ordered(rs, id, F, y),
           rs # <<>> => rs[Len(rs)].id = id - 1 /\ HasEnd(rs, id - 1),
           HasEnd(rs2, id) => /\ HasEof(rs2, "out", id)
                              /\ HasEof(rs2, "err", id) \/ Content(rs2, "err", id) = <<>>
    PROVE  Began(Responses(rs), Responses(rs2))
<1> DEFINE a == Responses(rs)
           b == Responses(rs2)
           n == Len(rs)
           m == Len(rs2)
<1>1. /\ m \in Nat /\ n \in Nat /\ n <= m
      /\ rs \in Seq(RecordType) /\ rs2 \in Seq(RecordType)
      /\ \A i \in 1 .. n : rs2[i] = rs[i]
      /\ \A i \in 1 .. m : i > n => rs2[i].id = id
  BY LenProperties DEF Grows
<1>2. m > n /\ m \in 1 .. m
  <2>1. n = m => rs2 = rs
    BY <1>1, SeqEqual
  <2>2. n # m
    BY <2>1
  <2> HIDE DEF n, m
  <2> QED
    BY <1>1, <2>2
<1>3. rs2[m].id = id
  BY <1>1, <1>2
<1>4. rs2 # <<>>
  <2>1. m # 0
    BY <1>1, <1>2
  <2> QED
    BY <2>1, EmptySeq
<1>5. R!Extends(R!EmptyResponse, Response(rs2, id)) /\ R!Complete(Response(rs2, id))
  BY <1>1, ResponseBegins, ResponseComplete
<1>6. CASE rs = <<>>
  <2>1. n = 0
    BY <1>6, EmptySeq
  <2>2. 1 \in 1 .. m /\ 1 > n
    BY <1>1, <1>2, <2>1
  <2>3. rs2[1].id = id
    BY <1>1, <2>2
  <2> DEFINE one == id - id + 1
  <2>4. Lists(b, rs2, id, one)
    <3>1. id <= id
      OBVIOUS
    <3> QED
      BY <1>3, <1>4, <2>3, <3>1, ResponsesList
  <2>5. one = 1 /\ id + 1 - 1 = id
    OBVIOUS
  <2> HIDE DEF one
  <2>6. Len(b) = 1 /\ b[1] = Response(rs2, id)
    BY <2>4, <2>5 DEF Lists
  <2>7. a = <<>> /\ Len(a) = 0
    BY <1>6, EmptySeq DEF Responses
  <2> HIDE DEF a, b
  <2>8. /\ Len(b) = Len(a) + 1 /\ Len(b) = 1
        /\ \A i \in 1 .. Len(a) : b[i] = a[i]
    BY <2>6, <2>7
  <2>9. Began(a, b)
    BY <1>5, <2>6, <2>7, <2>8 DEF Began
  <2> QED
    BY <2>9 DEF a, b
<1>7. CASE rs # <<>>
  <2> DEFINE first == rs[1].id
             last == rs[n].id
             count == last - first + 1
             more == id - first + 1
  <2>1. first \in Nat /\ last \in Nat /\ first <= last /\ n > 0
    BY <1>7, RequestNumbers
  <2>2. last = id - 1 /\ HasEnd(rs, last)
    BY <1>7
  <2>3. Lists(a, rs, first, count) /\ a # <<>>
    BY <1>7, <2>1, ResponsesList
  <2>4. rs2[1].id = first
    <3>1. 1 \in 1 .. n
      BY <1>1, <2>1
    <3> QED
      BY <1>1, <3>1
  <2> HIDE DEF first, last, n, m
  <2>5. first <= id
    BY <2>1, <2>2
  <2>6. Lists(b, rs2, first, more)
    BY <1>3, <1>4, <2>1, <2>4, <2>5, ResponsesList DEF m
  <2>7. /\ count \in Nat /\ count \in 1 .. count /\ first + count - 1 = last
        /\ more = count + 1 /\ more \in 1 .. more /\ first + more - 1 = id
    BY <2>1, <2>2
  <2>8. \A k \in 1 .. count : k \in 1 .. more /\ first + k - 1 # id
    BY <2>1, <2>2
  <2> HIDE DEF count, more
  <2>9. \A k \in 1 .. count : b[k] = a[k]
    <3> SUFFICES ASSUME NEW k \in 1 .. count PROVE b[k] = a[k]
      OBVIOUS
    <3> DEFINE j == first + k - 1
    <3>1. a[k] = Response(rs, j) /\ b[k] = Response(rs2, j) /\ j # id
      BY <2>3, <2>6, <2>8 DEF Lists
    <3> HIDE DEF j
    <3>2. Response(rs2, j) = Response(rs, j)
      BY <3>1, OtherResponse
    <3> QED
      BY <3>1, <3>2
  <2>10. /\ Len(a) = count /\ Len(b) = more /\ a[count] = Response(rs, last)
         /\ b[more] = Response(rs2, id)
    BY <2>3, <2>6, <2>7 DEF Lists
  <2>11. a[count].status # R!NoStatus
    <3>1. Response(rs, last).status # NoStatus
      BY <2>2, ResponseIs
    <3> QED
      BY <2>10, <3>1 DEF R!NoStatus, NoStatus
  <2> HIDE DEF a, b
  <2>12. Began(a, b)
    BY <1>5, <2>7, <2>9, <2>10, <2>11 DEF Began
  <2> QED
    BY <2>12 DEF a, b
<1> QED
  BY <1>6, <1>7

\* A step on the records of a connection is one of the abstract specification.
LEMMA RefinementStep ==
    ASSUME IInv, RInv, RInv', Received
    PROVE  [R!Next]_(Responses(recs))
<1> DEFINE a == Responses(recs)
           b == Responses(recs')
<1>1. CASE recs' = recs
  <2>1. b = a
    BY <1>1
  <2> QED
    BY <2>1
<1>2. CASE recs' = <<>>
  <2>1. b = <<>>
    BY <1>2 DEF Responses
  <2> QED
    BY <2>1 DEF R!Next, R!Reconnect
<1>3. CASE Grown /\ recs' # recs
  <2>1. /\ Id \in Nat /\ Id' = Id /\ Grows(recs, recs', Id) /\ net.room # 0
    BY <1>3 DEF Grown, IInv, RequestType, Id
  <2>2. Ordered(recs, Id, Closed, BothClosed)
    BY DEF RInv
  <2> DEFINE E == Closed'
             x == BothClosed'
  <2>3. Ordered(recs', Id, E, x)
    BY <2>1 DEF RInv
  <2>4. HasEnd(recs', Id) => /\ HasEof(recs', "out", Id)
                             /\ HasEof(recs', "err", Id) \/ Content(recs', "err", Id) = <<>>
    BY <2>1 DEF RInv, Ending
  <2> HIDE DEF E, x
  <2>5. CASE recs # <<>> /\ recs[Len(recs)].id = Id
    <3>1. Grew(a, b)
      BY <2>1, <2>2, <2>3, <2>4, <2>5, GrowStep
    <3> HIDE DEF a, b
    <3>2. R!Grow
      BY <3>1 DEF Grew, R!Grow, a, b
    <3> QED
      BY <3>2 DEF R!Next
  <2>6. CASE ~ (recs # <<>> /\ recs[Len(recs)].id = Id)
    <3>1. net.room > 0
      BY <2>1 DEF RInv, NetOK, NetType
    <3>2. recs # <<>> => recs[Len(recs)].id = Id - 1 /\ HasEnd(recs, Id - 1)
      <4>1. Previous(recs, net.room, Id)
        BY DEF RInv
      <4> QED
        BY <2>6, <3>1, <4>1 DEF Previous
    <3>3. Began(a, b)
      BY <1>3, <2>1, <2>2, <2>3, <2>4, <3>2, BeginStep
    <3> HIDE DEF a, b
    <3>4. R!Begin
      BY <3>3 DEF Began, R!Begin, a, b
    <3> QED
      BY <3>4 DEF R!Next
  <2> QED
    BY <2>5, <2>6
<1> QED
  BY <1>1, <1>2, <1>3 DEF Received

(***************************************************************************)
(* The connection always carries well-formed records, and nothing follows  *)
(* a stream's end mark or a request's FCGI_END_REQUEST: whatever the sizes *)
(* of the buffers and writes, and wherever a write of the connection       *)
(* fails for good.                                                         *)
(***************************************************************************)
THEOREM FramedTheorem ==
    ASSUME ~ Transient
    PROVE  ResponseSpec => []WellFramed
<1>1. IInv /\ RInv => WellFramed
  BY FramedLemma
<1> QED
  BY <1>1, ResponseInvariant, PTL

(***************************************************************************)
(* What the server has of a stream, followed by what FCGX_PutStr has left  *)
(* in the buffer, is what the application wrote, in order and once.        *)
(***************************************************************************)
THEOREM NothingLostTheorem ==
    ASSUME ~ Transient
    PROVE  ResponseSpec => []NothingLostOrRepeated
<1>1. IInv /\ RInv => NothingLostOrRepeated
  BY NothingLostLemma
<1> QED
  BY <1>1, ResponseInvariant, PTL

(***************************************************************************)
(* FCGX_Finish_r delivers the whole response, or does not keep the         *)
(* connection (unless the application cleared the error).                  *)
(***************************************************************************)
THEOREM FinishedTheorem ==
    ASSUME ~ Transient
    PROVE  ResponseSpec => []FinishedMeansSent
<1>1. IInv /\ RInv => FinishedMeansSent
  BY FinishedLemma
<1> QED
  BY <1>1, ResponseInvariant, PTL

(***************************************************************************)
(* The writers implement ResponseStream: the records on a connection make  *)
(* up one response after the other, each of which only grows until it is   *)
(* ended, once.                                                            *)
(***************************************************************************)
THEOREM RefinementTheorem ==
    ASSUME ~ Transient
    PROVE  ResponseSpec => ImplementsResponseStream
<1>1. ResponseInit => R!Init
  BY DEF ResponseInit, R!Init, Responses
<1>2. IInv /\ RInv /\ [ResponseNext]_<<vars, recs>> => [R!Next]_(Responses(recs))
  BY NextOwed, RefinementStep
<1> QED
  BY <1>1, <1>2, ResponseInvariant, PTL DEF ResponseSpec, ImplementsResponseStream, R!Spec
=============================================================================
