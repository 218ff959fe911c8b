----------------------------- MODULE FcgxWriter -----------------------------
(***************************************************************************)
(* The writing half of libfcgi/fcgiapp.c: the two output streams of a      *)
(* request (out = FCGI_STDOUT, err = FCGI_STDERR), how EmptyBuffProc turns *)
(* buffered bytes into records, how the close records are produced, and    *)
(* how FCGX_Finish_r decides whether the connection is kept.               *)
(*                                                                         *)
(* Buffers and the connection hold cells.  A cell stands for one byte and  *)
(* says what the byte is: byte i of a header, of an end-request body, the  *)
(* n-th byte the application wrote to a stream, padding, or a byte of the  *)
(* header slot that has not been filled in.  Sizes are the real ones.      *)
(***************************************************************************)
EXTENDS Integers, Sequences

CONSTANTS
    BuffLen,       \* data->bufflen of each stream
    Chunks,        \* the sizes the application passes to FCGX_PutStr
    MaxBytes,      \* bound: bytes written to one stream in one request
    MaxRequests,   \* bound: requests handled by the process
    Statuses,      \* exit statuses the application may set
    KeepConns,     \* values of FCGI_KEEP_CONN the server may send
    Rooms,         \* bytes a connection accepts before a write(2) fails
    Plenty,        \* a room that the run never uses up
    Transient,     \* TRUE: the failure is an EINTR and the next write works
    MayClear       \* TRUE: the application may call FCGX_ClearError

VARIABLES
    stream,        \* the FCGX_Stream (and its data) of out and err
    request,       \* the fields of FCGX_Request that the writers use
    net,           \* the connection: what was accepted, what it still takes
    call,          \* the call in progress
    said,          \* history: bytes moved into each stream's buffer
    failed,        \* history: said[s] when a write of s first failed, or -1
    cleared,       \* history: FCGX_ClearError was called in this request
    claimed        \* history: the last status set before this request ended

vars == <<stream, request, net, call, said, failed, cleared, claimed>>

Streams == {"out", "err"}

FCGI_HEADER_LEN == 8
FCGI_MAX_LENGTH == 65535
OS_Errno == 32          \* EPIPE, EINTR, ...: any errno, which is positive

ASSUME BuffLenAssumption ==
    BuffLen \in [Streams -> {n \in 24 .. FCGI_MAX_LENGTH + 1 : n % 8 = 0}]

ASSUME ChunksAssumption == Chunks \subseteq Nat \ {0}

ASSUME BoundsAssumption == MaxBytes \in Nat /\ MaxRequests \in Nat

ASSUME StatusesAssumption == Statuses \subseteq Int

ASSUME TransportAssumption ==
    /\ Rooms \subseteq Nat /\ Plenty \in Nat
    /\ Transient \in BOOLEAN /\ MayClear \in BOOLEAN
    /\ KeepConns \subseteq BOOLEAN

(***************************************************************************)
(* Cells                                                                   *)
(***************************************************************************)

\* Seeded faults (operators named Bad...): each is a plausible slip in the
\* definition that follows it, which some property below must notice.

BadAlignPast(n) == (n \div 8 + 1) * 8

AlignInt8(n) == ((n + 7) \div 8) * 8

\* The header of a record of type t for request id.
MakeHeader(t, id, contentLength, paddingLength) ==
    [i \in 1 .. FCGI_HEADER_LEN |-> <<"hdr", t, id, contentLength, paddingLength, i>>]

MakeEndRequestBody(id, appStatus) == [i \in 1 .. 8 |-> <<"body", id, appStatus, i>>]

EndRequestRecord(id, appStatus) ==
    MakeHeader("end", id, 8, 0) \o MakeEndRequestBody(id, appStatus)

Padding(n) == [i \in 1 .. n |-> <<"pad">>]

\* The space NewStream and EmptyBuffProc reserve for a header to come.
HeaderSlot == [i \in 1 .. FCGI_HEADER_LEN |-> <<"slot">>]

\* Bytes n+1 .. n+m of what the application writes to s.
Bytes(s, n, m) == [i \in 1 .. m |-> <<"data", s, n + i>>]

(***************************************************************************)
(* The stream operations.  They act on w = [st, req, net]: one stream, the *)
(* request it belongs to and the connection.  st.buff holds the bytes from *)
(* data->buff up to stream->wrNext, st.stop is stream->stop - data->buff.  *)
(***************************************************************************)

NewWriter(s) ==
    [type |-> s, buff |-> HeaderSlot, stop |-> BuffLen[s], isClosed |-> FALSE,
     wasFCloseCalled |-> FALSE, FCGI_errno |-> 0, isAnythingWritten |-> FALSE,
     rawWrite |-> FALSE]

Space(st) == st.stop - Len(st.buff)

Put(w, cells) == [w EXCEPT !.st.buff = @ \o cells]

SetError(st, errno) ==
    [st EXCEPT !.FCGI_errno = IF @ = 0 THEN errno ELSE @, !.isClosed = TRUE]

\* write_it_all: the connection takes every byte, or only the first ones.
WriteItAll(n, buf) ==
    IF Len(buf) <= n.room
      THEN [n EXCEPT !.wire = @ \o buf, !.room = @ - Len(buf)]
      ELSE [n EXCEPT !.wire = @ \o SubSeq(buf, 1, n.room),
                     !.room = IF Transient THEN Plenty ELSE 0]

\* Fault: the space reserved for the header is not reclaimed.
BadEncapsulate(w) ==
    LET cLen == Len(w.st.buff) - FCGI_HEADER_LEN
        eLen == AlignInt8(cLen)
        record == MakeHeader(w.st.type, w.req.requestId, cLen, eLen - cLen)
                    \o SubSeq(w.st.buff, FCGI_HEADER_LEN + 1, Len(w.st.buff))
                    \o Padding(eLen - cLen)
    IN  IF w.st.rawWrite \/ cLen <= 0 THEN w ELSE [w EXCEPT !.st.buff = record]

\* EmptyBuffProc, first part: turn the buffered content into a record.
Encapsulate(w) ==
    LET cLen == Len(w.st.buff) - FCGI_HEADER_LEN
        eLen == AlignInt8(cLen)
        record == MakeHeader(w.st.type, w.req.requestId, cLen, eLen - cLen)
                    \o SubSeq(w.st.buff, FCGI_HEADER_LEN + 1, Len(w.st.buff))
                    \o Padding(eLen - cLen)
    IN  IF w.st.rawWrite THEN w
        ELSE [w EXCEPT !.st.buff = IF cLen > 0 THEN record ELSE <<>>]

\* EmptyBuffProc, last part: write the buffer, leave it ready for content.
WriteBuff(w) ==
    LET ok == Len(w.st.buff) <= w.net.room
        st == [w.st EXCEPT !.isAnythingWritten = @ \/ w.st.buff # <<>>]
    IN  [w EXCEPT
           !.net = IF w.st.buff = <<>> THEN @ ELSE WriteItAll(@, w.st.buff),
           !.st  = IF ok THEN [st EXCEPT !.buff = IF st.rawWrite THEN <<>> ELSE HeaderSlot]
                         ELSE SetError(st, OS_Errno)]

\* FCGX_PutStr of a whole record in rawWrite mode, where emptying the buffer
\* is just writing it.  A record is no longer than an empty buffer.
PutRecord(w, record) ==
    LET n == Space(w.st)
        full == Put(w, SubSeq(record, 1, n))
        emptied == WriteBuff(full)
    IN  IF Len(record) <= n THEN Put(w, record)
        ELSE IF w.st.isClosed THEN full
        ELSE IF emptied.st.isClosed THEN emptied
        ELSE Put(emptied, SubSeq(record, n + 1, Len(record)))

\* Fault: an out stream that was not written to gets no end mark either.
BadPutEofRecord(w) ==
    IF w.st.buff = <<>> /\ ~ w.st.isAnythingWritten
      THEN w
      ELSE PutRecord(w, MakeHeader(w.st.type, w.req.requestId, 0, 0))

PutEofRecord(w) ==
    IF w.st.type = "err" /\ w.st.buff = <<>> /\ ~ w.st.isAnythingWritten
      THEN w
      ELSE PutRecord(w, MakeHeader(w.st.type, w.req.requestId, 0, 0))

\* Fault: off by one, the first stream to close ends the request.
BadPutEndRequest(w) ==
    IF w.req.nWriters = 2
      THEN PutRecord(w, EndRequestRecord(w.req.requestId, w.req.appStatus))
      ELSE w

PutEndRequest(w) ==
    IF w.req.nWriters = 1
      THEN PutRecord(w, EndRequestRecord(w.req.requestId, w.req.appStatus))
      ELSE w

\* Fault: a stream in error returns before it is counted as closed.
BadWriteCloseRecords(w) ==
    LET raw == [w EXCEPT !.st.rawWrite = TRUE]
        done == PutEndRequest(PutEofRecord(raw))
    IN  IF w.st.isClosed THEN raw ELSE [done EXCEPT !.req.nWriters = @ - 1]

WriteCloseRecords(w) ==
    LET raw == [w EXCEPT !.st.rawWrite = TRUE]
        done == PutEndRequest(PutEofRecord(raw))
    IN  [done EXCEPT !.req.nWriters = @ - 1]

EmptyBuffProc(w, doClose) ==
    WriteBuff(IF doClose THEN WriteCloseRecords(Encapsulate(w)) ELSE Encapsulate(w))

FClose(w) ==
    LET e == EmptyBuffProc(w, TRUE)
    IN  IF w.st.wasFCloseCalled THEN w
        ELSE [e EXCEPT !.st.wasFCloseCalled = TRUE, !.st.isClosed = TRUE,
                       !.st.stop = Len(e.st.buff)]

(***************************************************************************)
(* The actions                                                             *)
(***************************************************************************)

Idle == [op |-> "idle", s |-> "out", left |-> 0]

World(s) == [st |-> stream[s], req |-> request, net |-> net]

\* Install the result of an operation on stream s, and note a failed write:
\* SetError was called by this operation iff it wrote less than it had to.
Become(s, w, m) ==
    /\ stream' = [stream EXCEPT ![s] = w.st]
    /\ request' = w.req
    /\ net' = w.net
    /\ said' = [said EXCEPT ![s] = @ + m]
    /\ failed' = [failed EXCEPT ![s] =
                    IF @ = -1 /\ w.st.FCGI_errno # 0 THEN said[s] + m ELSE @]

\* Fault: the bytes that fill the buffer are counted but not copied.
BadPutStrIteration(s, left) ==
    LET n == Space(stream[s])
        m == IF left <= n THEN left ELSE n
        w == Put(World(s), Bytes(s, said[s], m))
    IN  \/ /\ m = left
           /\ Become(s, w, m) /\ call' = Idle
        \/ /\ m < left /\ stream[s].isClosed
           /\ Become(s, w, m) /\ call' = Idle
        \/ /\ m < left /\ ~ stream[s].isClosed
           /\ Become(s, EmptyBuffProc(World(s), FALSE), m)
           /\ call' = [op |-> "PutStr", s |-> s, left |-> left - m]

\* One iteration of the loop of FCGX_PutStr, left bytes still to be moved.
PutStrIteration(s, left) ==
    LET n == Space(stream[s])
        m == IF left <= n THEN left ELSE n
        w == Put(World(s), Bytes(s, said[s], m))
    IN  \/ /\ m = left
           /\ Become(s, w, m) /\ call' = Idle
        \/ /\ m < left /\ stream[s].isClosed
           /\ Become(s, w, m) /\ call' = Idle
        \/ /\ m < left /\ ~ stream[s].isClosed
           /\ Become(s, EmptyBuffProc(w, FALSE), m)
           /\ call' = [op |-> "PutStr", s |-> s, left |-> left - m]

\* The application calls FCGX_PutStr (FCGX_PutChar for one byte).
PutStr(s, n) ==
    /\ call = Idle /\ request.active
    /\ said[s] + n <= MaxBytes
    /\ PutStrIteration(s, n)
    /\ UNCHANGED <<cleared, claimed>>

PutStrLoop ==
    /\ call.op = "PutStr"
    /\ PutStrIteration(call.s, call.left)
    /\ UNCHANGED <<cleared, claimed>>

FFlush(s) ==
    /\ call = Idle /\ request.active
    /\ ~ stream[s].isClosed
    /\ Become(s, EmptyBuffProc(World(s), FALSE), 0)
    /\ UNCHANGED <<call, cleared, claimed>>

\* The application closes a stream itself.
FCloseByApp(s) ==
    /\ call = Idle /\ request.active
    /\ ~ stream[s].wasFCloseCalled
    /\ Become(s, FClose(World(s)), 0)
    /\ UNCHANGED <<call, cleared, claimed>>

ClearError(s) ==
    /\ MayClear
    /\ call = Idle /\ request.active
    /\ stream[s].FCGI_errno # 0
    /\ stream' = [stream EXCEPT ![s].FCGI_errno = 0]
    /\ cleared' = TRUE
    /\ UNCHANGED <<request, net, call, said, failed, claimed>>

SetExitStatus(status) ==
    /\ call = Idle /\ request.active
    /\ request.appStatus # status
    /\ request' = [request EXCEPT !.appStatus = status]
    /\ claimed' = IF request.nWriters > 0 THEN <<status>> ELSE claimed
    /\ UNCHANGED <<stream, net, call, said, failed, cleared>>

\* FCGX_Finish_r closes err first ...
FinishErr ==
    /\ call = Idle /\ request.active
    /\ Become("err", FClose(World("err")), 0)
    /\ call' = [op |-> "Finish", s |-> "out", left |-> 0]
    /\ UNCHANGED <<cleared, claimed>>

\* Fault: the result of closing err is forgotten.
BadFinishOut(inError) ==
    LET w == FClose(World("out"))
        close == ~ request.keepConnection \/ w.st.FCGI_errno # 0 \/ inError
    IN  /\ call.op = "Finish"
        /\ Become("out",
             [w EXCEPT !.req.active = FALSE, !.net.open = ~ close], 0)
        /\ call' = Idle
        /\ UNCHANGED <<cleared, claimed>>

\* ... then out, then it frees the streams and closes the connection unless
\* the server asked to keep it and neither FCGX_FClose reported an error.
\* inError is the outcome of FCGX_GetError on the input stream.
FinishOut(inError) ==
    LET w == FClose(World("out"))
        close == \/ ~ request.keepConnection
                 \/ stream["err"].FCGI_errno # 0
                 \/ w.st.FCGI_errno # 0
                 \/ inError
    IN  /\ call.op = "Finish"
        /\ Become("out",
             [w EXCEPT !.req.active = FALSE, !.net.open = ~ close], 0)
        /\ call' = Idle
        /\ UNCHANGED <<cleared, claimed>>

\* FCGX_Accept_r: the streams of the next request, on the connection that was
\* kept or on a new one.  appStatus is left as it is.
Accept(keep, room) ==
    /\ call = Idle /\ ~ request.active
    /\ request.requestId < MaxRequests
    /\ stream' = [s \in Streams |-> NewWriter(s)]
    /\ request' = [request EXCEPT !.requestId = @ + 1, !.active = TRUE,
                                  !.keepConnection = keep, !.nWriters = 2]
    /\ net' = IF net.open THEN net
              ELSE [wire |-> <<>>, room |-> room, open |-> TRUE]
    /\ said' = [s \in Streams |-> 0]
    /\ failed' = [s \in Streams |-> -1]
    /\ cleared' = FALSE
    /\ claimed' = <<>>
    /\ UNCHANGED call

\* FCGX_InitRequest clears the request; nothing has been accepted yet.
Init ==
    /\ stream = [s \in Streams |-> NewWriter(s)]
    /\ request = [requestId |-> 0, active |-> FALSE, keepConnection |-> FALSE,
                  nWriters |-> 0, appStatus |-> 0]
    /\ net = [wire |-> <<>>, room |-> 0, open |-> FALSE]
    /\ call = Idle
    /\ said = [s \in Streams |-> 0]
    /\ failed = [s \in Streams |-> -1]
    /\ cleared = FALSE
    /\ claimed = <<>>

Next ==
    \/ \E s \in Streams, n \in Chunks : PutStr(s, n)
    \/ PutStrLoop
    \/ \E s \in Streams : FFlush(s) \/ FCloseByApp(s) \/ ClearError(s)
    \/ \E status \in Statuses : SetExitStatus(status)
    \/ FinishErr
    \/ \E inError \in BOOLEAN : FinishOut(inError)
    \/ \E keep \in KeepConns, room \in Rooms : Accept(keep, room)

Spec == Init /\ [][Next]_vars

(***************************************************************************)
(* Properties that speak of the streams' own state                         *)
(***************************************************************************)

Cell ==
    ({"hdr"} \X (Streams \cup {"end"}) \X Nat \X (0 .. FCGI_MAX_LENGTH)
             \X (0 .. 255) \X (1 .. FCGI_HEADER_LEN))
    \cup ({"body"} \X Nat \X Int \X (1 .. 8))
    \cup ({"data"} \X Streams \X Nat)
    \cup {<<"pad">>, <<"slot">>}

StreamType ==
    [type : Streams, buff : Seq(Cell), stop : Nat, isClosed : BOOLEAN,
     wasFCloseCalled : BOOLEAN, FCGI_errno : Nat, isAnythingWritten : BOOLEAN,
     rawWrite : BOOLEAN]

RequestType ==
    [requestId : Nat, active : BOOLEAN, keepConnection : BOOLEAN,
     nWriters : 0 .. 2, appStatus : Int]

NetType == [wire : Seq(Cell), room : Nat, open : BOOLEAN]

(***************************************************************************)
(* Type correctness.  Every header in a buffer or on the connection        *)
(* satisfies the two ASSERTs of MakeHeader: its content length fits 16     *)
(* bits and its padding length 8 bits.  nWriters never becomes negative.   *)
(***************************************************************************)
TypeOK ==
    /\ stream \in [Streams -> StreamType]
    /\ request \in RequestType
    /\ net \in NetType
    /\ call \in [op : {"idle", "PutStr", "Finish"}, s : Streams, left : Nat]
    /\ said \in [Streams -> Nat]
    /\ failed \in [Streams -> Nat \cup {-1}]
    /\ cleared \in BOOLEAN
    /\ claimed \in Seq(Int)

(***************************************************************************)
(* The write pointer stays in the buffer: padding a record to a multiple   *)
(* of 8, the close records, and the bytes still accepted after a failed    *)
(* write all fit ("Padding can't overflow the buffer because the buffer is *)
(* a multiple of 8 bytes in length", EmptyBuffProc).                       *)
(***************************************************************************)
BufferFits ==
    \A s \in Streams :
        /\ Len(stream[s].buff) <= stream[s].stop
        /\ stream[s].stop <= BuffLen[s]

Unclosed(s) == IF stream[s].wasFCloseCalled THEN 0 ELSE 1

(***************************************************************************)
(* nWriters counts the streams that are still to be closed, whatever the   *)
(* application closes itself and whichever writes fail: it decides who     *)
(* sends FCGI_END_REQUEST (WriteCloseRecords).                             *)
(***************************************************************************)
WritersCounted ==
    request.requestId > 0 => request.nWriters = Unclosed("out") + Unclosed("err")

(***************************************************************************)
(* No byte of the FCGI_END_REQUEST of the current request is sent before   *)
(* both of its output streams are closed, in whatever order they are.      *)
(***************************************************************************)
NoEarlyEnd ==
    \A i \in 1 .. Len(net.wire) :
        net.wire[i][1] = "body" /\ net.wire[i][2] = request.requestId
          => \A s \in Streams : stream[s].wasFCloseCalled
=============================================================================
