----------------------------- MODULE FcgxReader -----------------------------
(***************************************************************************)
(* The reading half of libfcgi/fcgiapp.c: how FillBuffProc cuts what       *)
(* read(2) returns into records, what ProcessHeader does with them, and    *)
(* how FCGX_Accept_r gets a request out of a connection and closes it.     *)
(*                                                                         *)
(* A connection is a sequence of cells.  A header is HeaderLen of them, an *)
(* FCGI_BeginRequestBody BodyLen, a name-value pair PairLen; a cell says   *)
(* which byte of which header, body, pair or stream it is.  The server     *)
(* sends its records in bursts: the first when it connects, the next one   *)
(* when the request before it has been answered.  How the bytes are        *)
(* grouped into reads is left open.                                        *)
(***************************************************************************)
EXTENDS Integers, Sequences

CONSTANTS
    HeaderLen, BodyLen, PairLen,
    BuffLen,       \* data->bufflen: the most one read(2) returns
    Wants,         \* the sizes the application passes to FCGX_GetStr
    Connections,   \* what a server may send: sequences of bursts of records
    MaxConns,      \* bound: connections accepted
    MayCrash,      \* TRUE: the server may stop anywhere and close its end
    MayFail,       \* TRUE: the connection may be reset (a read or write fails)
    EarlyFinish    \* TRUE: the application may leave input unread

ASSUME ReaderAssumption ==
    /\ {HeaderLen, BodyLen, PairLen, BuffLen} \subseteq Nat \ {0}
    /\ Wants \subseteq Nat \ {0} /\ MaxConns \in Nat
    /\ {MayCrash, MayFail, EarlyFinish} \subseteq BOOLEAN

VARIABLES
    link,          \* the connection, seen from the server's end
    in,            \* the input FCGX_Stream and its data
    req,           \* the fields of FCGX_Request that the reader uses
    pc,            \* where the program is
    params,        \* what ReadParams has collected for the request
    got,           \* history: what FCGX_GetStr returned of the current stream
    replies,       \* history: what the reader wrote on this connection
    misread,       \* history: a header was read from the wrong place
    served,        \* history: the requests accepted on this connection
    conns          \* connections accepted so far

vars == <<link, in, req, pc, params, got, replies, misread, served, conns>>

FCGX_PROTOCOL_ERROR == -3
FCGX_UNSUPPORTED_VERSION == -2
FCGX_PARAMS_ERROR == -4
FCGX_CALL_SEQ_ERROR == -5
OS_Errno == 4

Roles == {"responder", "authorizer", "filter"}

Smaller(a, b) == IF a <= b THEN a ELSE b
Drop(s, n) == SubSeq(s, n + 1, Len(s))

(***************************************************************************)
(* What the server sends.  A record is [type, id, q, content, pad], where  *)
(* q numbers the requests of a connection and is 0 for management records. *)
(***************************************************************************)

HeaderOf(rec) ==
    [i \in 1 .. HeaderLen |-> <<"hdr", rec.type, rec.id, Len(rec.content), rec.pad, i>>]

CellsOf(rec) == HeaderOf(rec) \o rec.content \o [i \in 1 .. rec.pad |-> <<"pad">>]

CellsOfBurst(b) ==
    LET upto[i \in 0 .. Len(b)] ==
          IF i = 0 THEN <<>> ELSE upto[i - 1] \o CellsOf(b[i])
    IN  upto[Len(b)]

(***************************************************************************)
(* The stream.  in.buf holds the bytes from stream->rdNext to              *)
(* data->buffStop; in.avail is stream->stop - stream->rdNext, the part     *)
(* that belongs to the client.                                             *)
(***************************************************************************)

NewReader(type) ==
    [buf |-> <<>>, avail |-> 0, isClosed |-> FALSE, FCGI_errno |-> 0,
     type |-> type, eorStop |-> FALSE, skip |-> FALSE,
     contentLen |-> 0, paddingLen |-> 0]

\* Seeded fault: end of file of the last stream stays.
BadSetReaderType(i, type) ==
    [i EXCEPT !.type = type, !.eorStop = FALSE, !.skip = FALSE,
              !.contentLen = 0, !.paddingLen = 0, !.avail = 0]

SetReaderType(i, type) ==
    [i EXCEPT !.type = type, !.eorStop = FALSE, !.skip = FALSE,
              !.contentLen = 0, !.paddingLen = 0, !.avail = 0, !.isClosed = FALSE]

SetError(i, errno) ==
    [i EXCEPT !.FCGI_errno = IF @ = 0 THEN errno ELSE @, !.isClosed = TRUE]

\* The client takes n of the bytes it has been given.
Take(i, n) == [i EXCEPT !.buf = Drop(@, n), !.avail = @ - n]

SkipContent(i) ==
    LET count == Smaller(i.contentLen, Len(i.buf))
    IN  [i EXCEPT !.buf = Drop(@, count), !.contentLen = @ - count,
                  !.skip = @ /\ i.contentLen > count]

SkipPadding(i) ==
    LET count == Smaller(i.paddingLen, Len(i.buf))
    IN  [i EXCEPT !.buf = Drop(@, count), !.paddingLen = @ - count]

\* ProcessHeader is done: out of the recursive mode, back in FillBuffProc.
Leave(i) == [i EXCEPT !.eorStop = FALSE, !.isClosed = FALSE]

(***************************************************************************)
(* Control.  pc.op is the call in progress; pc.fill: FillBuffProc is       *)
(* running for it, with pc.hdr the header bytes it has.  While it is in    *)
(* ProcessHeader, pc.nest is the content being read through the same       *)
(* stream, pc.have what was read of it, and pc.refill says whether the     *)
(* nested FillBuffProc is running.                                         *)
(***************************************************************************)

At(op) == [op |-> op, want |-> 0, fill |-> FALSE, hdr |-> <<>>,
           nest |-> "none", have |-> <<>>, refill |-> FALSE]

Filling == pc.refill \/ (pc.fill /\ pc.nest = "none")

HeaderRead == pc.fill /\ pc.nest = "none" /\ Len(pc.hdr) = HeaderLen

FillReturns == IF pc.nest = "none" THEN [pc EXCEPT !.fill = FALSE, !.hdr = <<>>]
                                   ELSE [pc EXCEPT !.refill = FALSE]

\* read(2) returns k bytes.
Read(k) ==
    /\ Filling /\ ~ HeaderRead
    /\ in.buf = <<>> /\ link.inp # <<>>
    /\ in' = [in EXCEPT !.buf = SubSeq(link.inp, 1, k)]
    /\ link' = [link EXCEPT !.inp = Drop(@, k)]
    /\ UNCHANGED <<req, pc, params, got, replies, misread, served, conns>>

\* Seeded fault: the end of the connection is taken for the end of the stream.
BadReadFails(errno) ==
    /\ Filling /\ ~ HeaderRead
    /\ in.buf = <<>>
    /\ \/ errno = FCGX_PROTOCOL_ERROR /\ link.inp = <<>> /\ link.eof
       \/ errno = OS_Errno /\ MayFail
    /\ link' = [link EXCEPT !.inp = <<>>, !.eof = TRUE]
    /\ in' = IF errno = OS_Errno THEN SetError(in, errno) ELSE [in EXCEPT !.isClosed = TRUE]
    /\ pc' = FillReturns
    /\ UNCHANGED <<req, params, got, replies, misread, served, conns>>

\* read(2) returns 0 after the server closed its end, or -1 when the
\* connection was reset, which loses what has not been read.
ReadFails(errno) ==
    /\ Filling /\ ~ HeaderRead
    /\ in.buf = <<>>
    /\ \/ errno = FCGX_PROTOCOL_ERROR /\ link.inp = <<>> /\ link.eof
       \/ errno = OS_Errno /\ MayFail
    /\ link' = [link EXCEPT !.inp = <<>>, !.eof = TRUE]
    /\ in' = SetError(in, errno)
    /\ pc' = FillReturns
    /\ UNCHANGED <<req, params, got, replies, misread, served, conns>>

\* One iteration of FillBuffProc, from a non-empty buffer up to the header.
FillBuffProc ==
    LET count == Smaller(in.contentLen, Len(in.buf))
        s == IF in.contentLen > 0 THEN SkipContent(in) ELSE in
        p == SkipPadding(s)
        n == Smaller(HeaderLen - Len(pc.hdr), Len(p.buf))
    IN  /\ Filling /\ ~ HeaderRead
        /\ in.buf # <<>>
        /\ UNCHANGED <<link, req, params, got, replies, misread, served, conns>>
        /\ \/ /\ in.contentLen > 0 /\ ~ in.skip              \* deliver content
              /\ in' = [in EXCEPT !.avail = count, !.contentLen = @ - count]
              /\ pc' = FillReturns
           \/ /\ in.contentLen > 0 => in.skip
              /\ s.contentLen > 0                             \* go on skipping
              /\ in' = s /\ UNCHANGED pc
           \/ /\ in.contentLen > 0 => in.skip
              /\ s.contentLen = 0 /\ p.paddingLen > 0         \* more padding
              /\ in' = p /\ UNCHANGED pc
           \/ /\ in.contentLen > 0 => in.skip
              /\ s.contentLen = 0 /\ p.paddingLen = 0
              /\ IF p.eorStop                                 \* end of record
                   THEN /\ in' = [p EXCEPT !.isClosed = TRUE]
                        /\ pc' = FillReturns
                   ELSE /\ in' = [p EXCEPT !.buf = Drop(@, n)]
                        /\ pc' = [pc EXCEPT !.hdr = @ \o SubSeq(p.buf, 1, n)]

(***************************************************************************)
(* ProcessHeader                                                           *)
(***************************************************************************)

\* The header bytes are those of one header, in order.  Otherwise the reader
\* has lost its place: what it takes for a header starts with a byte of
\* padding (zero, as servers send it), and is rejected for its version.
GoodHeader ==
    /\ pc.hdr[1][1] = "hdr"
    /\ \A i \in 1 .. HeaderLen :
          pc.hdr[i] = <<"hdr", pc.hdr[1][2], pc.hdr[1][3], pc.hdr[1][4], pc.hdr[1][5], i>>

Type == pc.hdr[1][2]
Id   == pc.hdr[1][3]
CLen == pc.hdr[1][4]
PLen == pc.hdr[1][5]

\* The stream once ProcessHeader has stored the two lengths.
Entered == [in EXCEPT !.contentLen = CLen, !.paddingLen = PLen]

\* FillBuffProc goes on with the next iteration.
Continue == [pc EXCEPT !.hdr = <<>>, !.nest = "none", !.have = <<>>]

\* FillBuffProc returns to its caller.
Return == [Continue EXCEPT !.fill = FALSE]

LostPlace ==
    /\ HeaderRead /\ ~ GoodHeader
    /\ in' = SetError(Leave(in), FCGX_UNSUPPORTED_VERSION)
    /\ pc' = Return
    /\ misread' = TRUE
    /\ UNCHANGED <<link, req, params, got, replies, served, conns>>

InHeader == HeaderRead /\ GoodHeader

\* ProcessBeginRecord and ProcessHeader reject a header.
ProtocolError ==
    /\ InHeader
    /\ \/ Type = "begin" /\ (Id = 0 \/ CLen # BodyLen)
       \/ Type # "begin" /\ Id # 0 /\ Id = req.requestId /\ Type # in.type
    /\ in' = SetError(Leave(Entered), FCGX_PROTOCOL_ERROR)
    /\ pc' = Return
    /\ UNCHANGED <<link, req, params, got, replies, misread, served, conns>>

\* A reply is written to the connection, or the write fails.
Reply(reply, i, next) ==
    /\ \/ /\ replies' = Append(replies, reply)
          /\ in' = i /\ pc' = next
          /\ UNCHANGED link
       \/ /\ MayFail
          /\ in' = SetError(Leave(Entered), OS_Errno) /\ pc' = Return
          /\ link' = [link EXCEPT !.inp = <<>>, !.eof = TRUE]
          /\ UNCHANGED replies
    /\ UNCHANGED <<req, params, got, misread, served, conns>>

\* ProcessBeginRecord while a request is being handled.
BeginWhileBusy ==
    /\ InHeader /\ Type = "begin" /\ Id # 0 /\ CLen = BodyLen
    /\ req.isBeginProcessed
    /\ Reply(<<"cant_mpx", Id>>, [Leave(Entered) EXCEPT !.skip = TRUE], Continue)

\* ProcessBeginRecord: go on to read the body.
BeginRequest ==
    /\ InHeader /\ Type = "begin" /\ Id # 0 /\ CLen = BodyLen
    /\ ~ req.isBeginProcessed
    /\ req' = [req EXCEPT !.requestId = Id]
    /\ in' = [Entered EXCEPT !.eorStop = TRUE]
    /\ pc' = [pc EXCEPT !.nest = "body"]
    /\ UNCHANGED <<link, params, got, replies, misread, served, conns>>

\* ProcessManagementRecord of FCGI_GET_VALUES: go on to read the names.
GetValues ==
    /\ InHeader /\ Type = "values" /\ Id = 0
    /\ in' = [Entered EXCEPT !.eorStop = TRUE]
    /\ pc' = [pc EXCEPT !.nest = "values"]
    /\ UNCHANGED <<link, req, params, got, replies, misread, served, conns>>

\* Seeded fault: unknown types are ignored.
BadUnknownManagement ==
    /\ InHeader /\ Type \notin {"begin", "values"} /\ Id = 0
    /\ in' = Leave(Entered) /\ pc' = Continue
    /\ UNCHANGED <<link, req, params, got, replies, misread, served, conns>>

\* ProcessManagementRecord of any other type: the content is not read.
UnknownManagement ==
    /\ InHeader /\ Type \notin {"begin", "values"} /\ Id = 0
    /\ Reply(<<"unknown", 0>>, Leave(Entered), Continue)

\* Seeded fault: the content of the record is not skipped.
BadSkipForeign ==
    /\ InHeader /\ Type # "begin" /\ Id # 0 /\ Id # req.requestId
    /\ in' = Leave(Entered)
    /\ pc' = Continue
    /\ UNCHANGED <<link, req, params, got, replies, misread, served, conns>>

\* A record of another request: ProcessHeader returns SKIP.
SkipForeign ==
    /\ InHeader /\ Type # "begin" /\ Id # 0 /\ Id # req.requestId
    /\ in' = [Leave(Entered) EXCEPT !.skip = TRUE]
    /\ pc' = Continue
    /\ UNCHANGED <<link, req, params, got, replies, misread, served, conns>>

\* A record of the stream being read: ProcessHeader returns STREAM_RECORD.
StreamRecord ==
    /\ InHeader /\ Type # "begin" /\ Id # 0 /\ Id = req.requestId /\ Type = in.type
    /\ in' = [Leave(Entered) EXCEPT !.isClosed = (CLen = 0)]
    /\ pc' = IF CLen = 0 THEN Return ELSE Continue
    /\ UNCHANGED <<link, req, params, got, replies, misread, served, conns>>

(***************************************************************************)
(* Content read inside ProcessHeader, through the stream itself            *)
(***************************************************************************)

\* FCGX_GetStr of the body takes no more than BodyLen bytes, ReadParams
\* whatever there is.
NestedTake ==
    LET n == IF pc.nest = "body" THEN Smaller(in.avail, BodyLen - Len(pc.have))
             ELSE in.avail
    IN  /\ pc.nest # "none" /\ ~ pc.refill
        /\ in.avail > 0
        /\ in' = Take(in, n)
        /\ pc' = [pc EXCEPT !.have = @ \o SubSeq(in.buf, 1, n)]
        /\ UNCHANGED <<link, req, params, got, replies, misread, served, conns>>

BodyRead == pc.nest = "body" /\ Len(pc.have) = BodyLen

NestedRefill ==
    /\ pc.nest # "none" /\ ~ pc.refill
    /\ in.avail = 0 /\ ~ in.isClosed /\ ~ BodyRead
    /\ pc' = [pc EXCEPT !.refill = TRUE]
    /\ UNCHANGED <<link, in, req, params, got, replies, misread, served, conns>>

BeginAccepted ==
    /\ BodyRead
    /\ req' = [req EXCEPT !.q = pc.have[1][2], !.role = pc.have[1][3],
                          !.keepConnection = pc.have[1][4], !.isBeginProcessed = TRUE]
    /\ in' = Leave(in)
    /\ pc' = Return
    /\ UNCHANGED <<link, params, got, replies, misread, served, conns>>

\* The end of the record, or an error, before the content was complete.
NestedFails ==
    /\ pc.nest # "none" /\ ~ pc.refill
    /\ in.avail = 0 /\ in.isClosed
    /\ \/ pc.nest = "body" /\ ~ BodyRead
       \/ /\ pc.nest = "values"
          /\ in.FCGI_errno # 0 \/ Len(pc.have) % PairLen # 0 \/ in.contentLen # 0
    /\ in' = SetError(Leave(in),
                 IF pc.nest = "values" /\ Len(pc.have) % PairLen # 0
                   THEN FCGX_PARAMS_ERROR ELSE FCGX_PROTOCOL_ERROR)
    /\ pc' = Return
    /\ UNCHANGED <<link, req, params, got, replies, misread, served, conns>>

\* The names are answered in response[64], which has room for each of the three
\* variables once; Connections has no record that names one of them again.
ValuesAnswered ==
    /\ pc.nest = "values" /\ ~ pc.refill
    /\ in.avail = 0 /\ in.isClosed
    /\ in.FCGI_errno = 0 /\ Len(pc.have) % PairLen = 0 /\ in.contentLen = 0
    /\ \/ /\ replies' = Append(replies, <<"values", 0>>)
          /\ in' = Leave(in) /\ pc' = Continue
          /\ UNCHANGED link
       \/ /\ MayFail
          /\ in' = SetError(Leave(in), OS_Errno) /\ pc' = Return
          /\ link' = [link EXCEPT !.inp = <<>>, !.eof = TRUE]
          /\ UNCHANGED replies
    /\ UNCHANGED <<req, params, got, misread, served, conns>>

(***************************************************************************)
(* FCGX_Accept_r                                                           *)
(***************************************************************************)

\* OS_Accept returns a connection on which the server sends c, possibly only
\* the first cut cells of its first burst before it closes its end.
OS_Accept(c) ==
    LET first == CellsOfBurst(c[1])
    IN  /\ pc.op = "accept" /\ ~ link.open
        /\ conns < MaxConns
        /\ \/ link' = [inp |-> first, later |-> Tail(c), sent |-> c[1],
                       eof |-> FALSE, open |-> TRUE]
           \/ /\ MayCrash
              /\ \E cut \in 0 .. Len(first) :
                    link' = [inp |-> SubSeq(first, 1, cut), later |-> <<>>,
                             sent |-> c[1], eof |-> TRUE, open |-> TRUE]
        /\ replies' = <<>> /\ served' = {}
        /\ conns' = conns + 1
        /\ UNCHANGED <<in, req, pc, params, got, misread>>

\* A connection is open: read from it until a request begins.
ReadBegin ==
    /\ pc.op = "accept" /\ link.open
    /\ req' = [req EXCEPT !.isBeginProcessed = FALSE]
    /\ in' = NewReader("none")
    /\ pc' = [At("begin") EXCEPT !.fill = TRUE]
    /\ UNCHANGED <<link, params, got, replies, misread, served, conns>>

\* FCGX_Free(reqDataPtr, 1): close the connection, go round the loop.
TryAgain ==
    /\ link' = [link EXCEPT !.open = FALSE]
    /\ pc' = At("accept")
    /\ UNCHANGED <<in, req, params, got, replies, misread, served, conns>>

\* Seeded fault: a role is missing from the switch.
BadBeginReturns ==
    /\ pc.op = "begin" /\ ~ pc.fill
    /\ IF req.isBeginProcessed /\ req.role \in {"responder", "filter"}
         THEN /\ in' = SetReaderType(in, "params")
              /\ pc' = At("params")
              /\ params' = <<>>
              /\ UNCHANGED <<link, req, got, replies, misread, served, conns>>
         ELSE TryAgain

\* FillBuffProc has returned: on to the parameters, if there is a request.
BeginReturns ==
    /\ pc.op = "begin" /\ ~ pc.fill
    /\ IF req.isBeginProcessed /\ req.role \in Roles
         THEN /\ in' = SetReaderType(in, "params")
              /\ pc' = At("params")
              /\ params' = <<>>
              /\ UNCHANGED <<link, req, got, replies, misread, served, conns>>
         ELSE TryAgain

\* ReadParams takes all it is given and asks for more until end of file.
ReadParams ==
    /\ pc.op = "params" /\ ~ pc.fill
    /\ UNCHANGED <<link, req, got, replies, misread, served, conns>>
    /\ \/ /\ in.avail > 0
          /\ params' = params \o SubSeq(in.buf, 1, in.avail)
          /\ in' = Take(in, in.avail)
          /\ UNCHANGED pc
       \/ /\ in.avail = 0 /\ ~ in.isClosed
          /\ pc' = [pc EXCEPT !.fill = TRUE]
          /\ UNCHANGED <<in, params>>

\* Seeded fault: the result 0 of ReadParams is taken for a failure.
BadParamsReturn ==
    /\ pc.op = "params" /\ ~ pc.fill
    /\ in.avail = 0 /\ in.isClosed
    /\ TryAgain

\* End of file, or an error, between two pairs ends ReadParams with 0; inside
\* a pair it is FCGX_PARAMS_ERROR.
ParamsReturn ==
    /\ pc.op = "params" /\ ~ pc.fill
    /\ in.avail = 0 /\ in.isClosed
    /\ IF Len(params) % PairLen = 0
         THEN /\ in' = SetReaderType(in, "stdin")
              /\ pc' = At("ready")
              /\ got' = <<>>
              /\ served' = served \cup {req.q}
              /\ UNCHANGED <<link, req, params, replies, misread, conns>>
         ELSE TryAgain

(***************************************************************************)
(* The application                                                         *)
(***************************************************************************)

\* FCGX_GetStr for n bytes, and one round of its loop.
GetStr(n) ==
    /\ pc.op = "ready" /\ ~ in.isClosed
    /\ pc' = [At("get") EXCEPT !.want = n]
    /\ UNCHANGED <<link, in, req, params, got, replies, misread, served, conns>>

GetStrLoop ==
    LET m == Smaller(pc.want, in.avail)
    IN  /\ pc.op = "get" /\ ~ pc.fill
        /\ got' = got \o SubSeq(in.buf, 1, m)
        /\ in' = Take(in, m)
        /\ pc' = IF m = pc.want \/ in.isClosed THEN At("ready")
                 ELSE [pc EXCEPT !.want = @ - m, !.fill = TRUE]
        /\ UNCHANGED <<link, req, params, replies, misread, served, conns>>

\* The preconditions of FCGX_StartFilterData; a call without them only sets
\* the error code FCGX_CALL_SEQ_ERROR, and with it isClosed, which is one of
\* the preconditions of the next call.
StartFilterData ==
    /\ pc.op = "ready"
    /\ req.role = "filter"
    /\ IF in.isClosed /\ in.type = "stdin"
         THEN in' = SetReaderType(in, "data") /\ got' = <<>>
         ELSE in' = SetError(in, FCGX_CALL_SEQ_ERROR) /\ UNCHANGED got
    /\ UNCHANGED <<link, req, pc, params, replies, misread, served, conns>>

\* The application has read the streams of its role to the end, or failed to.
InputRead ==
    \/ req.role = "authorizer" \/ in.FCGI_errno # 0
    \/ in.isClosed /\ (req.role = "filter" => in.type = "data")

\* FCGX_Finish_r at the head of the next FCGX_Accept_r: the reader is freed
\* with what it holds.  If the connection is kept the server goes on.  The
\* FCGX_FClose of a writer may fail (broken).
Finish(broken) ==
    LET close == ~ req.keepConnection \/ broken \/ in.FCGI_errno # 0
    IN  /\ pc.op = "ready"
        /\ broken => MayFail
        /\ EarlyFinish \/ InputRead
        /\ link' = IF close THEN [link EXCEPT !.open = FALSE]
                   ELSE IF link.later = <<>> THEN link
                   ELSE [link EXCEPT !.inp = @ \o CellsOfBurst(Head(link.later)),
                                     !.later = Tail(@), !.sent = @ \o Head(link.later)]
        /\ pc' = At("accept")
        /\ UNCHANGED <<in, req, params, got, replies, misread, served, conns>>

Init ==
    /\ link = [inp |-> <<>>, later |-> <<>>, sent |-> <<>>, eof |-> FALSE, open |-> FALSE]
    /\ in = NewReader("none")
    /\ req = [requestId |-> 0, isBeginProcessed |-> FALSE, role |-> "none",
              keepConnection |-> FALSE, q |-> 0]
    /\ pc = At("accept")
    /\ params = <<>> /\ got = <<>> /\ replies = <<>>
    /\ misread = FALSE /\ served = {}
    /\ conns = 0

ProcessHeader ==
    \/ LostPlace \/ ProtocolError \/ BeginWhileBusy \/ BeginRequest
    \/ GetValues \/ UnknownManagement \/ SkipForeign \/ StreamRecord

Nested ==
    NestedTake \/ NestedRefill \/ BeginAccepted \/ NestedFails \/ ValuesAnswered

Input ==
    \/ \E k \in 1 .. Smaller(BuffLen, Len(link.inp)) : Read(k)
    \/ \E errno \in {FCGX_PROTOCOL_ERROR, OS_Errno} : ReadFails(errno)
    \/ FillBuffProc

Accept_r == ReadBegin \/ BeginReturns \/ ReadParams \/ ParamsReturn

Application ==
    \/ \E n \in Wants : GetStr(n)
    \/ GetStrLoop \/ StartFilterData
    \/ \E broken \in BOOLEAN : Finish(broken)

Next ==
    \/ Input \/ ProcessHeader \/ Nested \/ Accept_r \/ Application
    \/ \E c \in Connections : OS_Accept(c)

Spec == Init /\ [][Next]_vars

\* The program does not stop where it could go on: it is blocked only in
\* read(2) and in OS_Accept.
FairSpec == Spec /\ WF_vars(Next)

(***************************************************************************)
(* Properties                                                              *)
(***************************************************************************)

(***************************************************************************)
(* Type correctness.  What FillBuffProc delivers (stream->stop) never runs *)
(* past what it has read (data->buffStop), the lengths it counts down stay *)
(* non-negative, and content is only read inside ProcessHeader while       *)
(* eorStop guards the end of the record.                                   *)
(***************************************************************************)
TypeOK ==
    /\ link.eof \in BOOLEAN /\ link.open \in BOOLEAN
    /\ Len(in.buf) <= BuffLen
    /\ in.avail \in 0 .. Len(in.buf)
    /\ in.contentLen \in Nat /\ in.paddingLen \in Nat
    /\ in.FCGI_errno \in {0, FCGX_PROTOCOL_ERROR, FCGX_UNSUPPORTED_VERSION,
                           FCGX_PARAMS_ERROR, FCGX_CALL_SEQ_ERROR, OS_Errno}
    /\ in.type \in {"none", "params", "stdin", "data"}
    /\ {in.isClosed, in.eorStop, in.skip, misread, pc.fill, pc.refill} \subseteq BOOLEAN
    /\ req.requestId \in Nat /\ req.isBeginProcessed \in BOOLEAN
    /\ pc.op \in {"accept", "begin", "params", "ready", "get"}
    /\ pc.nest \in {"none", "body", "values"}
    /\ Len(pc.hdr) <= HeaderLen /\ pc.want \in Nat
    /\ pc.refill => pc.nest # "none"
    /\ pc.nest # "none" => pc.fill /\ in.eorStop

IsPrefixOf(s, t) == Len(s) <= Len(t) /\ SubSeq(t, 1, Len(s)) = s

\* The content the server sent on a stream of the request numbered q.
ContentOf(type, q) ==
    LET upto[i \in 0 .. Len(link.sent)] ==
          IF i = 0 THEN <<>>
          ELSE upto[i - 1] \o (IF link.sent[i].type = type /\ link.sent[i].q = q
                                 THEN link.sent[i].content ELSE <<>>)
    IN  upto[Len(link.sent)]

InRequest == pc.op \in {"ready", "get"}

(***************************************************************************)
(* "Finished reading the environment.  No errors occurred" (FCGX_Accept_r): *)
(* a request is returned only with all of its parameters (violated when    *)
(* the connection ends between two pairs, which ReadParams takes for the   *)
(* end of the stream).                                                     *)
(***************************************************************************)
AllParams == InRequest => params = ContentOf("params", req.q)

(***************************************************************************)
(* The parameters and the input a request sees are its own, in order and   *)
(* without a gap, however the bytes arrive and whatever records of other   *)
(* requests and management records come in between.  A request has all  *)
(* of its parameters unless the connection failed, and end of file without *)
(* an error means that all of the stream was read.                         *)
(***************************************************************************)
OwnInputInOrder ==
    /\ pc.op = "params" => IsPrefixOf(params, ContentOf("params", req.q))
    /\ InRequest => /\ in.FCGI_errno \in {0, FCGX_CALL_SEQ_ERROR} => AllParams
                    /\ IsPrefixOf(got, ContentOf(in.type, req.q))
    /\ pc.op = "ready" /\ in.isClosed /\ in.FCGI_errno = 0 => got = ContentOf(in.type, req.q)

(***************************************************************************)
(* A filter that finds no error on its stream has not skipped input: it    *)
(* got to FCGI_DATA from the end of FCGI_STDIN, having read all of it,     *)
(* although the flag that FCGX_StartFilterData tests is also set by a      *)
(* connection that fails, an abort and a misplaced call of its own.  What  *)
(* it gets through after one of these is marked by the error code.         *)
(***************************************************************************)
DataAfterStdin ==
    [][in.type = "stdin" /\ in'.type = "data" /\ in'.FCGI_errno = 0
         => got = ContentOf("stdin", req.q)]_vars

(***************************************************************************)
(* "stream is positioned at EOF on FCGI_STDIN.  [...]  If the              *)
(* preconditions are not met (e.g. FCGI_STDIN has not been read to EOF)    *)
(* sets the stream error code to FCGX_CALL_SEQ_ERROR"                      *)
(* (FCGX_StartFilterData): every call with stdin unread fails.             *)
(***************************************************************************)
FilterNeedsEof ==
    [][in.type = "stdin" /\ in'.type = "data" => got = ContentOf("stdin", req.q)]_vars

\* The program is waiting for the server to send more.
Blocked ==
    Filling /\ ~ HeaderRead /\ in.buf = <<>> /\ link.inp = <<>> /\ ~ link.eof

\* What must be answered at once, whatever the application does.
Expected ==
    LET answer(r) ==
          IF r.type = "begin" /\ r.q > 100 THEN <<<<"cant_mpx", r.id>>>>
          ELSE IF r.type = "values" THEN <<<<"values", 0>>>>
          ELSE IF r.type = "mgmt" THEN <<<<"unknown", 0>>>>
          ELSE <<>>
        upto[i \in 0 .. Len(link.sent)] ==
          IF i = 0 THEN <<>> ELSE upto[i - 1] \o answer(link.sent[i])
    IN  upto[Len(link.sent)]

(***************************************************************************)
(* Management records and attempts to multiplex are answered in the order  *)
(* they were sent and once each, and none is left unanswered when the      *)
(* program blocks: a server that waits for the answer is not waited for.   *)
(***************************************************************************)
Answers ==
    link.open /\ pc.op # "accept" =>
      /\ IsPrefixOf(replies, Expected)
      /\ Blocked => replies = Expected

\* An error has a cause outside of the library.
Excused ==
    \/ link.eof \/ MayFail
    \/ \E i \in 1 .. Len(link.sent) : link.sent[i].type = "abort" /\ link.sent[i].q = req.q

(***************************************************************************)
(* Records that the protocol allows do not make the library drop a         *)
(* connection: an error has a cause outside of it (the server closed the   *)
(* connection or aborted the request, a system call failed) or comes from  *)
(* a misplaced FCGX_StartFilterData, and FCGX_Accept_r gives a connection  *)
(* up (TryAgain) only for such a cause or for a role it does not know.  It *)
(* takes content or padding for a header only where FCGX_StartFilterData   *)
(* has left FCGI_STDIN before its end.                                     *)
(***************************************************************************)
NoFalseError ==
    /\ [][~ misread /\ misread' => in.FCGI_errno = FCGX_CALL_SEQ_ERROR]_vars
    /\ [](pc.op # "accept" => in.FCGI_errno \in {0, FCGX_CALL_SEQ_ERROR} \/ Excused)
    /\ [][link.open /\ ~ link'.open /\ pc.op \in {"begin", "params"}
             => Excused \/ req.role \notin Roles]_vars

Requested(q) ==
    link.open /\ \E i \in 1 .. Len(link.sent) : link.sent[i].q = q

(***************************************************************************)
(* Every request that a server has sent is returned by FCGX_Accept_r in    *)
(* the end, also the second one on a connection that is kept.              *)
(***************************************************************************)
EveryRequestServed == \A q \in 1 .. 2 : Requested(q) ~> (q \in served)
=============================================================================
