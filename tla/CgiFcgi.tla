------------------------------ MODULE CgiFcgi -------------------------------
(***************************************************************************)
(* The event loop of cgi-fcgi/cgi-fcgi.c: a CGI program that relays its    *)
(* standard input to a FastCGI application and the application's output    *)
(* to its standard output and error, and exits with the application's      *)
(* status.  It is driven by the asynchronous I/O of AsyncIo.  Init is the  *)
(* state in which main enters the loop: FCGI_BEGIN_REQUEST and the         *)
(* environment have been sent.                                             *)
(*                                                                         *)
(* A header is HeaderLen cells and an FCGI_EndRequestBody BodyLen cells; a *)
(* cell says which byte of which header, body or stream it is.             *)
(***************************************************************************)
EXTENDS AsyncIo, Sequences

CONSTANTS
    HeaderLen,     \* cells of a header: version, type, request id, lengths
    BodyLen,       \* cells of an end-request body: appStatus, protocolStatus
    BuffLen,       \* BUFFLEN
    Lengths,       \* values of CONTENT_LENGTH
    StdinLens,     \* how much the Web server sends before it closes its end
    Answers,       \* what the application may send: sequences of cells
    CutRecords,    \* TRUE: a read may end inside a header or a body
    MayDie,        \* TRUE: the application may die
    IgnoresInput   \* TRUE: the application may answer before the end of stdin

ASSUME CgiAssumption ==
    /\ HeaderLen = 4 /\ BodyLen = 3 /\ BuffLen \in Nat /\ BuffLen > HeaderLen
    /\ Lengths \subseteq Nat /\ StdinLens \subseteq Nat
    /\ {CutRecords, MayDie, IgnoresInput} \subseteq BOOLEAN

VARIABLES
    aio,           \* the state of the asynchronous I/O
    cgi,           \* the variables of cgi-fcgi.c
    pc,            \* "loop", "dispatch" (in OS_DoIo), "read" (in
                   \* AppServerReadHandler), "exited"
    from,          \* the loop of OS_DoIo has reached this index
    web,           \* the Web server: stdin left to read, what it received
                   \* on stdout and stderr, and all of stdin
    app,           \* the application: its answer, what is left of it to
                   \* read, what it received, and whether it closed or died
    code           \* how the program exited

vars == <<aio, cgi, pc, from, web, app, code>>

Stdin == 0
Sock == 3
requestId == 1

\* The errno of a call that failed.
OS_Errno(call) == <<"errno", call>>
FCGX_PROTOCOL_ERROR == <<"protocol error">>
FCGX_UNSUPPORTED_VERSION == <<"unsupported version">>

Smaller(x, y) == IF x <= y THEN x ELSE y
Drop(s, n) == SubSeq(s, n + 1, Len(s))

\* The cells of a header are version, type, requestId and the two lengths.
MakeHeader(type, id, clen, plen) ==
    [i \in 1 .. HeaderLen |-> <<"hdr", i, type, id, clen, plen>>]

\* The cells of a body are two bytes of appStatus and protocolStatus.
EndRequestBody(high, low, protocolStatus) ==
    << <<"body", 1, high>>, <<"body", 2, low>>, <<"body", 3, protocolStatus>> >>

\* Static variables are zero.
NoHeader == [i \in 1 .. HeaderLen |-> <<"hdr", i, "none", 0, 0, 0>>]

Is(cell, kind) == cell[1] = kind

\* The cells of this kind, in order.
Only(s, kind) ==
    LET upTo[n \in 0 .. Len(s)] ==
          IF n = 0 THEN <<>>
          ELSE IF Is(s[n], kind) THEN Append(upTo[n - 1], s[n]) ELSE upTo[n - 1]
    IN  upTo[Len(s)]

(***************************************************************************)
(* b = [c, a]: the variables of the program and of the asynchronous I/O.   *)
(* c.fromWS holds the bytes from fromWS.next to fromWS.stop; c.next is     *)
(* fromWS.next - fromWS.buff.                                              *)
(***************************************************************************)

\* Seeded fault: the record is only marked as sent.
BadWriteStdinEof(c) == [c EXCEPT !.stdin_eof_sent = TRUE]

WriteStdinEof(c) ==
    IF c.stdin_eof_sent THEN c
    ELSE [c EXCEPT !.fromWS = @ \o MakeHeader("stdin", requestId, 0, 0),
                   !.stdin_eof_sent = TRUE]

ScheduleWrite(b) ==
    IF b.c.fcgiWritePending \/ b.c.fromWS = <<>> THEN b
    ELSE [c |-> [b.c EXCEPT !.fcgiWritePending = TRUE], a |-> OS_AsyncWrite(b.a, Sock)]

ScheduleRead(b) ==
    IF b.c.fcgiReadPending THEN b
    ELSE [c |-> [b.c EXCEPT !.fcgiReadPending = TRUE], a |-> OS_AsyncRead(b.a, Sock)]

\* Seeded fault: stdin is read while the buffer is being written.
BadScheduleStdin(b) ==
    IF b.c.bytesToRead > 0 /\ ~ b.c.webServerReadHandlerEOF /\ ~ b.c.wsReadPending
         /\ b.c.next = 0
      THEN [c |-> [b.c EXCEPT !.wsReadPending = TRUE], a |-> OS_AsyncRead(b.a, Stdin)]
      ELSE b

ScheduleStdin(b) ==
    IF b.c.bytesToRead > 0 /\ ~ b.c.webServerReadHandlerEOF /\ ~ b.c.wsReadPending
         /\ ~ b.c.fcgiWritePending /\ b.c.next = 0
      THEN [c |-> [b.c EXCEPT !.wsReadPending = TRUE], a |-> OS_AsyncRead(b.a, Stdin)]
      ELSE b

ScheduleIo(b) == ScheduleStdin(ScheduleRead(ScheduleWrite(b)))

Become(b) == cgi' = b.c /\ aio' = b.a

Exit(how) == code' = how /\ pc' = "exited" /\ UNCHANGED <<aio, cgi>>

(***************************************************************************)
(* OS_DoIo                                                                 *)
(***************************************************************************)

\* What the application has sent: its output at any time, the end of the
\* request once it has read the end of stdin.
AppGotEof ==
    LET n == Len(app.got)
    IN  n >= HeaderLen /\ SubSeq(app.got, n - HeaderLen + 1, n) = MakeHeader("stdin", requestId, 0, 0)

Ends(cell) == Is(cell, "hdr") /\ cell[3] = "end"

Arrived ==
    IF app.closed \/ AppGotEof \/ IgnoresInput THEN app.sends
    ELSE LET early == {n \in 0 .. Len(app.sends) : \A i \in 1 .. n : ~ Ends(app.sends[i])}
         IN  SubSeq(app.sends, 1, CHOOSE n \in early : \A k \in early : k <= n)

\* A read may end here: not inside a header or a body, unless CutRecords.
Whole(s) == s # <<>> /\ ~ CutRecords => (s[1][1] \in {"hdr", "body"} => s[1][2] = 1)

Readable == {Stdin} \cup {fd \in {Sock} : Arrived # <<>> \/ app.closed}

\* select(2) returns.  What the other ends sent may still be on its way, and
\* the connection may take more or not.
Select(R, W) ==
    LET rd == SelectReads(aio, R)
        wr == SelectWrites(aio, W)
    IN  /\ pc = "loop" /\ ~ cgi.exitStatusSet
        /\ NothingPosted(aio)
        /\ R \subseteq Readable /\ W \subseteq {Sock}
        /\ rd \cup wr # {}
        /\ aio' = Posted(aio, rd, wr)
        /\ pc' = "dispatch" /\ from' = 0
        /\ UNCHANGED <<cgi, web, app, code>>

\* select(2) fails, for instance with EINTR, and OS_DoIo exits.
SelectFails ==
    /\ pc = "loop" /\ ~ cgi.exitStatusSet
    /\ NothingPosted(aio)
    /\ Exit(OS_Errno("select"))
    /\ UNCHANGED <<from, web, app>>

AtEvent(ix) == pc = "dispatch" /\ Events(aio, from) # {} /\ First(Events(aio, from)) = ix

DoIoReturns ==
    /\ pc = "dispatch" /\ Events(aio, from) = {}
    /\ pc' = "loop"
    /\ UNCHANGED <<aio, cgi, from, web, app, code>>

\* The loop of main ends.
MainReturns ==
    /\ pc = "loop" /\ cgi.exitStatusSet
    /\ Exit(<<"status", cgi.exitStatus>>)
    /\ UNCHANGED <<from, web, app>>

(***************************************************************************)
(* The handlers                                                            *)
(***************************************************************************)

\* n bytes were read from stdin, 0 at its end.
WebServerReadHandler(n) ==
    LET c == [cgi EXCEPT !.wsReadPending = FALSE, !.bytesToRead = @ - n,
                         !.fromWS = MakeHeader("stdin", requestId, n, 0) \o SubSeq(web.stdin, 1, n),
                         !.webServerReadHandlerEOF = (n = 0)]
        d == IF c.bytesToRead <= 0 THEN WriteStdinEof(c) ELSE c
    IN  /\ AtEvent(AIO_RD_IX(Stdin))
        /\ n = 0 => web.stdin = <<>>
        /\ web' = [web EXCEPT !.stdin = Drop(@, n)]
        /\ Become(ScheduleIo([c |-> d, a |-> Completed(aio, AIO_RD_IX(Stdin))]))
        /\ from' = AIO_RD_IX(Stdin) + 1
        /\ UNCHANGED <<pc, app, code>>

\* Seeded fault: a write is taken to be complete.
BadAppServerWriteHandler(n) ==
    LET c == [cgi EXCEPT !.fcgiWritePending = FALSE, !.fromWS = <<>>, !.next = 0]
    IN  /\ AtEvent(AIO_WR_IX(Sock))
        /\ ~ app.closed
        /\ app' = [app EXCEPT !.got = @ \o SubSeq(cgi.fromWS, 1, n)]
        /\ Become(ScheduleIo([c |-> c, a |-> Completed(aio, AIO_WR_IX(Sock))]))
        /\ from' = AIO_WR_IX(Sock) + 1
        /\ UNCHANGED <<pc, web, code>>

\* n bytes were written to the application.
AppServerWriteHandler(n) ==
    LET whole == n = Len(cgi.fromWS)
        c == [cgi EXCEPT !.fcgiWritePending = FALSE, !.fromWS = Drop(@, n),
                         !.next = IF whole THEN 0 ELSE @ + n]
    IN  /\ AtEvent(AIO_WR_IX(Sock))
        /\ ~ app.closed
        /\ app' = [app EXCEPT !.got = @ \o SubSeq(cgi.fromWS, 1, n)]
        /\ Become(ScheduleIo([c |-> c, a |-> Completed(aio, AIO_WR_IX(Sock))]))
        /\ from' = AIO_WR_IX(Sock) + 1
        /\ UNCHANGED <<pc, web, code>>

\* write(2) fails with EPIPE.
WriteFails ==
    /\ AtEvent(AIO_WR_IX(Sock))
    /\ app.closed
    /\ Exit(OS_Errno("EPIPE"))
    /\ UNCHANGED <<from, web, app>>

\* read(2) of stdin fails: bytesRead < 0.
StdinFails ==
    /\ AtEvent(AIO_RD_IX(Stdin))
    /\ Exit(OS_Errno("stdin"))
    /\ UNCHANGED <<from, web, app>>

\* read(2) of the connection fails: count < 0 in AppServerReadHandler.
ConnectionFails ==
    /\ AtEvent(AIO_RD_IX(Sock))
    /\ Exit(OS_Errno("connection"))
    /\ UNCHANGED <<from, web, app>>

\* AppServerReadHandler is called with the n bytes that were read ...
AppServerReadHandler(n) ==
    /\ AtEvent(AIO_RD_IX(Sock))
    /\ n <= Len(Arrived) /\ Whole(Drop(app.sends, n))
    /\ cgi' = [cgi EXCEPT !.fcgiReadPending = FALSE, !.fromAS = SubSeq(app.sends, 1, n)]
    /\ aio' = Completed(aio, AIO_RD_IX(Sock))
    /\ app' = [app EXCEPT !.sends = Drop(@, n)]
    /\ from' = AIO_RD_IX(Sock) + 1
    /\ pc' = "read"
    /\ UNCHANGED <<web, code>>

\* ... or at end of file, where it exits.
AppServerEof ==
    /\ AtEvent(AIO_RD_IX(Sock))
    /\ app.sends = <<>> /\ app.closed
    /\ Exit(IF cgi.headerLen > 0 \/ cgi.paddingLen > 0 THEN FCGX_PROTOCOL_ERROR
            ELSE IF cgi.exitStatusSet THEN <<"status", cgi.exitStatus>>
            ELSE FCGX_PROTOCOL_ERROR)
    /\ UNCHANGED <<from, web, app>>

(***************************************************************************)
(* The loop of AppServerReadHandler, one iteration at a time.  memcpy is   *)
(* given &header + headerLen and &erBody + sizeof(erBody) - contentLen,    *)
(* which count in structures: only a part that is read first lands in      *)
(* header or erBody, the others land behind it.  What they overwrite there *)
(* is not modelled.                                                        *)
(***************************************************************************)

\* GetPtr gets at most n bytes of fromAS.
GetPtr(n) == Smaller(n, Len(cgi.fromAS))

\* The n bytes got replace the first ones of s.
Overlay(s, n) == [i \in 1 .. Len(s) |-> IF i <= n THEN cgi.fromAS[i] ELSE s[i]]

ReadHeader ==
    LET n == GetPtr(HeaderLen - cgi.headerLen)
        h == IF cgi.headerLen = 0 THEN Overlay(cgi.header, n) ELSE cgi.header
        c == [cgi EXCEPT !.header = h, !.headerLen = @ + n, !.fromAS = Drop(@, n)]
    IN  /\ pc = "read" /\ cgi.fromAS # <<>> /\ cgi.headerLen < HeaderLen
        /\ IF c.headerLen < HeaderLen
             THEN cgi' = c /\ UNCHANGED <<aio, pc, code>>
           ELSE IF h[1][1] # "hdr" \/ h[1][2] # 1
             THEN Exit(FCGX_UNSUPPORTED_VERSION)
           ELSE IF h[3][4] # requestId
             THEN Exit(FCGX_PROTOCOL_ERROR)
           ELSE cgi' = [c EXCEPT !.contentLen = h[4][5], !.paddingLen = h[4][6]]
                /\ UNCHANGED <<aio, pc, code>>
        /\ UNCHANGED <<from, web, app>>

InRecord(types) ==
    pc = "read" /\ cgi.fromAS # <<>> /\ cgi.headerLen = HeaderLen /\ cgi.header[2][3] \in types

\* The content was read; the padding is skipped and the header discarded.
EndOfContent(c) ==
    LET n == Smaller(c.paddingLen, Len(c.fromAS))
    IN  IF c.contentLen # 0 THEN c
        ELSE [c EXCEPT !.paddingLen = @ - n, !.fromAS = Drop(@, n),
                       !.headerLen = IF c.paddingLen = n THEN 0 ELSE @]

\* Seeded fault: contentLen is not decremented.
BadReadOutput ==
    LET n == GetPtr(cgi.contentLen)
        got == SubSeq(cgi.fromAS, 1, n)
    IN  /\ InRecord({"stdout", "stderr"})
        /\ cgi' = EndOfContent([cgi EXCEPT !.fromAS = Drop(@, n)])
        /\ web' = IF cgi.header[2][3] = "stdout" THEN [web EXCEPT !.out = @ \o got]
                  ELSE [web EXCEPT !.err = @ \o got]
        /\ UNCHANGED <<aio, pc, from, app, code>>

ReadOutput ==
    LET n == GetPtr(cgi.contentLen)
        got == SubSeq(cgi.fromAS, 1, n)
    IN  /\ InRecord({"stdout", "stderr"})
        /\ cgi' = EndOfContent([cgi EXCEPT !.contentLen = @ - n, !.fromAS = Drop(@, n)])
        /\ web' = IF cgi.header[2][3] = "stdout" THEN [web EXCEPT !.out = @ \o got]
                  ELSE [web EXCEPT !.err = @ \o got]
        /\ UNCHANGED <<aio, pc, from, app, code>>

\* OS_Write fails, as when the Web server has left.
OutputFails ==
    /\ InRecord({"stdout", "stderr"}) /\ cgi.contentLen > 0
    /\ Exit(OS_Errno("output"))
    /\ UNCHANGED <<from, web, app>>

\* Seeded fault: protocolStatus is not looked at.
BadReadEndRequest ==
    LET n == GetPtr(cgi.contentLen)
        body == IF cgi.contentLen = BodyLen THEN Overlay(cgi.erBody, n) ELSE cgi.erBody
        c == [cgi EXCEPT !.erBody = body, !.contentLen = @ - n, !.fromAS = Drop(@, n)]
        complete == [c EXCEPT !.readingEndRequestBody = FALSE, !.exitStatusSet = TRUE,
                              !.exitStatus = 256 * body[1][3] + body[2][3]]
    IN  /\ InRecord({"end"})
        /\ cgi' = EndOfContent(IF c.contentLen = 0 THEN complete
                               ELSE [c EXCEPT !.readingEndRequestBody = TRUE])
        /\ UNCHANGED <<aio, pc, from, web, app, code>>

ReadEndRequest ==
    LET n == GetPtr(cgi.contentLen)
        body == IF cgi.contentLen = BodyLen THEN Overlay(cgi.erBody, n) ELSE cgi.erBody
        c == [cgi EXCEPT !.erBody = body, !.contentLen = @ - n, !.fromAS = Drop(@, n)]
        complete == [c EXCEPT !.readingEndRequestBody = FALSE, !.exitStatusSet = TRUE,
                              !.exitStatus = 256 * body[1][3] + body[2][3]]
    IN  /\ InRecord({"end"})
        /\ IF ~ cgi.readingEndRequestBody /\ cgi.contentLen # BodyLen
             THEN Exit(FCGX_PROTOCOL_ERROR)
           ELSE IF c.contentLen > 0
             THEN cgi' = [c EXCEPT !.readingEndRequestBody = TRUE] /\ UNCHANGED <<aio, pc, code>>
           ELSE IF body[3][3] # 0
             THEN Exit(FCGX_PROTOCOL_ERROR)
           ELSE cgi' = EndOfContent(complete) /\ UNCHANGED <<aio, pc, code>>
        /\ UNCHANGED <<from, web, app>>

\* FCGI_GET_VALUES_RESULT, FCGI_UNKNOWN_TYPE and the others.
ReadOther ==
    /\ InRecord({"other", "none"})
    /\ Exit(FCGX_PROTOCOL_ERROR)
    /\ UNCHANGED <<from, web, app>>

AppServerReadHandlerReturns ==
    /\ pc = "read" /\ cgi.fromAS = <<>>
    /\ Become(ScheduleIo([c |-> cgi, a |-> aio]))
    /\ pc' = "dispatch"
    /\ UNCHANGED <<from, web, app, code>>

(***************************************************************************)
(* The application                                                         *)
(***************************************************************************)

\* It closes the connection when it is done.
AppCloses ==
    /\ ~ app.closed /\ (AppGotEof \/ IgnoresInput)
    /\ app' = [app EXCEPT !.closed = TRUE]
    /\ UNCHANGED <<aio, cgi, pc, from, web, code>>

\* It dies and the rest of the answer is never sent.
AppDies ==
    /\ MayDie /\ ~ app.closed
    /\ \E n \in 0 .. Len(app.sends) :
         app' = [app EXCEPT !.sends = SubSeq(@, 1, n), !.closed = TRUE, !.died = TRUE]
    /\ UNCHANGED <<aio, cgi, pc, from, web, code>>

(***************************************************************************)
(* The specification                                                       *)
(***************************************************************************)

Inputs == {[i \in 1 .. n |-> <<"in", i>>] : n \in StdinLens}

\* The variables of the program when main has sent the environment.
Started(length) ==
    [bytesToRead |-> length, fromWS |-> <<>>, next |-> 0, fromAS |-> <<>>,
     header |-> NoHeader, headerLen |-> 0, contentLen |-> 0, paddingLen |-> 0,
     erBody |-> EndRequestBody(0, 0, 0), readingEndRequestBody |-> FALSE,
     exitStatus |-> 0, exitStatusSet |-> FALSE, webServerReadHandlerEOF |-> FALSE,
     stdin_eof_sent |-> FALSE, wsReadPending |-> FALSE, fcgiReadPending |-> FALSE,
     fcgiWritePending |-> FALSE]

Init ==
    /\ \E length \in Lengths :
         LET c == Started(length)
             b == ScheduleIo([c |-> IF length <= 0 THEN WriteStdinEof(c) ELSE c, a |-> OS_LibInit])
         IN  cgi = b.c /\ aio = b.a
    /\ pc = "loop" /\ from = 0 /\ code = <<"running">>
    /\ \E s \in Inputs : web = [stdin |-> s, out |-> <<>>, err |-> <<>>, all |-> s]
    /\ \E s \in Answers :
         app = [answer |-> s, sends |-> s, got |-> <<>>, closed |-> FALSE, died |-> FALSE]

Loop ==
    \/ \E R \in SUBSET {Stdin, Sock}, W \in SUBSET {Sock} : Select(R, W)
    \/ \E n \in 0 .. Smaller(BuffLen - HeaderLen, Len(web.stdin)) : WebServerReadHandler(n)
    \/ \E n \in 1 .. Len(cgi.fromWS) : AppServerWriteHandler(n)
    \/ WriteFails
    \/ \E n \in 1 .. Smaller(BuffLen, Len(app.sends)) : AppServerReadHandler(n)
    \/ AppServerEof
    \/ ReadHeader \/ ReadOutput \/ ReadEndRequest \/ ReadOther
    \/ AppServerReadHandlerReturns
    \/ DoIoReturns \/ MainReturns

\* System calls that may fail at any time.
Failure == SelectFails \/ StdinFails \/ ConnectionFails \/ OutputFails

Next == Loop \/ Failure \/ AppCloses \/ AppDies

Spec == Init /\ [][Next]_vars

\* The program takes its steps.  No call has to fail.
FairSpec == Spec /\ WF_vars(Loop)

(***************************************************************************)
(* Properties                                                              *)
(***************************************************************************)

(***************************************************************************)
(* The three pending marks of ScheduleIo are the table of the asynchronous *)
(* I/O, whenever no handler runs: a started operation is never started     *)
(* again (ASSERT(inUse == 0)), fromWS is written as long as it holds       *)
(* something, and stdin is read into it only when it is empty and from its *)
(* start (the asserts of WebServerReadHandler and AppServerWriteHandler).  *)
(***************************************************************************)
PendingMatchesTable ==
    pc \in {"loop", "dispatch"} =>
      /\ cgi.fcgiReadPending /\ aio.rdUse \ {Stdin} = {Sock}
      /\ cgi.wsReadPending <=> Stdin \in aio.rdUse
      /\ cgi.fcgiWritePending <=> Sock \in aio.wrUse
      /\ cgi.fcgiWritePending <=> cgi.fromWS # <<>>
      /\ cgi.wsReadPending => cgi.fromWS = <<>> /\ cgi.next = 0

\* What has been or will be written to the application.
Relayed == app.got \o cgi.fromWS

\* Where a record of r begins, and where the one at i ends.
Starts(r) == {i \in 1 .. Len(r) : Is(r[i], "hdr") /\ r[i][2] = 1}
After(r, i) == i + HeaderLen + r[i][5]

\* r is a sequence of FCGI_STDIN records, the one at i followed by another
\* one or last; only the last one may be empty.
StdinRecords(r) ==
    /\ r # <<>> => 1 \in Starts(r)
    /\ \A i \in Starts(r) :
         /\ After(r, i) = Len(r) + 1 \/ After(r, i) \in Starts(r)
         /\ \A k \in 1 .. HeaderLen :
              r[i + k - 1] = MakeHeader("stdin", requestId, r[i][5], 0)[k]
         /\ \A j \in i + HeaderLen .. After(r, i) - 1 : Is(r[j], "in")
         /\ r[i][5] = 0 => After(r, i) = Len(r) + 1

(***************************************************************************)
(* What WebServerReadHandler and AppServerWriteHandler relay is what was   *)
(* read from stdin, each byte once and in order, as a sequence of          *)
(* FCGI_STDIN records whose contentLength is what follows; the empty       *)
(* record that ends the stream comes once and last, however the Web        *)
(* server's data and the application's appetite are cut.                   *)
(***************************************************************************)
StdinRelayed ==
    /\ Only(Relayed, "in") \o web.stdin = web.all
    /\ StdinRecords(Relayed)

\* The cells of an answer.  What is in a record of another type is not looked
\* at, nor is padding.
AnswerTypes == {"stdout", "stderr", "end", "other"}
ContentOf(type) ==
    CASE type = "stdout" -> "out" [] type = "stderr" -> "err"
      [] type = "end" -> "body" [] OTHER -> "x"

AnswerCell ==
    ({"hdr"} \X (1 .. HeaderLen) \X AnswerTypes \X Nat \X Nat \X Nat)
    \cup ({"body"} \X (1 .. BodyLen) \X Nat)
    \cup ({"out", "err", "x", "pad"} \X Nat)

\* Where the padding of the record of s at i begins, and where it ends.
PadFrom(s, i) == i + HeaderLen + s[i][5]
NextFrom(s, i) == PadFrom(s, i) + s[i][6]

\* s is a sequence of whole records, of which an FCGI_END_REQUEST is the last.
WellFormed(s) ==
    /\ s \in Seq(AnswerCell)
    /\ s # <<>> => 1 \in Starts(s)
    /\ \A i \in Starts(s) :
         /\ NextFrom(s, i) = Len(s) + 1 \/ NextFrom(s, i) \in Starts(s)
         /\ \A k \in 1 .. HeaderLen :
              s[i + k - 1] = MakeHeader(s[i][3], s[i][4], s[i][5], s[i][6])[k]
         /\ \A j \in i + HeaderLen .. PadFrom(s, i) - 1 : Is(s[j], ContentOf(s[i][3]))
         /\ \A j \in PadFrom(s, i) .. NextFrom(s, i) - 1 : Is(s[j], "pad")
         /\ s[i][3] = "end" =>
              /\ s[i][5] = BodyLen /\ NextFrom(s, i) = Len(s) + 1
              /\ \A k \in 1 .. BodyLen : s[i + HeaderLen + k - 1][2] = k

(***************************************************************************)
(* Every byte of the FCGI_STDOUT and FCGI_STDERR records read goes to      *)
(* stdout or stderr, in order, and nothing else does: no header, padding   *)
(* or body, wherever a read ends.                                          *)
(***************************************************************************)
OutputRelayed ==
    LET left == cgi.fromAS \o app.sends
        sent == app.answer
    IN  /\ \E n \in 0 .. Len(sent) : web.out = Only(SubSeq(sent, 1, n), "out")
        /\ \E n \in 0 .. Len(sent) : web.err = Only(SubSeq(sent, 1, n), "err")
        /\ ~ app.died => /\ web.out \o Only(left, "out") = Only(sent, "out")
                         /\ web.err \o Only(left, "err") = Only(sent, "err")

\* The end of the request as the application states it.
AppStatus == LET b == Only(app.answer, "body") IN 256 * b[1][3] + b[2][3]
AppCompletes ==
    LET b == Only(app.answer, "body")
    IN  /\ Len(b) = BodyLen /\ b[3][3] = 0
        /\ \A i \in 1 .. Len(app.answer) : LET cell == app.answer[i]
             IN Is(cell, "hdr") => cell[3] # "other" /\ cell[4] = requestId

\* The exits for which the application is not to blame.
LocalFailures == {OS_Errno(call) : call \in {"select", "stdin", "connection", "output"}}

(***************************************************************************)
(* When the program exits with a status, it is the application's: the      *)
(* application completed the request, with this status, and the Web server *)
(* has all the output.  If the application completes the request and does  *)
(* not die, the program exits with its status unless a call of its own     *)
(* fails (select, the reads of stdin and of the connection, the writes to  *)
(* stdout and stderr): it never finds an error in the answer, nor writes   *)
(* to an application that has closed the connection.                       *)
(***************************************************************************)
ExitTruthful ==
    pc = "exited" =>
      /\ code[1] = "status" =>
           /\ AppCompletes /\ code[2] = AppStatus
           /\ web.out = Only(app.answer, "out") /\ web.err = Only(app.answer, "err")
      /\ AppCompletes /\ ~ app.died =>
           code \in LocalFailures \cup {<<"status", AppStatus>>}

(***************************************************************************)
(* "Perform the event loop until AppServerReadHander sees FCGI_END_REQUEST"*)
(* (main): once it has seen it, the program exits with the status it found *)
(* there.                                                                  *)
(***************************************************************************)
StatusReported ==
    pc = "exited" /\ cgi.exitStatusSet => code = <<"status", cgi.exitStatus>>

(***************************************************************************)
(* What WebServerReadHandler and WriteStdinEof put into fromWS fits the    *)
(* buff[BUFFLEN] of the "simple buffer".                                   *)
(***************************************************************************)
FitsBuffer == cgi.next + Len(cgi.fromWS) <= BuffLen

(***************************************************************************)
(* The program exits: stdin is relayed to its end, after which the         *)
(* application's answer or its death is seen; the program never waits for  *)
(* stdin and the application for the program.                              *)
(***************************************************************************)
AlwaysExits == <>(pc = "exited")
=============================================================================
