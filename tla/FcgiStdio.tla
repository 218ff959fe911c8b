------------------------------ MODULE FcgiStdio -----------------------------
(***************************************************************************)
(* The stdio emulation of libfcgi/fcgi_stdio.c on top of the request cycle *)
(* of libfcgi/fcgiapp.c, for one single-threaded application.              *)
(*                                                                         *)
(* A FCGI_FILE is a pair of pointers, to a FILE of the C library and to a  *)
(* FCGX_Stream of the current request; every call looks at the first, then *)
(* at the second.  FCGX_Accept frees the streams of the last request, so a *)
(* pointer that is not replaced or cleared in time is a pointer to freed   *)
(* storage.  A stream is named by its FCGI_FILE and the number of its      *)
(* request, and only those of the last request exist; what is printed is   *)
(* represented by the number of the request during which it was printed.   *)
(* Records and buffers are the business of FcgxWriter and FcgxReader: here *)
(* a stream keeps what was put into it until it is flushed, and a write    *)
(* works as long as the Web server keeps its end of the connection open.   *)
(***************************************************************************)
EXTENDS Integers

CONSTANTS
    MaxRequests,   \* requests the Web server sends, over all connections
    MaxConns,      \* connections it makes
    Files,         \* FILEs that fopen, tmpfile, fdopen, popen and freopen can make
    Uses,          \* the standard FCGI_FILEs the application itself uses
    Careless       \* what the application does although it should not (below)

ASSUME StdioAssumption ==
    /\ MaxRequests \in Nat /\ MaxConns \in Nat
    /\ Uses \subseteq {"stdin", "stdout", "stderr"}
    /\ Careless \subseteq {"usesAfterRefusal", "filtersClosedStdin"}

Conns == 1 .. MaxConns
Std == {"stdin", "stdout", "stderr"}      \* FCGI_FILEs, and the FILEs of the same name
Writers == {"stdout", "stderr"}
None == 0                                 \* NULL, or descriptor -1
Null == "null"
OwnEnviron == -1                          \* the environment the process was started with

VARIABLES
    pc,              \* what the application is doing
    listening,       \* OS_IsFcgi(FCGI_LISTENSOCK_FILENO)
    acceptCalled, isCGI,
    stdio, fcgx,     \* the two pointers of FCGI_stdin, FCGI_stdout and FCGI_stderr
    environ,         \* the request whose parameters it points to
    heap,            \* FCGI_FILEs made by FCGI_OpenFromFILE, by the FILE they hold
    file,            \* state of every FILE
    req,             \* the_request: ipcFd, the request whose streams it holds, ...
    str,             \* its streams
    nreq,            \* requests accepted
    shutdownPending,
    conn, sent,      \* the Web server: its connections, and what is unread on them
    nsent,
    reply,           \* what it got for the last request; cut: a close found no connection
    said,            \* something was printed for the last request
    asked,           \* the status set for it, NoStatus if none was
    misuse,          \* a freed stream or a null pointer was used
    lateCall         \* shutdownPending when FCGI_Accept was last called

app == <<acceptCalled, isCGI, stdio, fcgx, environ, heap, file, misuse>>
lib == <<req, str, nreq, reply, said, asked>>
server == <<conn, sent, nsent>>
rest == <<listening, shutdownPending, lateCall>>
vars == <<pc, app, lib, server, rest>>

NoStatus == 0
Status == 1

World == [str |-> str, reply |-> reply, req |-> req, conn |-> conn]
-----------------------------------------------------------------------------
(* The streams of a request *)

NewStream == [closed |-> FALSE, fclosed |-> FALSE, err |-> FALSE, buf |-> {}]
NewStreams == [k \in Std |-> NewStream]

NoReply == [got |-> {}, ended |-> 0, status |-> NoStatus, cut |-> FALSE]

Used(w, k, s) == [w EXCEPT !.str[k] = s]

\* SetError: the first error stays until it is cleared.
SetError(s) == [s EXCEPT !.err = TRUE, !.closed = TRUE]

\* The content of a writer goes to the Web server, or the write fails.
Empty(w, k) ==
    IF w.conn[w.req.fd] = "open"
    THEN [w EXCEPT !.reply.got = @ \cup w.str[k].buf, !.str[k].buf = {}]
    ELSE Used(w, k, SetError(w.str[k]))

FCGX_FFlush(w, k) ==
    IF k = "stdin" \/ w.str[k].closed THEN w ELSE Empty(w, k)

FClosed(s) == [s EXCEPT !.fclosed = TRUE, !.closed = TRUE]

\* What the closing of a writer adds to the reply.
Closing(r, ended, status, cut) ==
    [r EXCEPT !.ended = IF ended THEN @ + 1 ELSE @,
              !.status = IF ended THEN status ELSE @,
              !.cut = @ \/ cut]

\* The second writer that is closed also sends FCGI_END_REQUEST.
FCGX_FClose(w, k) ==
    LET e == IF k = "stdin" THEN w ELSE Empty(w, k)
        works == w.conn[w.req.fd] = "open"
        ended == k # "stdin" /\ works /\ \A j \in Writers \ {k} : w.str[j].fclosed
    IN  IF w.str[k].fclosed THEN w
        ELSE [e EXCEPT !.str[k] = FClosed(@),
                       !.reply = Closing(@, ended, w.req.status, k # "stdin" /\ ~ works)]

\* Seeded fault: the connection is kept even if it was to be closed.
BadFCGX_Free(w, close) ==
    [w EXCEPT !.req.cur = None,
              !.str = NewStreams,
              !.req.fd = IF close THEN None ELSE @]

FCGX_Free(w, close) ==
    [w EXCEPT !.req.cur = None,
              !.str = NewStreams,
              !.req.fd = IF close THEN None ELSE @,
              !.conn = IF close /\ w.req.fd # None
                       THEN [@ EXCEPT ![w.req.fd] = "closed"] ELSE @]

FCGX_Finish_r(w) ==
    LET held == w.req.cur # None
        e == IF held THEN FCGX_FClose(FCGX_FClose(w, "stderr"), "stdout") ELSE w
    IN  FCGX_Free(e, ~ w.req.keep \/ (held /\ \E k \in Std : e.str[k].err))

Becomes(w) == str' = w.str /\ reply' = w.reply /\ req' = w.req /\ conn' = w.conn
-----------------------------------------------------------------------------
(* FCGI_Accept *)

InAccept == {"accepting", "reading"}

\* The application may call FCGI_Accept: it has not been told to exit.
MayAccept == pc \in {"start", "serving", "done"}

\* The first call in a CGI program.
AcceptAsCGI ==
    /\ MayAccept /\ ~ acceptCalled /\ ~ listening
    /\ acceptCalled' = TRUE /\ isCGI' = TRUE
    /\ stdio' = [h \in Std |-> h]
    /\ fcgx' = [h \in Std |-> None]
    /\ pc' = "serving" /\ lateCall' = shutdownPending
    /\ UNCHANGED <<environ, heap, file, misuse, lib, server, listening,
                   shutdownPending>>

\* Later calls in a CGI program return EOF.
AcceptAgainAsCGI ==
    /\ MayAccept /\ acceptCalled /\ isCGI
    /\ pc' = "refused" /\ lateCall' = shutdownPending
    /\ UNCHANGED <<app, lib, server, listening, shutdownPending>>

\* FCGX_Accept up to the point where it waits for the Web server.
AcceptAsFastCGI ==
    /\ MayAccept /\ (IF acceptCalled THEN ~ isCGI ELSE listening)
    /\ acceptCalled' = TRUE
    /\ Becomes(FCGX_Finish_r(World))
    /\ pc' = IF req'.fd = None THEN "accepting" ELSE "reading"
    /\ lateCall' = shutdownPending
    /\ UNCHANGED <<isCGI, stdio, fcgx, environ, heap, file, misuse, nreq, said, asked,
                   sent, nsent, listening, shutdownPending>>

FCGI_Accept == AcceptAsCGI \/ AcceptAgainAsCGI \/ AcceptAsFastCGI

\* OS_Accept fails: a shutdown is pending, or accept(2) fails.  FCGI_Accept
\* returns at once and leaves the FCGI_FILEs and environ as they are.
OsAcceptFails ==
    /\ pc = "accepting"
    /\ pc' = "refused"
    /\ UNCHANGED <<app, lib, server, rest>>

\* The signal that arrives between the test and accept(2) is in OsAccept.
OsAcceptSucceeds ==
    /\ pc = "accepting" /\ ~ shutdownPending
    /\ \E c \in Conns :
          /\ conn[c] = "waiting"
          /\ conn' = [conn EXCEPT ![c] = "open"]
          /\ req' = [req EXCEPT !.fd = c]
    /\ pc' = "reading"
    /\ UNCHANGED <<app, str, nreq, reply, said, asked, sent, nsent, rest>>

\* Seeded fault: the connection is read again.
BadReadFails ==
    /\ pc = "reading"
    /\ sent[req.fd] = "bad" \/ (sent[req.fd] = "nothing" /\ conn[req.fd] = "broken")
    /\ sent' = [sent EXCEPT ![req.fd] = "nothing"]
    /\ UNCHANGED <<pc, app, lib, conn, nsent, rest>>

\* A connection that brings no request (end of file, protocol error, unknown
\* role, broken parameters) is closed; keepConnection may already be changed.
ReadFails ==
    /\ pc = "reading"
    /\ sent[req.fd] = "bad" \/ (sent[req.fd] = "nothing" /\ conn[req.fd] = "broken")
    /\ LET w == FCGX_Free(World, TRUE)
       IN  \E keep \in IF sent[req.fd] = "bad" THEN BOOLEAN ELSE {req.keep} :
              Becomes([w EXCEPT !.req.keep = keep])
    /\ sent' = [sent EXCEPT ![req.fd] = "nothing"]
    /\ pc' = "accepting"
    /\ UNCHANGED <<app, nreq, said, asked, nsent, rest>>

\* A request is read: FCGX_Accept makes the streams, FCGI_Accept sets up the
\* FCGI_FILEs.  A FILE that FCGI_freopen had put there is not closed.
ReadRequest ==
    /\ pc = "reading" /\ sent[req.fd] \in {"keep", "last"}
    /\ nreq' = nreq + 1
    /\ str' = NewStreams
    /\ req' = [req EXCEPT !.cur = nreq + 1, !.keep = sent[req.fd] = "keep"]
    /\ sent' = [sent EXCEPT ![req.fd] = "nothing"]
    /\ stdio' = [h \in Std |-> Null]
    /\ fcgx' = [h \in Std |-> nreq + 1]
    /\ environ' = nreq + 1
    /\ reply' = NoReply /\ said' = FALSE /\ asked' = NoStatus
    /\ pc' = "serving"
    /\ UNCHANGED <<acceptCalled, isCGI, heap, file, misuse, conn, nsent, rest>>
-----------------------------------------------------------------------------
(* FCGI_Finish and exit *)

FinishesRequest == acceptCalled /\ ~ isCGI

\* Seeded fault: the FCGI_FILEs keep their pointers.
BadFCGI_Finish ==
    /\ FinishesRequest
    /\ Becomes(FCGX_Finish_r(World))
    /\ environ' = None /\ UNCHANGED fcgx

FCGI_Finish ==
    /\ FinishesRequest
    /\ Becomes(FCGX_Finish_r(World))
    /\ fcgx' = [h \in Std |-> None]
    /\ environ' = None

AppFinishes ==
    /\ pc \in {"serving", "done", "refused"}
    /\ FCGI_Finish
    /\ pc' = IF pc = "refused" THEN pc ELSE "done"
    /\ UNCHANGED <<acceptCalled, isCGI, stdio, heap, file, misuse, nreq, said, asked,
                   sent, nsent, rest>>

\* Seeded fault: FCGI_Finish is not registered with atexit.
BadExit ==
    /\ pc \notin InAccept \cup {"exited"}
    /\ pc' = "exited"
    /\ conn' = IF req.fd = None THEN conn ELSE [conn EXCEPT ![req.fd] = "closed"]
    /\ UNCHANGED <<app, lib, sent, nsent, rest>>

\* exit calls FCGI_Finish, which the first FCGI_Accept registered with atexit;
\* the system then closes what is open.  FCGX_IsCGI also exits when FCGX_Init
\* fails, before anything else is done.
Exit ==
    /\ pc \notin InAccept \cup {"exited"}
    /\ pc' = "exited"
    /\ IF FinishesRequest
       THEN LET w == FCGX_Finish_r(World)
            IN  Becomes([w EXCEPT !.conn = [c \in Conns |->
                           IF c = w.req.fd THEN "closed" ELSE @[c]]])
                /\ fcgx' = [h \in Std |-> None] /\ environ' = None
       ELSE UNCHANGED <<str, reply, req, conn, fcgx, environ>>
    /\ UNCHANGED <<acceptCalled, isCGI, stdio, heap, file, misuse, nreq, said, asked,
                   sent, nsent, rest>>
-----------------------------------------------------------------------------
(* The wrappers.  Each acts on the FILE, else on the stream, else fails.   *)

\* The application is running its own code and stdio may be used.
Running ==
    \/ pc \in {"start", "serving", "done"}
    \/ pc = "refused" /\ (isCGI \/ "usesAfterRefusal" \in Careless)

\* A FILE that a failed freopen has closed is not used again.
UsableFILE(h) == stdio[h] # Null => file[stdio[h]] = "open"

OnFILE(h) == Running /\ stdio[h] # Null /\ UsableFILE(h)
OnStream(h) == Running /\ stdio[h] = Null /\ fcgx[h] # None
Freed(h) == fcgx[h] # req.cur

\* What the application is working for: a request, or nothing (0).
Now == IF pc = "serving" /\ ~ isCGI THEN nreq ELSE 0

\* A call on a stream that changes w as given, unless the stream is freed.
StreamCall(h, w) ==
    /\ OnStream(h)
    /\ misuse' = (misuse \/ Freed(h))
    /\ IF Freed(h) THEN UNCHANGED <<str, reply, req, conn>> ELSE Becomes(w)

stdioRest == <<pc, acceptCalled, isCGI, stdio, fcgx, environ, heap, file, nreq,
               asked, sent, nsent, rest>>

\* fputc, putchar, fputs, puts, fprintf, printf, vfprintf, vprintf, fwrite, perror
Output(h) ==
    /\ h \in Writers
    /\ LET s == str[h]
       IN  StreamCall(h, IF s.closed THEN World
                         ELSE Used(World, h, [s EXCEPT !.buf = @ \cup {Now}]))
           /\ said' = (said \/ ~ (s.closed \/ Freed(h)))
    /\ UNCHANGED stdioRest

\* fgetc, getchar, ungetc, fgets, gets, fread: a read may find the connection broken.
Input(h) ==
    /\ h = "stdin"
    /\ LET s == str[h]
       IN  StreamCall(h, IF s.closed \/ conn[req.fd] = "open" THEN World
                         ELSE Used(World, h, SetError(s)))
    /\ UNCHANGED <<stdioRest, said>>

FCGI_fflush(h) ==
    /\ StreamCall(h, FCGX_FFlush(World, h))
    /\ UNCHANGED <<stdioRest, said>>

\* ferror and feof only look.
FCGI_clearerr(h) ==
    /\ StreamCall(h, [World EXCEPT !.str[h].err = FALSE])
    /\ UNCHANGED <<stdioRest, said>>

\* FCGI_StartFilterData does not look whether there is a stream.  The request
\* is not for the filter role, so that the call is an error.
FCGI_StartFilterData ==
    LET h == "stdin" IN
    /\ Running /\ stdio[h] = Null
    /\ fcgx[h] = None => "filtersClosedStdin" \in Careless
    /\ IF fcgx[h] = None \/ Freed(h)
       THEN misuse' = TRUE /\ UNCHANGED str
       ELSE str' = [str EXCEPT ![h] = SetError(@)] /\ UNCHANGED misuse
    /\ UNCHANGED <<stdioRest, said, reply, req, conn>>

\* Without a stream behind FCGI_stdin the status is lost.
FCGI_SetExitStatus(status) ==
    LET h == "stdin" IN
    /\ Running /\ fcgx[h] # None
    /\ misuse' = (misuse \/ Freed(h))
    /\ req' = IF Freed(h) THEN req ELSE [req EXCEPT !.status = status]
    /\ asked' = IF Freed(h) \/ reply.ended > 0 THEN asked ELSE status
    /\ UNCHANGED <<pc, acceptCalled, isCGI, stdio, fcgx, environ, heap, file, nreq,
                   str, reply, said, server, rest>>

\* getenv looks through the array that environ points to.
GetEnv ==
    /\ Running
    /\ misuse' = (misuse \/ (environ \notin {OwnEnviron, None} /\ environ # req.cur))
    /\ UNCHANGED <<stdioRest, said, str, reply, req, conn>>
-----------------------------------------------------------------------------
(* Opening and closing *)

fileRest == <<pc, acceptCalled, isCGI, environ, nreq, said, asked, sent, nsent, rest>>
streamRest == <<str, reply, req, conn, misuse>>

\* fopen, tmpfile, fdopen, popen, with FCGI_OpenFromFILE; an attempt that
\* fails in the C library changes nothing.
Open(f) ==
    /\ Running /\ file[f] = "none"
    /\ \/ file' = [file EXCEPT ![f] = "open"] /\ heap' = heap \cup {f}
       \/ file' = [file EXCEPT ![f] = "closed"] /\ UNCHANGED heap
    /\ UNCHANGED <<fileRest, streamRest, stdio, fcgx>>

\* fclose of a FCGI_FILE from fopen, tmpfile or fdopen, pclose of one from popen
CloseOpened(f) ==
    /\ Running /\ f \in heap /\ file[f] = "open"
    /\ file' = [file EXCEPT ![f] = "closed"]
    /\ heap' = heap \ {f}
    /\ UNCHANGED <<fileRest, streamRest, stdio, fcgx>>

FCGI_fclose(h) ==
    /\ \/ /\ OnFILE(h)
          /\ file' = [file EXCEPT ![stdio[h]] = "closed"]
          /\ stdio' = [stdio EXCEPT ![h] = Null]
          /\ UNCHANGED <<streamRest, fcgx>>
       \/ /\ StreamCall(h, FCGX_FClose(World, h))
          /\ fcgx' = [fcgx EXCEPT ![h] = None]
          /\ UNCHANGED <<file, stdio>>
    /\ UNCHANGED <<fileRest, heap>>

\* On a FILE: freopen(3) opens another file, or closes this one and fails.
FreopenFILE(h) ==
    /\ OnFILE(h)
    /\ file' = [file EXCEPT ![stdio[h]] = "closed"]
    /\ UNCHANGED <<fileRest, streamRest, stdio, fcgx, heap>>

FreopenOpened(f) ==
    /\ Running /\ f \in heap /\ file[f] = "open"
    /\ file' = [file EXCEPT ![f] = "closed"]
    /\ UNCHANGED <<fileRest, streamRest, stdio, fcgx, heap>>

\* On a stream: it is closed, and stays where it is if fopen fails.
FreopenStream(h) ==
    /\ StreamCall(h, FCGX_FClose(World, h))
    /\ \/ UNCHANGED <<stdio, fcgx, file>>
       \/ \E f \in Files :
             /\ file[f] = "none"
             /\ file' = [file EXCEPT ![f] = "open"]
             /\ stdio' = [stdio EXCEPT ![h] = f]
             /\ fcgx' = [fcgx EXCEPT ![h] = None]
    /\ UNCHANGED <<fileRest, heap>>

\* setvbuf, setbuf, fseek, ftell, rewind, fgetpos, fsetpos and fileno work on a
\* FILE only: on a stream they fail and leave it alone.
-----------------------------------------------------------------------------
(* The Web server; its connections wait in the queue of the listening     *)
(* socket from the start.                                                  *)

serverRest == <<pc, app, lib, rest>>

\* A request that is to leave the connection open or not, or one that the
\* library rejects; the last one on the connection has been answered.
ServerSends ==
    /\ nsent < MaxRequests
    /\ \E c \in Conns :
          /\ conn[c] \in {"waiting", "open"} /\ sent[c] = "nothing"
          /\ c = req.fd /\ req.cur # None => reply.ended > 0
          /\ \E kind \in {"keep", "last", "bad"} : sent' = [sent EXCEPT ![c] = kind]
    /\ nsent' = nsent + 1
    /\ UNCHANGED <<serverRest, conn>>

ServerLeaves ==
    /\ \E c \in Conns : conn[c] = "open" /\ conn' = [conn EXCEPT ![c] = "broken"]
    /\ UNCHANGED <<serverRest, sent, nsent>>

\* FCGX_ShutdownPending, from a signal handler
Shutdown ==
    /\ ~ shutdownPending /\ shutdownPending' = TRUE
    /\ UNCHANGED <<pc, app, lib, server, listening, lateCall>>
-----------------------------------------------------------------------------
Init ==
    /\ pc = "start" /\ listening \in BOOLEAN
    /\ acceptCalled = FALSE /\ isCGI = FALSE
    /\ stdio = [h \in Std |-> Null] /\ fcgx = [h \in Std |-> None]
    /\ environ = OwnEnviron
    /\ heap = {}
    /\ file = [f \in Std \cup Files |-> IF f \in Std THEN "open" ELSE "none"]
    /\ req = [fd |-> None, cur |-> None, keep |-> FALSE, status |-> NoStatus]
    /\ str = NewStreams
    /\ nreq = 0 /\ shutdownPending = FALSE
    /\ conn = [c \in Conns |-> "waiting"] /\ sent = [c \in Conns |-> "nothing"] /\ nsent = 0
    /\ reply = NoReply
    /\ said = FALSE /\ asked = NoStatus
    /\ misuse = FALSE /\ lateCall = FALSE

Call(h) ==
    \/ Output(h) \/ Input(h) \/ FCGI_fflush(h) \/ FCGI_clearerr(h)
    \/ FCGI_fclose(h) \/ FreopenFILE(h) \/ FreopenStream(h)

Next ==
    \/ FCGI_Accept \/ OsAcceptFails \/ OsAcceptSucceeds \/ ReadFails \/ ReadRequest
    \/ AppFinishes \/ Exit
    \/ \E h \in Uses : Call(h)
    \/ FCGI_StartFilterData \/ GetEnv
    \/ FCGI_SetExitStatus(Status)
    \/ \E f \in Files : Open(f) \/ CloseOpened(f) \/ FreopenOpened(f)
    \/ ServerSends \/ ServerLeaves \/ Shutdown

Spec == Init /\ [][Next]_vars

(***************************************************************************)
(* The application comes back to FCGI_Accept; this is told by the change   *)
(* of pc, which no other step makes.  OS_Accept fails when a shutdown is   *)
(* pending (OsAccept).  A read ends when the Web server has sent something *)
(* or closed the connection, which it does not have to do.                 *)
(***************************************************************************)
ComesBack == MayAccept /\ pc' \in InAccept \cup {"refused", "serving"}

FairSpec ==
    /\ Spec
    /\ WF_pc(ComesBack)
    /\ WF_vars(shutdownPending /\ OsAcceptFails)
    /\ WF_vars(ReadFails \/ ReadRequest)
-----------------------------------------------------------------------------
(* Properties *)

(***************************************************************************)
(* No call uses a stream or an environment after FCGX_Accept or            *)
(* FCGI_Finish has freed it, or a stream that was never there, whatever    *)
(* was closed, reopened or finished before: fcgi_stdio.c:142, :183, :186.  *)
(***************************************************************************)
NoFreedUse == ~ misuse

(***************************************************************************)
(* A request is answered once, however its streams were closed by the      *)
(* application, FCGI_Finish, FCGI_Accept or exit (atexit,                  *)
(* fcgi_stdio.c:119), unless its connection was gone.  The Web server gets *)
(* for it only what was printed while it was served, all of it when the    *)
(* request ends, and the last status that was set for it.                  *)
(***************************************************************************)
OneReply ==
    /\ reply.ended <= 1
    /\ nreq > 0 /\ (req.cur = None \/ pc = "exited") => reply.ended = 1 \/ reply.cut
    /\ reply.got \subseteq {nreq}
    /\ reply.ended > 0 => /\ said => nreq \in reply.got
                          /\ asked # NoStatus => reply.status = asked

(***************************************************************************)
(* The process holds no connection but the one in the_request, and none    *)
(* after exit: every way out of a request (kept, finished twice, failed,   *)
(* rejected) gives the connection back (FCGX_Free, fcgiapp.c:2075).        *)
(***************************************************************************)
ConnectionsAccounted ==
    \A c \in Conns :
        /\ conn[c] \in {"open", "broken"} => c = req.fd
        /\ c = req.fd => conn[c] \in {"open", "broken"} \/ pc = "exited"

\* read(2) on a kept connection on which the Web server is silent.
WaitsForServer == pc = "reading" /\ sent[req.fd] = "nothing" /\ conn[req.fd] # "broken"


(***************************************************************************)
(* "Prevent the lib from accepting any new requests" (fcgiapp.h:613): a    *)
(* FCGI_Accept that is called while a shutdown is pending returns no       *)
(* request.                                                                *)
(***************************************************************************)
NoRequestAfterShutdown == pc = "serving" /\ ~ isCGI => ~ lateCall
=============================================================================
