--------------------------- MODULE FcgiStreambuf ----------------------------
(***************************************************************************)
(* The character functions of fcgiapp.c (FCGX_GetChar, GetStr, GetLine,    *)
(* UnGetChar) and the C++ stream buffers of fcgio.cpp, which stand on them  *)
(* with a buffer of their own or without one.                              *)
(*                                                                         *)
(* The program reads (with FCGX functions, or through a stream buffer) or  *)
(* writes (through a stream buffer).  FillBuffProc and the output stream   *)
(* are those of FcgxReader and FcgxWriter, here reduced to what their      *)
(* callers see.  sgetc, sbumpc, sungetc, sgetn, sputc and sputn are those  *)
(* of the C++ library (libstdc++), which call the virtual functions.       *)
(***************************************************************************)
EXTENDS Integers, Sequences

CONSTANTS
    Source,       \* the bytes of a request's input
    MaxFill,      \* bytes that one FillBuffProc delivers
    BufSize,      \* size of a stream buffer's own buffer
    MaxRoom,      \* bytes left in the buffer of an output stream that is closed
    MaxCalls,     \* calls of the program
    ReadsPastEof  \* a buffered stream is read again after it returned EOF

ASSUME StreambufAssumption == MaxFill \in Nat \ {0} /\ BufSize \in Nat \ {0} /\ MaxRoom \in Nat

NL == "nl"
EOF == "EOF"
HDR == "header"       \* a byte of the FCGX buffer that is no input

VARIABLES
    user,     \* "fcgx", "istream" or "ostream"
    bufsize,  \* of the stream buffer, 0 without a buffer
    get, gptr,    \* the get area, and the place in it
    put,      \* the put area, from pbase to pptr
    in,       \* the FCGX input stream
    out,      \* the FCGX output stream
    last,     \* what the last call returned
    accepted, \* what the program wrote and was not told to be an error
    dropped,  \* history: the put area when the stream was attached elsewhere
    calls

vars == <<user, bufsize, get, gptr, put, in, out, last, accepted, dropped, calls>>

Least(a, b) == IF a < b THEN a ELSE b
Took(s, n) == SubSeq(s, 1, n)
From(s, i) == SubSeq(s, i, Len(s))
-----------------------------------------------------------------------------
(* The FCGX input stream: buff holds what there is up to stop *)

NewReader == [buff |-> <<>>, rdNext |-> 1, stopUnget |-> 1, isClosed |-> FALSE,
              src |-> Source, broken |-> FALSE]
stop(f) == Len(f.buff) + 1

\* FillBuffProc closes the stream, at the end or because of an error, or
\* delivers more of the record at the start of the buffer, or a record that
\* is behind a header in it.
fillBuffProc(f) ==
    {[f EXCEPT !.isClosed = TRUE, !.broken = f.src # <<>>, !.src = <<>>]} \cup
    {[f EXCEPT !.src = From(@, n + 1), !.buff = Took(f.src, n), !.rdNext = 1] :
        n \in 1 .. Least(MaxFill, Len(f.src))} \cup
    {[f EXCEPT !.src = From(@, n + 1), !.buff = @ \o <<HDR>> \o Took(f.src, n),
               !.rdNext = stop(f) + 1] :
        n \in 1 .. Least(MaxFill, Len(f.src))}

Advanced(f) == [f |-> [f EXCEPT !.rdNext = @ + 1], c |-> f.buff[f.rdNext]]

\* Seeded fault: stopUnget stays where it was before the fill.
BadFCGX_GetChar(f) ==
    IF f.isClosed THEN {[f |-> f, c |-> EOF]}
    ELSE IF f.rdNext # stop(f) THEN {Advanced(f)}
    ELSE {IF g.isClosed THEN [f |-> g, c |-> EOF] ELSE Advanced(g) : g \in fillBuffProc(f)}

FCGX_GetChar(f) ==
    IF f.isClosed THEN {[f |-> f, c |-> EOF]}
    ELSE IF f.rdNext # stop(f) THEN {Advanced(f)}
    ELSE {IF g.isClosed THEN [f |-> g, c |-> EOF]
          ELSE Advanced([g EXCEPT !.stopUnget = g.rdNext]) : g \in fillBuffProc(f)}

\* The loop of FCGX_GetStr: str has been moved and n bytes are missing.
RECURSIVE Move(_, _, _)
Move(f, n, str) ==
    LET m == Least(n, stop(f) - f.rdNext)
        moved == str \o SubSeq(f.buff, f.rdNext, f.rdNext + m - 1)
        g == [f EXCEPT !.rdNext = @ + m]
    IN  IF m = n THEN {[f |-> g, str |-> moved]}
        ELSE UNION {IF h.isClosed THEN {[f |-> h, str |-> moved]}
                    ELSE Move([h EXCEPT !.stopUnget = h.rdNext], n - m, moved) :
                    h \in fillBuffProc(g)}

FCGX_GetStr(n, f) == IF f.isClosed THEN {[f |-> f, str |-> <<>>]} ELSE Move(f, n, <<>>)

\* FCGX_GetLine, with n the size of the caller's array; NULL and an empty line
\* are both <<>>.
RECURSIVE Line(_, _, _)
Line(f, n, str) ==
    IF n = 0 THEN {[f |-> f, str |-> str]}
    ELSE UNION {CASE r.c = EOF -> {[f |-> r.f, str |-> str]}
                  [] r.c = NL  -> {[f |-> r.f, str |-> Append(str, NL)]}
                  [] OTHER     -> Line(r.f, n - 1, Append(str, r.c)) : r \in FCGX_GetChar(f)}
FCGX_GetLine(n, f) == Line(f, n - 1, <<>>)

CanUnGet(f) == ~f.isClosed /\ f.rdNext # f.stopUnget
FCGX_UnGetChar(c, f) ==
    IF c # EOF /\ CanUnGet(f)
    THEN [f |-> [f EXCEPT !.rdNext = @ - 1, !.buff[f.rdNext - 1] = c], c |-> c]
    ELSE [f |-> f, c |-> EOF]
-----------------------------------------------------------------------------
(* Reading *)

Full(n, str) == [full |-> Len(str) = n, got |-> str]
Looked(c) == [full |-> FALSE, got |-> IF c = EOF THEN <<>> ELSE <<c>>]
OneMore == calls < MaxCalls /\ calls' = calls + 1
NoRead == [full |-> FALSE, got |-> <<"none">>]
writeVars == <<put, out, accepted, dropped>>
cppVars == <<bufsize, get, gptr>>

FcgxReads ==
    /\ user = "fcgx" /\ OneMore
    /\ \/ \E r \in FCGX_GetChar(in) :
             in' = r.f /\ last' = Full(1, Looked(r.c).got)
       \/ \E n \in 1 .. 3 : \E r \in FCGX_GetStr(n, in) : in' = r.f /\ last' = Full(n, r.str)
       \/ \E n \in 2 .. 3 : \E r \in FCGX_GetLine(n, in) :
             in' = r.f /\ last' = Full(IF r.f.isClosed THEN n - 1 ELSE Len(r.str), r.str)
    /\ UNCHANGED <<user, cppVars, writeVars>>

\* FCGX_UnGetChar of the character before, or of another one
FcgxUnGets ==
    /\ user = "fcgx" /\ OneMore
    /\ \E c \in {Source[i] : i \in 1 .. Len(Source)} :
          LET r == FCGX_UnGetChar(c, in) IN in' = r.f /\ last' = Looked(r.c)
    /\ UNCHANGED <<user, cppVars, writeVars>>

\* Results of underflow and uflow: the stream, the get area and a character.
\* A stream that is read again after EOF has gptr behind the get area:
\* in_avail() is negative then, and whatever is in the buffer is returned.
underflow(b) ==
    IF bufsize = 0
    THEN {[f |-> FCGX_UnGetChar(r.c, r.f).f, get |-> b.get, gptr |-> b.gptr,
           c |-> FCGX_UnGetChar(r.c, r.f).c] : r \in FCGX_GetChar(b.f)}
    ELSE IF b.gptr = Len(b.get) + 1
    THEN {IF r.str = <<>> THEN [f |-> r.f, get |-> b.get, gptr |-> b.gptr, c |-> EOF]
          ELSE [f |-> r.f, get |-> r.str, gptr |-> 1, c |-> r.str[1]] :
          r \in FCGX_GetStr(bufsize, b.f)}
    ELSE {[f |-> b.f, get |-> b.get, gptr |-> b.gptr,
           c |-> IF b.gptr <= Len(b.get) THEN b.get[b.gptr] ELSE "garbage"]}

\* gptr is advanced at EOF, too.
uflow(b) ==
    IF bufsize = 0
    THEN {[f |-> r.f, get |-> b.get, gptr |-> b.gptr, c |-> r.c] : r \in FCGX_GetChar(b.f)}
    ELSE {[r EXCEPT !.gptr = @ + 1] : r \in underflow(b)}

Here == [f |-> in, get |-> get, gptr |-> gptr, c |-> EOF]
Becomes(b) == in' = b.f /\ get' = b.get /\ gptr' = b.gptr
HasChar(b) == b.gptr <= Len(b.get)
Current(b) == b.get[b.gptr]

sgetc(b) == IF HasChar(b) THEN {[b EXCEPT !.c = Current(b)]} ELSE underflow(b)
sbumpc(b) ==
    IF HasChar(b) THEN {[b EXCEPT !.c = Current(b), !.gptr = @ + 1]} ELSE uflow(b)

\* sgetn with a buffer: xsgetn of the base class takes what is in the get area
\* and calls uflow for the rest.
RECURSIVE Taken(_, _, _)
Taken(b, n, str) ==
    IF n = 0 THEN {[b |-> b, str |-> str]}
    ELSE UNION {IF r.c = EOF THEN {[b |-> r, str |-> str]} ELSE Taken(r, n - 1, Append(str, r.c)) :
                r \in sbumpc(b)}
xsgetn(n, b) ==
    IF bufsize = 0
    THEN {[b |-> [b EXCEPT !.f = r.f], str |-> r.str] : r \in FCGX_GetStr(n, b.f)}
    ELSE Taken(b, n, <<>>)

\* The program may go on: gptr is behind the get area only after EOF.
MayRead == user = "istream" /\ OneMore /\ (ReadsPastEof \/ gptr <= Len(get) + 1)

Sgetc ==
    /\ MayRead
    /\ \E b \in sgetc(Here) : Becomes(b) /\ last' = Looked(b.c)
    /\ UNCHANGED <<user, bufsize, writeVars>>

Sbumpc ==
    /\ MayRead
    /\ \E b \in sbumpc(Here) : Becomes(b) /\ last' = Full(1, Looked(b.c).got)
    /\ UNCHANGED <<user, bufsize, writeVars>>

Sgetn ==
    /\ MayRead
    /\ \E n \in 2 .. 3 : \E r \in xsgetn(n, Here) : Becomes(r.b) /\ last' = Full(n, r.str)
    /\ UNCHANGED <<user, bufsize, writeVars>>

\* pbackfail is not overridden: without a buffer there is no pushback.
Sungetc ==
    /\ MayRead /\ bufsize > 0
    /\ IF gptr > 1
       THEN gptr' = gptr - 1 /\ last' = Looked(IF HasChar([Here EXCEPT !.gptr = @ - 1])
                                              THEN get[gptr - 1] ELSE "garbage")
       ELSE last' = Looked(EOF) /\ UNCHANGED gptr
    /\ UNCHANGED <<user, bufsize, get, in, writeVars>>
-----------------------------------------------------------------------------
(* Writing *)

\* got: the bytes that the FCGX stream has taken.  room: the bytes left in the
\* buffer of a closed stream; an open one makes room as it needs it.
NewWriter == [got |-> <<>>, isClosed |-> FALSE, room |-> 0]

\* FCGX_PutStr and FCGX_PutChar: bytes for which there is room are taken, by a
\* closed stream too.  Otherwise all of s is taken, or a write fails after a
\* part of it, which closes the stream and leaves no room.
FCGX_PutStr(s, o) ==
    LET m == Least(Len(s), o.room)
    IN  IF o.isClosed
        THEN {[o |-> [o EXCEPT !.got = @ \o Took(s, m), !.room = @ - m], ok |-> m = Len(s)]}
        ELSE {[o |-> [o EXCEPT !.got = @ \o s], ok |-> TRUE]} \cup
             {[o |-> [o EXCEPT !.got = @ \o Took(s, n), !.isClosed = TRUE], ok |-> FALSE] :
                 n \in 0 .. Len(s) - 1}

\* A closed stream is flushed without an error.  One that fails closes the
\* stream, with as much room as there was.
FCGX_FFlush(o) ==
    IF o.isClosed THEN {[o |-> o, ok |-> TRUE]}
    ELSE {[o |-> o, ok |-> TRUE]} \cup
         {[o |-> [o EXCEPT !.isClosed = TRUE, !.room = n], ok |-> FALSE] : n \in 0 .. MaxRoom}

\* Seeded fault: the put area is not emptied.
Badoverflow(s, w) ==
    UNION {IF ~r.ok THEN {[w EXCEPT !.o = r.o, !.ok = FALSE]}
           ELSE {[put |-> w.put, o |-> q.o, ok |-> q.ok] : q \in FCGX_PutStr(s, r.o)} :
           r \in FCGX_PutStr(w.put, w.o)}

\* overflow(c), with s = <<c>>, or <<>> for EOF: the put area is emptied, then
\* c is written behind it.
overflow(s, w) ==
    UNION {IF ~r.ok THEN {[w EXCEPT !.o = r.o, !.ok = FALSE]}
           ELSE {[put |-> <<>>, o |-> q.o, ok |-> q.ok] : q \in FCGX_PutStr(s, r.o)} :
           r \in FCGX_PutStr(w.put, w.o)}

Writer == [put |-> put, o |-> out, ok |-> TRUE]
sputc(c, w) ==
    IF Len(w.put) < bufsize THEN {[w EXCEPT !.put = Append(@, c)]} ELSE overflow(<<c>>, w)

Wrote(w) == put' = w.put /\ out' = w.o
readVars == <<get, gptr, in, last, dropped>>

\* Bytes that are written are numbered.
NextByte == Len(accepted) + 1

Sputc ==
    /\ user = "ostream" /\ OneMore
    /\ \E w \in sputc(NextByte, Writer) :
          Wrote(w) /\ accepted' = IF w.ok THEN Append(accepted, NextByte) ELSE accepted
    /\ UNCHANGED <<user, bufsize, readVars>>

\* xsputn of the base class: fills the put area, calls overflow with the next
\* byte, and goes on; without a buffer it is FCGX_PutStr.
Sputn ==
    /\ user = "ostream" /\ OneMore
    /\ \E w \in IF bufsize = 0
                THEN {[put |-> put, o |-> r.o, ok |-> r.ok] : r \in FCGX_PutStr(<<NextByte, NextByte + 1>>, out)}
                ELSE UNION {IF w.ok THEN sputc(NextByte + 1, w) ELSE {w} : w \in sputc(NextByte, Writer)} :
          /\ Wrote(w)
          /\ \/ w.ok /\ accepted' = accepted \o <<NextByte, NextByte + 1>>
             \/ ~w.ok /\ accepted' = accepted
    /\ UNCHANGED <<user, bufsize, readVars>>

\* pubsync
sync ==
    /\ user = "ostream" /\ OneMore
    /\ \E w \in overflow(<<>>, Writer) :
          IF ~w.ok THEN Wrote(w)
          ELSE \E r \in FCGX_FFlush(w.o) : Wrote([w EXCEPT !.o = r.o, !.ok = r.ok])
    /\ UNCHANGED <<user, bufsize, readVars, accepted>>
-----------------------------------------------------------------------------
\* pubsetbuf: refused if there is a buffer already
setbuf ==
    /\ user \notin {"fcgx", "gone"} /\ bufsize = 0 /\ OneMore
    /\ bufsize' = BufSize /\ get' = <<>> /\ gptr' = 1 /\ put' = <<>>
    /\ last' = NoRead
    /\ UNCHANGED <<user, in, out, accepted, dropped>>

\* The next request's stream: the two areas are emptied, whatever they hold.
\* accepted and got count over the requests, unless a request's output failed.
attach ==
    /\ user \notin {"fcgx", "gone"} /\ OneMore
    /\ get' = <<>> /\ gptr' = 1 /\ put' = <<>>
    /\ in' = NewReader /\ last' = NoRead
    /\ out' = IF out.isClosed THEN NewWriter ELSE out
    /\ accepted' = IF out.isClosed THEN <<>> ELSE accepted
    /\ dropped' = IF out.isClosed THEN <<>> ELSE dropped \o put
    /\ UNCHANGED <<user, bufsize>>

\* The destructor
Destroy ==
    /\ user = "ostream"
    /\ \E w \in overflow(<<>>, Writer) : Wrote(w)
    /\ user' = "gone"
    /\ UNCHANGED <<bufsize, readVars, accepted, calls>>

Init ==
    /\ user \in {"fcgx", "istream", "ostream"}
    /\ bufsize \in IF user = "fcgx" THEN {0} ELSE {0, BufSize}
    /\ get = <<>> /\ gptr = 1 /\ put = <<>>
    /\ in = NewReader /\ out = NewWriter
    /\ last = NoRead /\ accepted = <<>> /\ dropped = <<>> /\ calls = 0

Next ==
    \/ FcgxReads \/ FcgxUnGets \/ Sgetc \/ Sbumpc \/ Sgetn \/ Sungetc
    \/ Sputc \/ Sputn \/ sync \/ setbuf \/ attach \/ Destroy

Spec == Init /\ [][Next]_vars
-----------------------------------------------------------------------------
(* Properties *)

(***************************************************************************)
(* Through every mixture of single characters, strings, lines, peeks and   *)
(* pushbacks, over refills of both buffers and with or without a buffer of *)
(* the stream, the program sees the one sequence of bytes of InputSource:  *)
(* what is left is the rest of the get area, of the FCGX buffer and of the *)
(* input.  A pushback after a successful read is never refused             *)
(* (fcgiapp.c:235).                                                        *)
(***************************************************************************)
Input == INSTANCE InputSource WITH
    left <- From(get, gptr) \o SubSeq(in.buff, in.rdNext, stop(in) - 1) \o in.src,
    broken <- in.broken

ReadsAsOneSequence == Input!Spec

\* s without what was dropped
Kept(s) == SelectSeq(s, LAMBDA b : \A i \in 1 .. Len(dropped) : dropped[i] # b)

(***************************************************************************)
(* Nothing that the program wrote is lost but what attach drops: the bytes *)
(* that were in the put area when the stream was attached to another       *)
(* request (fcgio.cpp:146; fcgio.h:58 asks for a flush before).  As long   *)
(* as no write fails the others are in the FCGX streams and the put area,  *)
(* in this order; after a failure the FCGX stream, which goes on taking    *)
(* bytes while it has room (fcgiapp.c:311), has a beginning of them        *)
(* without gap or repetition; and the destructor keeps nothing back        *)
(* (fcgio.cpp:48).                                                         *)
(***************************************************************************)
OutputAccounted ==
    /\ ~out.isClosed => out.got \o put = Kept(accepted)
    /\ \E n \in 0 .. Len(accepted) + 2 : out.got = Kept([i \in 1 .. n |-> i])
    /\ user = "gone" /\ ~out.isClosed => put = <<>>
=============================================================================
