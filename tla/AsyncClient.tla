---------------------------- MODULE AsyncClient -----------------------------
(***************************************************************************)
(* Any single-threaded client of the asynchronous I/O of os_unix.c: it     *)
(* starts reads and writes, closes descriptors and calls OS_DoIo in a      *)
(* loop.  Operations are started and descriptors closed between two calls  *)
(* of OS_DoIo and, since the callbacks run inside it, while OS_DoIo is     *)
(* dispatching.                                                            *)
(***************************************************************************)
EXTENDS AsyncIo

CONSTANTS
    MaxOps,        \* bound: operations started or cancelled
    CloseOutside,  \* TRUE: descriptors are closed between calls of OS_DoIo
    CloseInside    \* TRUE: a callback closes descriptors

ASSUME ClientAssumption ==
    MaxOps \in Nat /\ {CloseOutside, CloseInside} \subseteq BOOLEAN

VARIABLES
    aio,           \* the state of the asynchronous I/O
    pc,            \* "client", "dispatch" (in OS_DoIo) or "callback"
    from,          \* the loop of OS_DoIo has reached this index
    readable,      \* descriptors with something to read
    writable,      \* descriptors that take something
    ops            \* operations so far

vars == <<aio, pc, from, readable, writable, ops>>

InClient == pc \in {"client", "callback"}

Counted == ops < MaxOps /\ ops' = ops + 1

StartRead(fd) ==
    /\ InClient /\ Counted
    /\ fd \notin aio.rdUse                     \* ASSERT(inUse == 0)
    /\ aio' = OS_AsyncRead(aio, fd)
    /\ UNCHANGED <<pc, from, readable, writable>>

StartWrite(fd) ==
    /\ InClient /\ Counted
    /\ fd \notin aio.wrUse
    /\ aio' = OS_AsyncWrite(aio, fd)
    /\ UNCHANGED <<pc, from, readable, writable>>

MayClose == (pc = "client" /\ CloseOutside) \/ (pc = "callback" /\ CloseInside)

\* The descriptor is closed; a new one of the same number is not ready.
Close(fd) ==
    /\ MayClose /\ Counted
    /\ aio' = OS_Close(aio, fd)
    /\ readable' = readable \ {fd} /\ writable' = writable \ {fd}
    /\ UNCHANGED <<pc, from>>

\* shutdown(fd, 0) makes the descriptor readable: it is at end of file.
CloseRead(fd) ==
    /\ MayClose /\ Counted
    /\ fd \in aio.rdUse
    /\ aio' = OS_CloseRead(aio, fd)
    /\ readable' = readable \cup {fd}
    /\ UNCHANGED <<pc, from, writable>>

\* OS_DoIo is called.  With nothing left over it blocks in select(2).
DoIo ==
    LET R == SelectReads(aio, readable)
        W == SelectWrites(aio, writable)
    IN  /\ pc = "client"
        /\ NothingPosted(aio) => R \cup W # {}
        /\ aio' = [IF NothingPosted(aio) THEN Posted(aio, R, W) ELSE aio
                     EXCEPT !.asyncIoInUse = TRUE]
        /\ pc' = "dispatch" /\ from' = 0
        /\ UNCHANGED <<readable, writable, ops>>

\* The next event: read or write, then the callback.  The descriptor may or
\* may not be ready for more.
Dispatch ==
    LET ix == First(Events(aio, from))
        fd == ix \div 2
    IN  /\ pc = "dispatch" /\ Events(aio, from) # {}
        /\ aio' = Completed(aio, ix)
        /\ from' = ix + 1
        /\ pc' = "callback"
        /\ readable' \in IF ix % 2 = 0 THEN {readable, readable \ {fd}} ELSE {readable}
        /\ writable' \in IF ix % 2 = 1 THEN {writable, writable \ {fd}} ELSE {writable}
        /\ UNCHANGED ops

CallbackReturns ==
    /\ pc = "callback"
    /\ pc' = "dispatch"
    /\ UNCHANGED <<aio, from, readable, writable, ops>>

DoIoReturns ==
    /\ pc = "dispatch" /\ Events(aio, from) = {}
    /\ pc' = "client"
    /\ UNCHANGED <<aio, from, readable, writable, ops>>

\* The other end of a connection.
Peer(fd) ==
    /\ \/ fd \notin readable /\ readable' = readable \cup {fd} /\ UNCHANGED writable
       \/ fd \notin writable /\ writable' = writable \cup {fd} /\ UNCHANGED readable
    /\ UNCHANGED <<aio, pc, from, ops>>

Init ==
    /\ aio = OS_LibInit
    /\ pc = "client" /\ from = 0
    /\ readable = {} /\ writable = {} /\ ops = 0

Loop == DoIo \/ Dispatch \/ CallbackReturns \/ DoIoReturns

Next ==
    \/ Loop
    \/ \E fd \in Fds : StartRead(fd) \/ StartWrite(fd) \/ Close(fd) \/ CloseRead(fd) \/ Peer(fd)

Spec == Init /\ [][Next]_vars

\* The client goes on calling OS_DoIo, and its callbacks return.
FairSpec == Spec /\ WF_vars(Loop)

(***************************************************************************)
(* Properties                                                              *)
(***************************************************************************)

(***************************************************************************)
(* The operations in progress are those that OS_DoIo will find: each one   *)
(* waits for select(2) or for its dispatch, never for both; its descriptor *)
(* is within maxFd, its entry within the table; and the counters that      *)
(* decide whether select(2) is called count exactly the posted events.     *)
(***************************************************************************)
Accounted ==
    /\ aio.rdUse = aio.readFdSet \cup aio.readFdSetPost
    /\ aio.wrUse = aio.writeFdSet \cup aio.writeFdSetPost
    /\ aio.readFdSet \cap aio.readFdSetPost = {}
    /\ aio.writeFdSet \cap aio.writeFdSetPost = {}
    /\ \A fd \in aio.rdUse \cup aio.wrUse : fd <= aio.maxFd
    /\ \A fd \in aio.rdUse : AIO_RD_IX(fd) < aio.asyncIoTableSize
    /\ \A fd \in aio.wrUse : AIO_WR_IX(fd) < aio.asyncIoTableSize
    /\ aio.numRdPosted = Cardinality(aio.readFdSetPost)
    /\ aio.numWrPosted = Cardinality(aio.writeFdSetPost)

(***************************************************************************)
(* "Its purpose is to pull I/O completion events off the queue and         *)
(* dispatch them" (OS_DoIo): an operation on a descriptor that is ready is *)
(* dispatched (or cancelled) in the end.                                   *)
(***************************************************************************)
Dispatched ==
    \A fd \in Fds :
      /\ (fd \in aio.rdUse /\ fd \in readable) ~> (fd \notin aio.rdUse \/ fd \notin readable)
      /\ (fd \in aio.wrUse /\ fd \in writable) ~> (fd \notin aio.wrUse \/ fd \notin writable)
=============================================================================
