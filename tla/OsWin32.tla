------------------------------ MODULE OsWin32 -------------------------------
(***************************************************************************)
(* libfcgi/os_win32.c: the descriptor table that stands for handles and    *)
(* sockets, OS_Accept and OS_IpcClose of an application, and the I/O       *)
(* through completion ports of cgi-fcgi (the bridge).  Which of the two    *)
(* the process is follows from the handles it was started with; listenType *)
(* tells them apart.                                                       *)
(*                                                                         *)
(* An application has one thread that accepts, the thread that waits for   *)
(* the shutdown event, and competes with other processes for acceptMutex   *)
(* and for the listening handle.  A bridge has its main thread, StdinThread *)
(* and the system, which completes operations in any order.                *)
(***************************************************************************)
EXTENDS Integers, Sequences, FiniteSets

CONSTANTS
    OpenMax,      \* WIN32_OPEN_MAX
    Clients,      \* handles that a Web server's, or the bridge's, connections get
    HListen,      \* the handle that is listened on
    MaxHeld,      \* connections the application has accepted and not closed
    MaxOps        \* asynchronous operations the bridge starts

ASSUME Win32Assumption ==
    /\ OpenMax \in Nat /\ OpenMax > 3
    /\ Clients \subseteq Nat \ {0} /\ HListen \in Nat \ ({0} \cup Clients)

Slots == 0 .. OpenMax - 1
STDIN_FILENO == 0
NoFd == -1

VARIABLES
    listenType,
    fdTable,
    shutdownPending,
    \* the application
    pc,               \* where OS_Accept is
    acceptMutex,      \* "none" if there is none, else its owner or "free"
    held,             \* the descriptors that OS_Accept returned and OS_IpcClose was not kept
    kept,             \* the one that is listened on, and those that OS_IpcClose gave up on
    event,            \* the shutdown event, and how far ShutdownRequestThread is
    sock,             \* the connections to a listening socket or from the bridge
    pipe,             \* the instance of the named pipe that hListen is
    \* the bridge
    stdinThread, stdinPort, ioPort,   \* StdinThread and the queues of the two ports
    ov,               \* operations: OVERLAPPED_REQUESTs, and where they are
    called            \* callbacks per operation

\* Each operation has one history field: valid, whether its descriptor has
\* not been closed since.

appVars == <<pc, acceptMutex, held, kept, event, pipe, shutdownPending>>
portVars == <<stdinThread, stdinPort, ioPort, called>>
ioVars == <<portVars, ov>>
vars == <<listenType, fdTable, sock, appVars, ioVars>>
-----------------------------------------------------------------------------
(* The descriptor table *)

Unused == [type |-> "FD_UNUSED", fid |-> 0, instance |-> 0]
InUse(t) == {i \in Slots : t[i].type # "FD_UNUSED"}
Free(t) == Slots \ InUse(t)
Least(S) == CHOOSE i \in S : \A j \in S : i <= j

\* Seeded fault: the slot of the handle's own number is taken unseen.
BadWin32NewDescriptor(t, handle, desiredFd) ==
    IF desiredFd \in Slots THEN desiredFd
    ELSE IF handle \in Slots THEN handle
    ELSE IF Free(t) \ {0} # {} THEN Least(Free(t) \ {0}) ELSE NoFd

\* The slot for a new descriptor, or NoFd.
Win32NewDescriptor(t, handle, desiredFd) ==
    IF desiredFd \in Slots
    THEN IF desiredFd \in Free(t) THEN desiredFd ELSE NoFd
    ELSE IF handle \in Free(t) \ {0} THEN handle
    ELSE IF Free(t) \ {0} # {} THEN Least(Free(t) \ {0}) ELSE NoFd

\* All fields but instance are reset.
Filled(t, fd, type, handle) == [t EXCEPT ![fd].type = type, ![fd].fid = handle]

\* Nor does it get another instance when it is freed: nothing writes that field.
Win32FreeDescriptor(t, fd) == [t EXCEPT ![fd].type = "FD_UNUSED"]

IsSocket(fd) == fdTable[fd].type \in {"FD_SOCKET_SYNC", "FD_SOCKET_ASYNC"}

\* OS_Close closes a socket, but not the handle of a pipe.
OS_Close(fd) ==
    /\ fdTable' = Win32FreeDescriptor(fdTable, fd)
    /\ sock' = IF IsSocket(fd) THEN [sock EXCEPT ![fdTable[fd].fid] = "closed"] ELSE sock
    /\ ov' = [op \in DOMAIN ov |-> [ov[op] EXCEPT !.valid = @ /\ ov[op].fd # fd]]
-----------------------------------------------------------------------------
(* OS_Accept *)

NamedPipe == "FD_PIPE_SYNC"
Socket == "FD_SOCKET_SYNC"

\* ReleaseMutex does nothing for a thread that does not own the mutex.
ReleaseMutex == IF acceptMutex = "me" THEN "free" ELSE acceptMutex

\* OS_Accept returns -1: the application is told to exit.
Refused == pc' = "told" /\ acceptMutex' = ReleaseMutex

\* OS_LibShutdown also releases the mutex, disconnects the pipe and closes
\* the ports; OS_Accept releases once more on its way out.
OS_LibShutdown == pipe' = IF listenType = NamedPipe THEN "idle" ELSE pipe

Accept ==
    /\ pc = "run" /\ Cardinality(held) < MaxHeld
    /\ IF shutdownPending THEN Refused /\ OS_LibShutdown
       ELSE pc' = "wait" /\ UNCHANGED <<acceptMutex, pipe>>
    /\ UNCHANGED <<listenType, fdTable, sock, held, kept, event, shutdownPending, ioVars>>

\* What the owner of the mutex waits for.  A pipe made by OS_CreateLocalIpcFd
\* is FD_PIPE_ASYNC, which is an unknown listenType here.
Waits == CASE listenType = NamedPipe -> "connect" [] listenType = Socket -> "select"
           [] OTHER -> "told"

\* Seeded fault: the mutex is kept when a shutdown is found pending.
BadWaitForMutex ==
    /\ pc = "wait" /\ acceptMutex \in {"none", "free"}
    /\ IF shutdownPending
       THEN pc' = "told" /\ OS_LibShutdown
            /\ acceptMutex' = IF acceptMutex = "free" THEN "me" ELSE "none"
       ELSE /\ pc' = Waits
            /\ acceptMutex' = IF acceptMutex = "free" /\ Waits # "told" THEN "me" ELSE acceptMutex
            /\ UNCHANGED pipe
    /\ UNCHANGED <<listenType, fdTable, sock, held, kept, event, shutdownPending, ioVars>>

\* The mutex is obtained (also when its owner died), and the flag tested once
\* more.
WaitForMutex ==
    /\ pc = "wait" /\ acceptMutex \in {"none", "free"}
    /\ IF shutdownPending THEN pc' = "told" /\ UNCHANGED acceptMutex /\ OS_LibShutdown
       ELSE /\ pc' = Waits
            /\ acceptMutex' = IF acceptMutex = "free" /\ Waits # "told" THEN "me" ELSE acceptMutex
            /\ UNCHANGED pipe
    /\ UNCHANGED <<listenType, fdTable, sock, held, kept, event, shutdownPending, ioVars>>

\* WaitForSingleObject fails.
WaitFails ==
    /\ pc = "wait" /\ acceptMutex # "none" /\ pc' = "told"
    /\ UNCHANGED <<listenType, fdTable, sock, acceptMutex, held, kept, event, pipe,
                   shutdownPending, ioVars>>

\* acceptNamedPipe: ConnectNamedPipe returns because a client is there, or
\* fails because the last one was not disconnected; either is a connection.
acceptNamedPipe ==
    /\ pc = "connect" /\ pipe \in {"client", "left"}
    /\ LET fd == Win32NewDescriptor(fdTable, HListen, NoFd)
       IN  IF fd = NoFd THEN Refused /\ pipe' = "idle" /\ UNCHANGED <<fdTable, held>>
           ELSE /\ fdTable' = Filled(fdTable, fd, NamedPipe, HListen)
                /\ held' = held \cup {fd}
                /\ pc' = "run" /\ acceptMutex' = ReleaseMutex /\ UNCHANGED pipe
    /\ UNCHANGED <<listenType, sock, kept, event, shutdownPending, ioVars>>

\* acceptSocket: select finds somebody, or fails, which is not told from it.
SelectReturns ==
    /\ pc = "select" /\ \E c \in Clients : sock[c] = "waiting"
    /\ pc' = "accept"
    /\ UNCHANGED <<listenType, fdTable, sock, acceptMutex, held, kept, event, pipe,
                   shutdownPending, ioVars>>

SelectFails ==
    /\ pc = "select" /\ pc' = "accept"
    /\ UNCHANGED <<listenType, fdTable, sock, acceptMutex, held, kept, event, pipe,
                   shutdownPending, ioVars>>

\* select finds nobody for a second.
SelectTimesOut ==
    /\ pc = "select" /\ \A c \in Clients : sock[c] # "waiting"
    /\ shutdownPending
    /\ Refused /\ OS_LibShutdown
    /\ UNCHANGED <<listenType, fdTable, sock, held, kept, event, shutdownPending, ioVars>>

\* WSAAccept waits until a client is there, which need not be the one that
\* select saw; its address may be refused: back to select.
acceptSocket ==
    /\ pc = "accept"
    /\ \E c \in Clients :
          /\ sock[c] = "waiting"
          /\ LET fd == Win32NewDescriptor(fdTable, c, NoFd)
                 open == fd # NoFd
             IN  \/ /\ sock' = [sock EXCEPT ![c] = IF open THEN "open" ELSE "closed"]
                    /\ fdTable' = IF open THEN Filled(fdTable, fd, Socket, c) ELSE fdTable
                    /\ held' = IF open THEN held \cup {fd} ELSE held
                    /\ pc' = IF open THEN "run" ELSE "told"
                    /\ acceptMutex' = ReleaseMutex
                 \/ /\ sock' = [sock EXCEPT ![c] = "closed"] /\ pc' = "select"
                    /\ UNCHANGED <<fdTable, held, acceptMutex>>
    /\ UNCHANGED <<listenType, kept, event, pipe, shutdownPending, ioVars>>

\* WSAAccept fails.
AcceptFails ==
    /\ pc = "accept" /\ Refused
    /\ UNCHANGED <<listenType, fdTable, sock, held, kept, event, pipe, shutdownPending, ioVars>>

\* OS_IpcClose: with a pipe the client must have read everything; if it has
\* left, FlushFileBuffers fails and the descriptor stays in the table.
OS_IpcClose(fd) ==
    /\ pc = "run" /\ fd \in held
    /\ held' = held \ {fd}
    /\ IF listenType = NamedPipe /\ pipe # "client"
       THEN kept' = kept \cup {fd} /\ UNCHANGED <<fdTable, sock, pipe, ov>>
       ELSE /\ OS_Close(fd)
            /\ pipe' = IF listenType = NamedPipe THEN "idle" ELSE pipe
            /\ UNCHANGED kept
    /\ UNCHANGED <<listenType, pc, acceptMutex, event, shutdownPending, portVars>>
-----------------------------------------------------------------------------
(* Shutdown, and the other processes *)

appRest == <<listenType, fdTable, sock, pc, acceptMutex, held, kept, pipe, ioVars>>
IsApplication == pc \notin {"start", "plain", "bridge", "exited"}

SetEvent ==
    /\ event = "unset" /\ IsApplication
    /\ event' = "set" /\ UNCHANGED <<appRest, shutdownPending>>

\* Called by a thread or a signal handler of the application.
OS_ShutdownPending ==
    /\ IsApplication /\ ~shutdownPending
    /\ shutdownPending' = TRUE /\ UNCHANGED <<appRest, event>>

\* Seeded fault: the flag is not set.
BadShutdownRequestThread ==
    /\ event = "set" /\ IsApplication
    /\ event' = IF listenType = NamedPipe THEN "fatal" ELSE "seen"
    /\ UNCHANGED <<appRest, shutdownPending>>

\* It raises SIGTERM, which ends an application that does not handle it, and
\* ends every application that listens on a pipe.
ShutdownRequestThread ==
    /\ event = "set" /\ IsApplication
    /\ event' \in IF listenType = NamedPipe THEN {"fatal"} ELSE {"fatal", "seen"}
    /\ shutdownPending' = TRUE /\ UNCHANGED appRest

\* exit, by the application that was told to, or by ShutdownRequestThread
\* whatever the other thread is doing.
Exit ==
    /\ pc = "told" \/ (event = "fatal" /\ pc # "exited")
    /\ pc' = "exited" /\ acceptMutex' = ReleaseMutex
    /\ fdTable' = [i \in Slots |-> Unused] /\ held' = {} /\ kept' = {}
    /\ sock' = [c \in Clients |-> IF sock[c] = "open" THEN "closed" ELSE sock[c]]
    /\ UNCHANGED <<listenType, event, pipe, shutdownPending, ioVars>>

OtherProcess ==
    /\ \/ acceptMutex = "free" /\ acceptMutex' = "other"
       \/ acceptMutex = "other" /\ acceptMutex' = "free"
    /\ UNCHANGED <<listenType, fdTable, sock, pc, held, kept, event, pipe, shutdownPending,
                   ioVars>>

\* A client connects to the socket or to the pipe, or leaves the pipe.
Client ==
    /\ \/ \E c \in Clients : listenType = Socket /\ sock[c] = "none"
             /\ sock' = [sock EXCEPT ![c] = "waiting"] /\ UNCHANGED pipe
       \/ listenType = NamedPipe /\ pipe = "idle" /\ pipe' = "client" /\ UNCHANGED sock
       \/ listenType = NamedPipe /\ pipe = "client" /\ pipe' = "left" /\ UNCHANGED sock
    /\ UNCHANGED <<listenType, fdTable, pc, acceptMutex, held, kept, event, shutdownPending,
                   ioVars>>

\* A client that waits leaves, or is accepted by another process that has the
\* socket: with no mutex in the environment nothing keeps them apart.
ClientLost ==
    /\ \E c \in Clients : sock[c] = "waiting" /\ sock' = [sock EXCEPT ![c] = "closed"]
    /\ UNCHANGED <<listenType, fdTable, appVars, ioVars>>
-----------------------------------------------------------------------------
(* Asynchronous I/O *)

Ops == 1 .. Len(ov)
bridgeRest == <<listenType, appVars>>

\* OS_FcgiConnect to a named pipe: the handle is associated with ioPort, which
\* may fail.
ConnectPipe ==
    /\ pc = "bridge"
    /\ \E c \in Clients :
          /\ sock[c] = "none"
          /\ LET fd == Win32NewDescriptor(fdTable, c, NoFd)
             IN  \/ /\ fd # NoFd
                    /\ fdTable' = Filled(fdTable, fd, "FD_PIPE_ASYNC", c)
                    /\ sock' = [sock EXCEPT ![c] = "open"]
                 \/ sock' = [sock EXCEPT ![c] = "closed"] /\ UNCHANGED fdTable
    /\ UNCHANGED <<bridgeRest, ioVars>>

\* OS_FcgiConnect to a TCP port: connect's result is tested the wrong way
\* round.  A socket that is connected is closed and the call fails; one that
\* is not gets a descriptor.
ConnectSocket ==
    /\ pc = "bridge"
    /\ \E c \in Clients :
          /\ sock[c] = "none"
          /\ LET fd == Win32NewDescriptor(fdTable, c, NoFd)
             IN  \/ /\ fd # NoFd
                    /\ fdTable' = Filled(fdTable, fd, Socket, c)
                    /\ sock' = [sock EXCEPT ![c] = "open"]
                 \/ sock' = [sock EXCEPT ![c] = "closed"] /\ UNCHANGED fdTable
    /\ UNCHANGED <<bridgeRest, ioVars>>

\* The socket is made non-blocking and associated with ioPort.
OS_SetFlags(fd) ==
    /\ pc = "bridge" /\ fdTable[fd].type = Socket
    /\ fdTable' = [fdTable EXCEPT ![fd].type = "FD_SOCKET_ASYNC"]
    /\ UNCHANGED <<bridgeRest, sock, ioVars>>

\* A new OVERLAPPED_REQUEST
Request(fd, place) ==
    [fd |-> fd, fid |-> fdTable[fd].fid, instance |-> fdTable[fd].instance, place |-> place,
     valid |-> TRUE]

OS_AsyncReadStdin ==
    /\ pc = "bridge" /\ Len(ov) < MaxOps /\ stdinThread # "none"
    /\ fdTable[STDIN_FILENO].type # "FD_UNUSED"
    /\ ov' = Append(ov, Request(STDIN_FILENO, "stdinPort"))
    /\ stdinPort' = Append(stdinPort, Len(ov'))
    /\ called' = Append(called, 0)
    /\ UNCHANGED <<bridgeRest, fdTable, sock, stdinThread, ioPort>>

\* Seeded fault: the completion of an operation that fails is not posted.
BadOS_AsyncStart(fd) ==
    /\ pc = "bridge" /\ Len(ov) < MaxOps
    /\ fdTable[fd].type \in {"FD_PIPE_ASYNC", "FD_SOCKET_ASYNC"}
    /\ called' = Append(called, 0)
    /\ \/ fdTable[fd].type = "FD_PIPE_ASYNC" /\ ov' = Append(ov, Request(fd, "system"))
       \/ ov' = Append(ov, Request(fd, "ioPort"))
    /\ UNCHANGED <<bridgeRest, fdTable, sock, stdinThread, stdinPort, ioPort>>

\* OS_AsyncRead and OS_AsyncWrite: ReadFile or WriteFile succeeds or is
\* pending, and the system completes the operation later; or it fails, as it
\* does with every socket of ConnectSocket, and the completion is posted
\* here, whatever is returned.
OS_AsyncStart(fd) ==
    /\ pc = "bridge" /\ Len(ov) < MaxOps
    /\ fdTable[fd].type \in {"FD_PIPE_ASYNC", "FD_SOCKET_ASYNC"}
    /\ called' = Append(called, 0)
    /\ \/ /\ fdTable[fd].type = "FD_PIPE_ASYNC"
          /\ ov' = Append(ov, Request(fd, "system")) /\ UNCHANGED ioPort
       \/ ov' = Append(ov, Request(fd, "ioPort")) /\ ioPort' = Append(ioPort, Len(ov'))
    /\ UNCHANGED <<bridgeRest, fdTable, sock, stdinThread, stdinPort>>

\* The system completes an operation, in any order; the handle is still open,
\* for OS_Close does not close that of a pipe.
SystemCompletes ==
    /\ \E op \in Ops :
          /\ ov[op].place = "system"
          /\ ov' = [ov EXCEPT ![op].place = "ioPort"]
          /\ ioPort' = Append(ioPort, op)
    /\ UNCHANGED <<bridgeRest, fdTable, sock, stdinThread, stdinPort, called>>

\* Seeded fault: the completion is posted twice.
BadStdinThread ==
    /\ stdinThread = "running" /\ stdinPort # <<>>
    /\ stdinPort' = Tail(stdinPort)
    /\ ov' = [ov EXCEPT ![Head(stdinPort)].place = "ioPort"]
    /\ ioPort' = ioPort \o <<Head(stdinPort), Head(stdinPort)>>
    /\ UNCHANGED <<bridgeRest, fdTable, sock, stdinThread, called>>

\* StdinThread: it stops when ReadFile fails, and posts nothing then.
StdinThread ==
    /\ stdinThread = "running" /\ stdinPort # <<>>
    /\ stdinPort' = Tail(stdinPort)
    /\ \/ /\ ov' = [ov EXCEPT ![Head(stdinPort)].place = "ioPort"]
          /\ ioPort' = Append(ioPort, Head(stdinPort))
          /\ UNCHANGED stdinThread
       \/ /\ stdinThread' = "stopped"
          /\ UNCHANGED <<ov, ioPort>>
    /\ UNCHANGED <<bridgeRest, fdTable, sock, called>>

\* One turn of the loop in OS_DoIo: the callback is called if the instance of
\* the descriptor is that of the operation.
OS_DoIo ==
    /\ ioPort # <<>>
    /\ LET op == Head(ioPort)
       IN  /\ ov' = [ov EXCEPT ![op].place = "freed"]
           /\ called' = IF ov[op].instance = fdTable[ov[op].fd].instance
                        THEN [called EXCEPT ![op] = @ + 1] ELSE called
    /\ ioPort' = Tail(ioPort)
    /\ UNCHANGED <<bridgeRest, fdTable, sock, stdinThread, stdinPort>>

BridgeCloses(fd) ==
    /\ pc = "bridge" /\ fd \in InUse(fdTable) /\ fd > 2
    /\ OS_Close(fd)
    /\ UNCHANGED <<bridgeRest, portVars>>
-----------------------------------------------------------------------------
(* Start *)

Init ==
    /\ pc = "start" /\ listenType = "FD_UNUSED"
    /\ fdTable = [i \in Slots |-> Unused]
    /\ acceptMutex = "none" /\ shutdownPending = FALSE /\ event = "unset"
    /\ held = {} /\ kept = {} /\ stdinThread = "none"
    /\ sock = [c \in Clients |-> "none"] /\ pipe = "idle"
    /\ stdinPort = <<>> /\ ioPort = <<>> /\ ov = <<>> /\ called = <<>>

\* OS_LibInit of an application: a server has started it, with a pipe or a
\* socket as its stdin, or it will call OS_CreateLocalIpcFd.  The mutex is in
\* the environment or not.
InitApplication ==
    /\ pc = "start"
    /\ listenType' \in {"FD_UNUSED", NamedPipe, Socket}
    /\ pc' = IF listenType' = "FD_UNUSED" THEN "plain" ELSE "run"
    /\ acceptMutex' \in {"none", "free"}
    /\ UNCHANGED <<fdTable, sock, held, kept, event, pipe, shutdownPending, ioVars>>

\* OS_LibInit of the bridge: the three handles get the descriptors of the same
\* numbers, and StdinThread is started if there is something to read.
InitBridge ==
    /\ pc = "start" /\ pc' = "bridge"
    /\ fdTable' = [i \in Slots |-> IF i < 3 THEN [Unused EXCEPT !.type = NamedPipe]
                                   ELSE Unused]
    /\ stdinThread' \in {"running", "none"}
    /\ UNCHANGED <<listenType, acceptMutex, sock, held, kept, event, pipe, shutdownPending,
                   stdinPort, ioPort, ov, called>>

\* A TCP port or a named pipe; the descriptor stays in the table.
OS_CreateLocalIpcFd ==
    /\ pc = "plain" /\ pc' = "run"
    /\ listenType' \in {Socket, "FD_PIPE_ASYNC"}
    /\ acceptMutex' = IF acceptMutex = "none" THEN "free" ELSE acceptMutex
    /\ LET fd == Win32NewDescriptor(fdTable, HListen, NoFd)
       IN  fdTable' = Filled(fdTable, fd, listenType', HListen) /\ kept' = {fd}
    /\ UNCHANGED <<sock, held, event, pipe, shutdownPending, ioVars>>

Next ==
    \/ InitApplication \/ InitBridge \/ OS_CreateLocalIpcFd
    \/ Accept \/ WaitForMutex \/ WaitFails \/ acceptNamedPipe
    \/ SelectReturns \/ SelectFails \/ SelectTimesOut \/ acceptSocket \/ AcceptFails
    \/ \E fd \in Slots : OS_IpcClose(fd) \/ OS_SetFlags(fd) \/ OS_AsyncStart(fd) \/ BridgeCloses(fd)
    \/ SetEvent \/ OS_ShutdownPending \/ ShutdownRequestThread \/ Exit \/ OtherProcess
    \/ Client \/ ClientLost
    \/ ConnectPipe \/ ConnectSocket \/ OS_AsyncReadStdin \/ SystemCompletes \/ StdinThread \/ OS_DoIo

Spec == Init /\ [][Next]_vars

(***************************************************************************)
(* Fairness is only about this process: its threads make progress, select  *)
(* times out or returns, and the application calls OS_Accept again.  The   *)
(* mutex, once it is released often enough, is obtained in the end.        *)
(* Nothing is assumed of other processes, which may keep the mutex for     *)
(* ever, of clients, of the operations that the system has, or of the      *)
(* ReadFile that StdinThread waits in.                                     *)
(***************************************************************************)
FairSpec ==
    /\ Spec
    /\ SF_vars(WaitForMutex)
    /\ WF_vars(Accept) /\ WF_vars(SelectReturns) /\ WF_vars(SelectTimesOut)
    /\ WF_vars(acceptSocket)
    /\ WF_vars(ShutdownRequestThread) /\ WF_vars(Exit)
    /\ WF_vars(OS_DoIo)
-----------------------------------------------------------------------------
(* Properties *)

(***************************************************************************)
(* Handles and descriptors match, also when the table is full, the handle  *)
(* has the number of a used slot, or a step of OS_Accept or OS_IpcClose    *)
(* fails: two descriptors never share a socket, a socket that is open has  *)
(* its descriptor, and the application can name every descriptor except    *)
(* the ones that an OS_IpcClose with nobody at the other end left behind   *)
(* (os_win32.c:1813).                                                      *)
(***************************************************************************)
HandlesMatch ==
    /\ \A i, j \in Slots : IsSocket(i) /\ IsSocket(j) /\ i # j => fdTable[i].fid # fdTable[j].fid
    /\ \A i \in Slots : IsSocket(i) /\ fdTable[i].fid # HListen => sock[fdTable[i].fid] = "open"
    /\ \A c \in Clients : sock[c] = "open" /\ pc # "bridge" =>
          \E i \in InUse(fdTable) : fdTable[i].fid = c
    /\ pc # "bridge" => InUse(fdTable) = held \cup kept

(***************************************************************************)
(* The mutex is ours exactly while OS_Accept waits for a client, so that   *)
(* no way out of it, a shutdown, a full table, a failed accept or exit in  *)
(* another thread, leaves the other processes without it                   *)
(* (os_win32.c:1775).                                                      *)
(***************************************************************************)
MutexWhileAccepting ==
    acceptMutex # "none" => (acceptMutex = "me" <=> pc \in {"connect", "select", "accept"})

(***************************************************************************)
(* After the shutdown event the application exits, or OS_Accept tells it   *)
(* to: ShutdownRequestThread ends a process that waits for a pipe, and the *)
(* one second time-out of select shows the others the flag.  There are two *)
(* waits without a limit: for a mutex that another process keeps           *)
(* (os_win32.c:1749), and in WSAAccept for a client that is gone when      *)
(* select has seen it (os_win32.c:1677).                                   *)
(***************************************************************************)
ShutdownEnds ==
    (event = "set" /\ IsApplication) ~>
        \/ pc \in {"told", "exited"}
        \/ [](pc = "wait" /\ acceptMutex = "other")
        \/ [](pc = "accept" /\ \A c \in Clients : sock[c] # "waiting")

(***************************************************************************)
(* However the completion of an operation was posted (by the system, by    *)
(* StdinThread, or by OS_AsyncRead itself when it fails), in whatever      *)
(* order, and whatever was closed in between, OS_DoIo calls its callback   *)
(* at most once, never before it has taken the completion from the port,   *)
(* and passes it over only for a descriptor that has been closed           *)
(* (os_win32.c:1502).                                                      *)
(***************************************************************************)
CalledOnce ==
    \A op \in Ops :
        /\ called[op] <= 1
        /\ called[op] = 1 => ov[op].place = "freed"
        /\ ov[op].place = "freed" /\ called[op] = 0 => ~ ov[op].valid

(***************************************************************************)
(* An operation on a descriptor that stays open is answered, unless the    *)
(* system never completes it or StdinThread never comes to it, as when it  *)
(* has stopped behind a failed read (os_win32.c:254): one that failed at   *)
(* its start, too, has a completion in the port (os_win32.c:1224).         *)
(***************************************************************************)
Answered ==
    \A op \in 1 .. MaxOps :
        (op \in Ops) ~>
            \/ op \in Ops /\ (called[op] = 1 \/ ~ ov[op].valid)
            \/ [](op \in Ops /\ ov[op].place \in {"system", "stdinPort"})

(***************************************************************************)
(* "file instance (won't match after a close)" (os_win32.c:111) and "call  *)
(* callback if descriptor still valid" (os_win32.c:1500): no callback for  *)
(* an operation on a descriptor that has been closed since.  No descriptor *)
(* ever gets another instance, so the code does call it.                   *)
(***************************************************************************)
NoCallbackAfterClose ==
    [][\A op \in DOMAIN called : called'[op] > called[op] => ov[op].valid]_called
=============================================================================
