---------------------------- MODULE OsWin32Proofs ---------------------------
(***************************************************************************)
(* Proofs about OsWin32, for every size of the descriptor table, every set *)
(* of handles, any number of connections and asynchronous operations, and  *)
(* every order in which the system completes them.                         *)
(***************************************************************************)
EXTENDS OsWin32, SequenceTheorems, NatSetProofs, TLAPS

DescriptorTypes ==
    {"FD_UNUSED", "FD_SOCKET_SYNC", "FD_SOCKET_ASYNC", "FD_PIPE_SYNC", "FD_PIPE_ASYNC"}

\* The descriptor tables there can be.
Tables == [Slots -> [type : DescriptorTypes, fid : Nat, instance : Int]]

SocketType(e) == e.type \in {"FD_SOCKET_SYNC", "FD_SOCKET_ASYNC"}

TableTyped ==
    /\ fdTable \in Tables
    /\ sock \in [Clients -> {"none", "waiting", "open", "closed"}]
    /\ held \subseteq Slots /\ kept \subseteq Slots

\* A socket in the table is open, and in the table once.
SocketsOpen ==
    \A i \in Slots : SocketType(fdTable[i]) =>
        /\ fdTable[i].fid \in Clients \cup {HListen}
        /\ fdTable[i].fid \in Clients => sock[fdTable[i].fid] = "open"
        /\ \A j \in Slots : SocketType(fdTable[j]) /\ i # j => fdTable[i].fid # fdTable[j].fid

\* An application's open socket is in the table, as a socket.
SocketsKnown ==
    pc # "bridge" =>
        \A c \in Clients : sock[c] = "open" =>
            \E i \in Slots : SocketType(fdTable[i]) /\ fdTable[i].fid = c

\* An application can name its descriptors, in one way.
DescriptorsNamed ==
    pc # "bridge" => InUse(fdTable) = held \cup kept /\ held \cap kept = {}

\* Before OS_LibInit is through there is nothing.
NothingYet ==
    pc \in {"start", "plain"} =>
        /\ InUse(fdTable) = {}
        /\ \A c \in Clients : sock[c] # "open"

TableInv == TableTyped /\ SocketsOpen /\ SocketsKnown /\ DescriptorsNamed /\ NothingYet

\* acceptMutex has no owner but this process and another one.
MutexInv ==
    /\ acceptMutex \in {"none", "free", "me", "other"}
    /\ MutexWhileAccepting

Places == {"system", "stdinPort", "ioPort", "freed"}

Operation == [fd : Slots, fid : Nat, instance : Int, place : Places, valid : BOOLEAN]

IoTyped ==
    /\ ov \in Seq(Operation)
    /\ called \in Seq(Nat) /\ Len(called) = Len(ov)
    /\ stdinPort \in Seq(Nat) /\ ioPort \in Seq(Nat)

\* The operations that are at a place.
At(place) == {op \in Ops : ov[op].place = place}

\* A port holds the operations whose completion it stands for, each once.
Queued(port, place) ==
    /\ \A k \in DOMAIN port : port[k] \in At(place)
    /\ \A k, l \in DOMAIN port : port[k] = port[l] => k = l

\* No descriptor ever gets another instance, so that none is ever missed.
OneInstance ==
    /\ \A i \in Slots : fdTable[i].instance = 0
    /\ \A op \in Ops : ov[op].instance = 0

\* An operation is called back when its completion is taken from the port,
\* because every instance matches.
CalledWhenFreed == \A op \in Ops : called[op] = IF ov[op].place = "freed" THEN 1 ELSE 0

IoInv ==
    /\ IoTyped /\ OneInstance
    /\ Queued(stdinPort, "stdinPort") /\ Queued(ioPort, "ioPort")
    /\ CalledWhenFreed

-----------------------------------------------------------------------------
(* The descriptor table *)

\* The lowest of the free slots is one of them.
LEMMA LeastLemma ==
    ASSUME NEW S, S \subseteq Nat, S # {}
    PROVE  Least(S) \in S
BY LeastElement DEF Least

\* Win32NewDescriptor returns a slot that is free, or none; none only if the
\* table is full.
LEMMA NewDescriptorLemma ==
    ASSUME NEW t, NEW handle
    PROVE  LET fd == Win32NewDescriptor(t, handle, NoFd)
           IN  /\ fd # NoFd => fd \in Slots /\ t[fd].type = "FD_UNUSED"
               /\ InUse(t) = {} => fd # NoFd
<1>1. Free(t) \ {0} \subseteq Nat
  BY Win32Assumption DEF Free, Slots
<1>2. Free(t) \ {0} # {} => Least(Free(t) \ {0}) \in Free(t) \ {0}
  BY <1>1, LeastLemma
<1>3. NoFd \notin Slots
  BY DEF NoFd, Slots
<1>4. InUse(t) = {} => 1 \in Free(t) \ {0}
  BY Win32Assumption DEF Free, Slots
<1>5. NoFd \notin Free(t) \ {0}
  BY <1>3 DEF Free
<1>6. \A fd \in Free(t) : fd \in Slots /\ t[fd].type = "FD_UNUSED"
  BY DEF Free, InUse
<1> QED
  BY <1>2, <1>3, <1>4, <1>5, <1>6 DEF Win32NewDescriptor

\* Filling a slot changes that slot only.
LEMMA FilledLemma ==
    ASSUME NEW t \in Tables, NEW fd \in Slots, NEW type \in DescriptorTypes,
           NEW handle \in Nat
    PROVE  LET u == Filled(t, fd, type, handle)
           IN  /\ u \in Tables
               /\ u[fd].type = type /\ u[fd].fid = handle
               /\ u[fd].instance = t[fd].instance
               /\ \A i \in Slots \ {fd} : u[i] = t[i]
BY DEF Filled, Tables

\* So does freeing one, which keeps the handle in it.
LEMMA FreeDescriptorLemma ==
    ASSUME NEW t \in Tables, NEW fd \in Slots
    PROVE  LET u == Win32FreeDescriptor(t, fd)
           IN  /\ u \in Tables
               /\ u[fd].type = "FD_UNUSED"
               /\ u[fd].instance = t[fd].instance
               /\ \A i \in Slots \ {fd} : u[i] = t[i]
BY DEF Win32FreeDescriptor, Tables, DescriptorTypes

(***************************************************************************)
(* A connection c that is not open yet gets a free descriptor: as a socket *)
(* or, in the bridge, as a pipe.                                           *)
(***************************************************************************)
LEMMA NewSocketLemma ==
    ASSUME TableInv, NEW c \in Clients, sock[c] # "open",
           NEW fd \in Slots, fdTable[fd].type = "FD_UNUSED",
           NEW type \in {"FD_SOCKET_SYNC", "FD_PIPE_ASYNC"},
           fdTable' = Filled(fdTable, fd, type, c),
           sock' = [sock EXCEPT ![c] = "open"], kept' = kept,
           \/ pc' = "bridge" /\ held' = held
           \/ pc \notin {"bridge"} /\ pc' = "run" /\ type = "FD_SOCKET_SYNC"
              /\ held' = held \cup {fd}
    PROVE  TableInv'
<1> USE DEF TableInv, TableTyped
<1>1. c \in Nat /\ type \in DescriptorTypes /\ c # HListen
  BY Win32Assumption DEF DescriptorTypes
<1>2. /\ fdTable' \in Tables
      /\ fdTable'[fd].type = type /\ fdTable'[fd].fid = c
      /\ \A i \in Slots \ {fd} : fdTable'[i] = fdTable[i]
  BY <1>1, FilledLemma
<1>3. TableTyped'
  BY <1>2
<1>4. SocketsOpen'
  BY <1>1, <1>2 DEF SocketsOpen, SocketType
<1>5. SocketsKnown'
  BY <1>2 DEF SocketsKnown, SocketType
<1>6. DescriptorsNamed'
  <2>1. InUse(fdTable)' = InUse(fdTable) \cup {fd}
    BY <1>2 DEF InUse
  <2>2. fd \notin InUse(fdTable)
    BY DEF InUse
  <2> QED
    BY <2>1, <2>2 DEF DescriptorsNamed
<1>7. NothingYet'
  BY DEF NothingYet
<1> QED
  BY <1>3, <1>4, <1>5, <1>6, <1>7

\* OS_Close of a descriptor in use, by the application or the bridge.
LEMMA CloseLemma ==
    ASSUME TableInv, NEW fd \in Slots, OS_Close(fd), pc' = pc, kept' = kept,
           pc \in {"run", "bridge"},
           pc = "run" => fd \in held /\ held' = held \ {fd},
           pc = "bridge" => held' = held
    PROVE  TableInv'
<1> USE DEF TableInv, TableTyped
<1>1. /\ fdTable' \in Tables
      /\ fdTable'[fd].type = "FD_UNUSED"
      /\ \A i \in Slots \ {fd} : fdTable'[i] = fdTable[i]
  BY FreeDescriptorLemma DEF OS_Close
<1>2. /\ sock' \in [Clients -> {"none", "waiting", "open", "closed"}]
      /\ \A c \in Clients :
            IF SocketType(fdTable[fd]) /\ fdTable[fd].fid = c THEN sock'[c] = "closed"
            ELSE sock'[c] = sock[c]
  BY DEF OS_Close, IsSocket, SocketType
<1>3. TableTyped'
  BY <1>1, <1>2
<1>4. SocketsOpen'
  BY <1>1, <1>2 DEF SocketsOpen, SocketType
<1>5. SocketsKnown'
  BY <1>1, <1>2 DEF SocketsKnown
<1>6. DescriptorsNamed'
  <2>1. InUse(fdTable)' = InUse(fdTable) \ {fd}
    BY <1>1 DEF InUse
  <2> QED
    BY <2>1 DEF DescriptorsNamed
<1>7. NothingYet'
  BY DEF NothingYet
<1> QED
  BY <1>3, <1>4, <1>5, <1>6, <1>7

\* The table stays as it is and no connection becomes open or is closed.
LEMMA SameTableLemma ==
    ASSUME TableInv, UNCHANGED <<fdTable, held, kept>>,
           sock' \in [Clients -> {"none", "waiting", "open", "closed"}],
           \A c \in Clients : sock'[c] = "open" <=> sock[c] = "open",
           pc' = "bridge" <=> pc = "bridge",
           pc' \in {"start", "plain"} => pc \in {"start", "plain"}
    PROVE  TableInv'
<1> USE DEF TableInv, TableTyped
<1>1. SocketsOpen'
  BY DEF SocketsOpen
<1>2. SocketsKnown'
  BY DEF SocketsKnown
<1> QED
  BY <1>1, <1>2 DEF DescriptorsNamed, NothingYet

\* OS_Accept on a named pipe: another descriptor for the handle that is listened on.
LEMMA PipeAccepted ==
    ASSUME TableInv, acceptNamedPipe
    PROVE  TableInv'
<1> USE DEF TableInv, TableTyped
<1> DEFINE fd == Win32NewDescriptor(fdTable, HListen, NoFd)
<1>1. CASE fd = NoFd
  BY <1>1, SameTableLemma DEF acceptNamedPipe, Refused
<1>2. CASE fd # NoFd
  <2>1. /\ fdTable' = Filled(fdTable, fd, "FD_PIPE_SYNC", HListen)
        /\ held' = held \cup {fd} /\ pc' = "run" /\ pc = "connect"
        /\ UNCHANGED <<sock, kept>>
    BY <1>2 DEF acceptNamedPipe, NamedPipe
  <2>2. fd \in Slots /\ fdTable[fd].type = "FD_UNUSED"
    BY <1>2, NewDescriptorLemma
  <2> HIDE DEF fd
  <2>3. HListen \in Nat /\ "FD_PIPE_SYNC" \in DescriptorTypes
    BY Win32Assumption DEF DescriptorTypes
  <2>4. /\ fdTable' \in Tables /\ fdTable'[fd].type = "FD_PIPE_SYNC"
        /\ \A i \in Slots \ {fd} : fdTable'[i] = fdTable[i]
    BY <2>1, <2>2, <2>3, FilledLemma
  <2>5. SocketsOpen'
    BY <2>1, <2>2, <2>4 DEF SocketsOpen, SocketType
  <2>6. SocketsKnown'
    BY <2>1, <2>2, <2>4 DEF SocketsKnown, SocketType
  <2>7. DescriptorsNamed'
    <3>1. InUse(fdTable)' = InUse(fdTable) \cup {fd} /\ fd \notin InUse(fdTable)
      BY <2>2, <2>4 DEF InUse
    <3> QED
      BY <2>1, <3>1 DEF DescriptorsNamed
  <2>8. NothingYet'
    BY <2>1 DEF NothingYet
  <2> QED
    BY <2>1, <2>2, <2>4, <2>5, <2>6, <2>7, <2>8
<1> QED
  BY <1>1, <1>2

\* WSAAccept of a client, which is refused or gets a descriptor or none.
LEMMA SocketAccepted ==
    ASSUME TableInv, acceptSocket
    PROVE  TableInv'
<1> PICK c \in Clients :
      /\ sock[c] = "waiting"
      /\ LET fd == Win32NewDescriptor(fdTable, c, NoFd)
             open == fd # NoFd
         IN  \/ /\ sock' = [sock EXCEPT ![c] = IF open THEN "open" ELSE "closed"]
                /\ fdTable' = IF open THEN Filled(fdTable, fd, Socket, c) ELSE fdTable
                /\ held' = IF open THEN held \cup {fd} ELSE held
                /\ pc' = IF open THEN "run" ELSE "told"
             \/ /\ sock' = [sock EXCEPT ![c] = "closed"]
                /\ UNCHANGED <<fdTable, held>> /\ pc' = "select"
  BY DEF acceptSocket
<1> DEFINE fd == Win32NewDescriptor(fdTable, c, NoFd)
<1>1. kept' = kept /\ pc = "accept"
  BY DEF acceptSocket
<1>2. fd # NoFd => fd \in Slots /\ fdTable[fd].type = "FD_UNUSED"
  BY NewDescriptorLemma
<1>3. CASE sock' = [sock EXCEPT ![c] = "closed"] /\ UNCHANGED <<fdTable, held>>
           /\ pc' \in {"select", "told"}
  BY <1>1, <1>3, SameTableLemma DEF TableInv, TableTyped
<1>4. CASE /\ fd # NoFd /\ sock' = [sock EXCEPT ![c] = "open"]
           /\ fdTable' = Filled(fdTable, fd, Socket, c)
           /\ held' = held \cup {fd} /\ pc' = "run"
  <2> HIDE DEF fd
  <2> QED
    BY <1>1, <1>2, <1>4, NewSocketLemma DEF Socket
<1> QED
  BY <1>1, <1>3, <1>4

\* Either OS_FcgiConnect of the bridge.
LEMMA BridgeConnected ==
    ASSUME TableInv, ConnectPipe \/ ConnectSocket
    PROVE  TableInv'
<1> PICK c \in Clients, type \in {"FD_SOCKET_SYNC", "FD_PIPE_ASYNC"} :
      /\ sock[c] = "none"
      /\ LET fd == Win32NewDescriptor(fdTable, c, NoFd)
         IN  \/ /\ fd # NoFd
                /\ fdTable' = Filled(fdTable, fd, type, c)
                /\ sock' = [sock EXCEPT ![c] = "open"]
             \/ sock' = [sock EXCEPT ![c] = "closed"] /\ UNCHANGED fdTable
  BY DEF ConnectPipe, ConnectSocket, Socket
<1> DEFINE fd == Win32NewDescriptor(fdTable, c, NoFd)
<1>1. UNCHANGED <<pc, held, kept>> /\ pc = "bridge"
  BY DEF ConnectPipe, ConnectSocket, bridgeRest, appVars
<1>2. fd # NoFd => fd \in Slots /\ fdTable[fd].type = "FD_UNUSED"
  BY NewDescriptorLemma
<1>3. CASE sock' = [sock EXCEPT ![c] = "closed"] /\ UNCHANGED fdTable
  BY <1>1, <1>3, SameTableLemma DEF TableInv, TableTyped
<1>4. CASE /\ fd # NoFd /\ sock' = [sock EXCEPT ![c] = "open"]
           /\ fdTable' = Filled(fdTable, fd, type, c)
  <2> HIDE DEF fd
  <2> QED
    BY <1>1, <1>2, <1>4, NewSocketLemma
<1> QED
  BY <1>3, <1>4

\* A descriptor that the application listens on is its first.
LEMMA ListenerCreated ==
    ASSUME TableInv, OS_CreateLocalIpcFd
    PROVE  TableInv'
<1> USE DEF TableInv, TableTyped
<1> DEFINE fd == Win32NewDescriptor(fdTable, HListen, NoFd)
<1>1. /\ pc = "plain" /\ pc' = "run" /\ listenType' \in {"FD_SOCKET_SYNC", "FD_PIPE_ASYNC"}
      /\ fdTable' = Filled(fdTable, fd, listenType', HListen) /\ kept' = {fd}
      /\ UNCHANGED <<sock, held>>
  BY DEF OS_CreateLocalIpcFd, Socket
<1>2. /\ InUse(fdTable) = {} /\ held = {} /\ kept = {}
      /\ \A c \in Clients : sock[c] # "open"
  BY <1>1 DEF NothingYet, DescriptorsNamed
<1>3. fd \in Slots
  BY <1>2, NewDescriptorLemma
<1> HIDE DEF fd
<1>4. HListen \in Nat /\ listenType' \in DescriptorTypes /\ HListen \notin Clients
  BY <1>1, Win32Assumption DEF DescriptorTypes
<1>5. /\ fdTable' \in Tables /\ fdTable'[fd].type = listenType'
      /\ fdTable'[fd].fid = HListen
      /\ \A i \in Slots \ {fd} : fdTable'[i] = fdTable[i]
  BY <1>1, <1>3, <1>4, FilledLemma
<1>6. \A i \in Slots : fdTable[i].type = "FD_UNUSED"
  BY <1>2 DEF InUse
<1>7. SocketsOpen'
  BY <1>3, <1>4, <1>5, <1>6 DEF SocketsOpen, SocketType
<1>8. SocketsKnown'
  BY <1>1, <1>2 DEF SocketsKnown
<1>9. DescriptorsNamed'
  <2>1. InUse(fdTable)' = {fd}
    BY <1>1, <1>3, <1>5, <1>6 DEF InUse
  <2> QED
    BY <1>1, <1>2, <2>1 DEF DescriptorsNamed
<1> QED
  BY <1>1, <1>2, <1>3, <1>5, <1>7, <1>8, <1>9 DEF NothingYet

\* Every step keeps the invariant of the descriptor table.
LEMMA TableNext ==
    ASSUME TableInv, [Next]_vars
    PROVE  TableInv'
<1> USE DEF TableInv, TableTyped
<1>1. CASE InitApplication
  BY <1>1, SameTableLemma DEF InitApplication
<1>2. CASE InitBridge
  <2>1. /\ fdTable' \in Tables
        /\ \A i \in Slots : ~ SocketType(fdTable'[i])
    BY <1>2, Win32Assumption
       DEF InitBridge, Tables, DescriptorTypes, Unused, NamedPipe, SocketType
  <2> QED
    BY <1>2, <2>1
       DEF InitBridge, SocketsOpen, SocketsKnown, DescriptorsNamed, NothingYet
<1>3. CASE OS_CreateLocalIpcFd
  BY <1>3, ListenerCreated
<1>4. CASE Accept \/ WaitForMutex \/ WaitFails
  BY <1>4, SameTableLemma DEF Accept, WaitForMutex, WaitFails, Refused, Waits
<1>5. CASE acceptNamedPipe
  BY <1>5, PipeAccepted
<1>6. CASE acceptSocket
  BY <1>6, SocketAccepted
<1>7. ASSUME NEW fd \in Slots, OS_IpcClose(fd)
      PROVE  TableInv'
  <2>1. pc = "run" /\ pc' = pc /\ fd \in held /\ held' = held \ {fd}
    BY <1>7 DEF OS_IpcClose
  <2>2. CASE OS_Close(fd) /\ kept' = kept
    BY <2>1, <2>2, CloseLemma
  <2>3. CASE kept' = kept \cup {fd} /\ UNCHANGED <<fdTable, sock>>
    <3>1. SocketsOpen' /\ SocketsKnown'
      BY <2>1, <2>3 DEF SocketsOpen, SocketsKnown
    <3> QED
      BY <2>1, <2>3, <3>1 DEF DescriptorsNamed, NothingYet
  <2> QED
    BY <1>7, <2>2, <2>3 DEF OS_IpcClose
<1>8. ASSUME NEW fd \in Slots, OS_SetFlags(fd)
      PROVE  TableInv'
  <2>1. /\ fdTable' \in Tables
        /\ \A i \in Slots : /\ fdTable'[i].fid = fdTable[i].fid
                            /\ SocketType(fdTable'[i]) <=> SocketType(fdTable[i])
    BY <1>8 DEF OS_SetFlags, Tables, DescriptorTypes, SocketType, Socket
  <2>2. pc = "bridge" /\ UNCHANGED <<pc, held, kept, sock>>
    BY <1>8 DEF OS_SetFlags, bridgeRest, appVars
  <2> QED
    BY <2>1, <2>2 DEF SocketsOpen, SocketsKnown, DescriptorsNamed, NothingYet
<1>9. ASSUME NEW fd \in Slots, BridgeCloses(fd)
      PROVE  TableInv'
  BY <1>9, CloseLemma DEF BridgeCloses, bridgeRest, appVars
<1>10. CASE \/ OS_AsyncReadStdin \/ SystemCompletes \/ StdinThread \/ OS_DoIo
            \/ \E fd \in Slots : OS_AsyncStart(fd)
  BY <1>10, SameTableLemma
     DEF OS_AsyncStart, OS_AsyncReadStdin, SystemCompletes, StdinThread, OS_DoIo,
         bridgeRest, appVars
<1>11. CASE SetEvent \/ OS_ShutdownPending \/ ShutdownRequestThread \/ OtherProcess
  BY <1>11, SameTableLemma
     DEF SetEvent, OS_ShutdownPending, ShutdownRequestThread, OtherProcess, appRest
<1>12. CASE Exit
  <2>1. /\ fdTable' \in Tables
        /\ \A i \in Slots : fdTable'[i].type = "FD_UNUSED"
    BY <1>12 DEF Exit, Tables, DescriptorTypes, Unused
  <2>2. /\ sock' \in [Clients -> {"none", "waiting", "open", "closed"}]
        /\ \A c \in Clients : sock'[c] # "open"
    BY <1>12 DEF Exit
  <2>3. InUse(fdTable)' = {}
    BY <2>1 DEF InUse
  <2> QED
    BY <1>12, <2>1, <2>2, <2>3
       DEF Exit, SocketsOpen, SocketType, SocketsKnown, DescriptorsNamed, NothingYet
<1>13. CASE Client \/ ClientLost
  BY <1>13, SameTableLemma DEF Client, ClientLost, appVars
<1>14. CASE ConnectPipe \/ ConnectSocket
  BY <1>14, BridgeConnected
<1>15. CASE UNCHANGED vars
  BY <1>15, SameTableLemma DEF vars, appVars
<1>16. CASE SelectReturns \/ SelectFails \/ SelectTimesOut \/ AcceptFails
  BY <1>16, SameTableLemma DEF SelectReturns, SelectFails, SelectTimesOut, AcceptFails, Refused
<1> QED
  BY <1>1, <1>2, <1>3, <1>4, <1>5, <1>6, <1>7, <1>8, <1>9, <1>10, <1>11, <1>12,
     <1>13, <1>14, <1>15, <1>16 DEF Next

\* The table invariant holds throughout.
LEMMA TableInvariant == Spec => []TableInv
<1>1. Init => TableInv
  BY DEF Init, TableInv, TableTyped, Tables, DescriptorTypes, Unused, SocketsOpen,
         SocketType, SocketsKnown, DescriptorsNamed, InUse, NothingYet
<1>2. TableInv /\ [Next]_vars => TableInv'
  BY TableNext
<1> QED
  BY <1>1, <1>2, PTL DEF Spec

(***************************************************************************)
(* Handles and descriptors match whatever the size of the table and the    *)
(* numbers of the handles, also after steps that failed half way.          *)
(***************************************************************************)
THEOREM HandlesAlwaysMatch == Spec => []HandlesMatch
<1>1. TableInv => HandlesMatch
  BY DEF TableInv, TableTyped, SocketsOpen, SocketsKnown, DescriptorsNamed,
         HandlesMatch, IsSocket, SocketType, InUse
<1> QED
  BY <1>1, TableInvariant, PTL

-----------------------------------------------------------------------------
(* acceptMutex *)

(***************************************************************************)
(* The mutex is held exactly while OS_Accept waits for a client.           *)
(***************************************************************************)
THEOREM MutexHeldWhileAccepting == Spec => []MutexWhileAccepting
<1>1. Init => MutexInv
  BY DEF Init, MutexInv, MutexWhileAccepting
<1>2. ASSUME MutexInv, [Next]_vars
      PROVE  MutexInv'
  <2> USE DEF MutexInv, MutexWhileAccepting
  <2>1. CASE InitApplication \/ InitBridge \/ OS_CreateLocalIpcFd
    BY <1>2, <2>1 DEF InitApplication, InitBridge, OS_CreateLocalIpcFd
  <2>2. CASE \/ Accept \/ WaitFails \/ SelectReturns \/ SelectFails \/ SelectTimesOut
             \/ AcceptFails
    BY <1>2, <2>2 DEF Accept, WaitFails, SelectReturns, SelectFails, SelectTimesOut,
                AcceptFails, Refused, ReleaseMutex
  <2>3. CASE WaitForMutex
    BY <1>2, <2>3 DEF WaitForMutex, Waits
  <2>4. CASE acceptNamedPipe
    BY <1>2, <2>4 DEF acceptNamedPipe, Refused, ReleaseMutex
  <2>5. CASE acceptSocket
    BY <1>2, <2>5 DEF acceptSocket, Refused, ReleaseMutex
  <2>6. CASE Exit \/ OtherProcess
    BY <1>2, <2>6 DEF Exit, OtherProcess, ReleaseMutex
  <2>7. CASE \E fd \in Slots : OS_IpcClose(fd) \/ OS_SetFlags(fd) \/ OS_AsyncStart(fd)
                                \/ BridgeCloses(fd)
    BY <1>2, <2>7 DEF OS_IpcClose, OS_SetFlags, OS_AsyncStart, BridgeCloses, bridgeRest, appVars
  <2>8. CASE SetEvent \/ OS_ShutdownPending \/ ShutdownRequestThread \/ Client \/ ClientLost
    BY <1>2, <2>8 DEF SetEvent, OS_ShutdownPending, ShutdownRequestThread, Client,
                ClientLost, appRest, appVars
  <2>9. CASE \/ ConnectPipe \/ ConnectSocket \/ OS_AsyncReadStdin \/ SystemCompletes
             \/ StdinThread \/ OS_DoIo
    BY <1>2, <2>9 DEF ConnectPipe, ConnectSocket, OS_AsyncReadStdin, SystemCompletes,
                StdinThread, OS_DoIo, bridgeRest, appVars
  <2>10. CASE UNCHANGED vars
    BY <1>2, <2>10 DEF vars, appVars
  <2> QED
    BY <1>2, <2>1, <2>2, <2>3, <2>4, <2>5, <2>6, <2>7, <2>8, <2>9, <2>10 DEF Next
<1>3. MutexInv => MutexWhileAccepting
  BY DEF MutexInv
<1> QED
  BY <1>1, <1>2, <1>3, PTL DEF Spec

-----------------------------------------------------------------------------
(* Asynchronous I/O *)

\* A port that gets an operation which it does not hold.
LEMMA Posted ==
    ASSUME NEW port \in Seq(Nat), NEW op \in Nat, NEW q, q = Append(port, op),
           \A k \in DOMAIN port : port[k] # op,
           \A k, l \in DOMAIN port : port[k] = port[l] => k = l
    PROVE  /\ q \in Seq(Nat)
           /\ \A k \in DOMAIN q : q[k] = op \/ \E l \in DOMAIN port : q[k] = port[l]
           /\ \A k, l \in DOMAIN q : q[k] = q[l] => k = l
<1>1. /\ DOMAIN q = 1 .. Len(port) + 1 /\ DOMAIN port = 1 .. Len(port)
      /\ \A k \in 1 .. Len(port) : q[k] = port[k]
      /\ q[Len(port) + 1] = op
      /\ q \in Seq(Nat) /\ Len(port) \in Nat
  BY AppendProperties, LenProperties
<1> QED
  BY <1>1

\* A port of which the first completion is taken.
LEMMA Fetched ==
    ASSUME NEW port \in Seq(Nat), port # <<>>,
           \A k, l \in DOMAIN port : port[k] = port[l] => k = l
    PROVE  /\ 1 \in DOMAIN port /\ Head(port) = port[1]
           /\ Tail(port) \in Seq(Nat)
           /\ \A k \in DOMAIN Tail(port) :
                 Tail(port)[k] # Head(port) /\ \E l \in DOMAIN port : Tail(port)[k] = port[l]
           /\ \A k, l \in DOMAIN Tail(port) : Tail(port)[k] = Tail(port)[l] => k = l
<1>1. /\ DOMAIN port = 1 .. Len(port) /\ Len(port) \in Nat /\ Len(port) > 0
      /\ Head(port) = port[1]
      /\ Tail(port) \in Seq(Nat) /\ DOMAIN Tail(port) = 1 .. Len(port) - 1
      /\ \A k \in 1 .. Len(port) - 1 : Tail(port)[k] = port[k + 1]
  BY HeadTailProperties, LenProperties, EmptySeq
<1>2. 1 \in DOMAIN port /\ Tail(port) \in Seq(Nat)
  BY <1>1, HeadTailProperties
<1> DEFINE rest == Tail(port)
<1>3. DOMAIN rest = 1 .. Len(port) - 1 /\ \A k \in DOMAIN rest : rest[k] = port[k + 1]
  BY <1>1
<1> HIDE DEF rest
<1>4. ASSUME NEW k \in DOMAIN rest
      PROVE  /\ k + 1 \in DOMAIN port /\ k + 1 # 1 /\ rest[k] = port[k + 1]
             /\ rest[k] # port[1] /\ \E l \in DOMAIN port : rest[k] = port[l]
  <2>1. k + 1 \in DOMAIN port /\ k + 1 # 1 /\ rest[k] = port[k + 1]
    BY <1>1, <1>3
  <2> QED
    BY <2>1, <1>2
<1>5. ASSUME NEW k \in DOMAIN rest, NEW l \in DOMAIN rest, rest[k] = rest[l]
      PROVE  k = l
  <2>1. k + 1 = l + 1
    BY <1>4, <1>5
  <2> QED
    BY <1>3, <1>1, <2>1
<1> QED
  BY <1>1, <1>2, <1>4, <1>5 DEF rest

\* A new operation, numbered by its place in ov, leaves the others alone.
LEMMA Started ==
    ASSUME IoTyped, NEW op \in Operation, op.instance = 0, op.place # "freed",
           ov' = Append(ov, op), called' = Append(called, 0),
           OneInstance, fdTable' = fdTable, CalledWhenFreed
    PROVE  /\ ov' \in Seq(Operation) /\ Len(ov') = Len(ov) + 1
           /\ called' \in Seq(Nat) /\ Len(called') = Len(ov')
           /\ \A k \in Ops : ov'[k] = ov[k]
           /\ ov'[Len(ov) + 1] = op /\ Len(ov) + 1 \notin Ops
           /\ OneInstance' /\ CalledWhenFreed'
<1> USE DEF Ops
<1>0. /\ ov \in Seq(Operation) /\ Len(ov) \in Nat
      /\ called \in Seq(Nat) /\ Len(called) = Len(ov)
  BY LenProperties DEF Operation, IoTyped
<1>1. /\ ov' \in Seq(Operation) /\ Len(ov') = Len(ov) + 1
      /\ \A k \in 1 .. Len(ov) : ov'[k] = ov[k]
      /\ ov'[Len(ov) + 1] = op
  BY <1>0, AppendProperties
<1>2. /\ called' \in Seq(Nat) /\ Len(called') = Len(ov) + 1
      /\ \A k \in 1 .. Len(ov) : called'[k] = called[k]
      /\ called'[Len(ov) + 1] = 0
  BY <1>0, AppendProperties
<1>3. OneInstance'
  <2>1. ASSUME NEW k \in 1 .. Len(ov) + 1
        PROVE  ov'[k].instance = 0
    <3>1. CASE k = Len(ov) + 1
      BY <1>1, <3>1
    <3>2. CASE k \in 1 .. Len(ov)
      BY <1>1, <3>2 DEF OneInstance
    <3> QED
      BY <1>0, <3>1, <3>2
  <2> QED
    BY <1>1, <2>1 DEF OneInstance
<1>4. CalledWhenFreed'
  BY <1>0, <1>1, <1>2 DEF CalledWhenFreed
<1> QED
  BY <1>0, <1>1, <1>2, <1>3, <1>4

\* Another place for one operation of a sequence.
LEMMA Placed ==
    ASSUME NEW o \in Seq(Operation), NEW op \in 1 .. Len(o), NEW place \in Places,
           NEW u, u = [o EXCEPT ![op].place = place]
    PROVE  /\ u \in Seq(Operation) /\ Len(u) = Len(o)
           /\ u[op].place = place /\ u[op].instance = o[op].instance
           /\ u[op].fd = o[op].fd
           /\ \A k \in 1 .. Len(o) : k # op => u[k] = o[k]
<1> DEFINE n == Len(o)
<1>1. n \in Nat /\ o \in [1 .. n -> Operation]
  BY LenProperties
<1> HIDE DEF n
<1>2. op \in 1 .. n
  BY DEF n
<1>3. /\ u \in [1 .. n -> Operation]
      /\ u[op].place = place /\ u[op].instance = o[op].instance /\ u[op].fd = o[op].fd
      /\ \A k \in 1 .. n : k # op => u[k] = o[k]
  BY <1>1, <1>2 DEF Operation
<1>4. u \in Seq(Operation)
  BY <1>1, <1>3, SeqDef
<1>5. Len(u) = n
  BY <1>1, <1>3, <1>4, LenProperties
<1> QED
  BY <1>3, <1>4, <1>5 DEF n

\* An operation that moves to another place without being freed.
LEMMA Moved ==
    ASSUME IoTyped, OneInstance, CalledWhenFreed, NEW op \in Ops, ov[op].place # "freed",
           NEW place \in Places \ {"freed"},
           ov' = [ov EXCEPT ![op].place = place], called' = called, fdTable' = fdTable
    PROVE  /\ ov' \in Seq(Operation) /\ Len(ov') = Len(ov)
           /\ ov'[op].place = place
           /\ \A k \in Ops \ {op} : ov'[k] = ov[k]
           /\ OneInstance' /\ CalledWhenFreed'
<1> USE DEF Ops
<1>0. ov \in Seq(Operation) /\ Len(ov) \in Nat
  BY LenProperties DEF Operation, IoTyped
<1>1. op \in 1 .. Len(ov) /\ place \in Places
  OBVIOUS
<1>4. /\ ov' \in Seq(Operation) /\ Len(ov') = Len(ov)
      /\ ov'[op].place = place /\ ov'[op].instance = ov[op].instance
      /\ \A k \in 1 .. Len(ov) : k # op => ov'[k] = ov[k]
  BY <1>0, <1>1, Placed, SMTT(30)
<1>5. OneInstance'
  BY <1>4 DEF OneInstance
<1>6. CalledWhenFreed'
  BY <1>4 DEF CalledWhenFreed
<1> QED
  BY <1>4, <1>5, <1>6

\* The operations when a descriptor has been closed.
Marked(o, fd) == [op \in DOMAIN o |-> [o[op] EXCEPT !.valid = @ /\ o[op].fd # fd]]

LEMMA Closed ==
    ASSUME NEW o \in Seq(Operation), NEW fd, NEW u, u = Marked(o, fd)
    PROVE  /\ u \in Seq(Operation) /\ Len(u) = Len(o)
           /\ \A op \in 1 .. Len(o) : u[op].place = o[op].place /\ u[op].instance = o[op].instance
<1> DEFINE n == Len(o)
<1>1. n \in Nat /\ o \in [1 .. n -> Operation]
  BY LenProperties
<1> HIDE DEF n
<1>2. ASSUME NEW e \in Operation, NEW v \in BOOLEAN, NEW f, f = [e EXCEPT !.valid = v]
      PROVE  f \in Operation /\ f.place = e.place /\ f.instance = e.instance
  <2>1. ASSUME NEW B, NEW w \in B, NEW g, g = [e EXCEPT !.valid = w],
               e \in [fd : Slots, fid : Nat, instance : Int, place : Places, valid : B]
        PROVE  /\ g \in [fd : Slots, fid : Nat, instance : Int, place : Places, valid : B]
               /\ g.place = e.place /\ g.instance = e.instance
    BY <2>1
  <2> QED
    BY <1>2, <2>1 DEF Operation
<1>3. ASSUME NEW op \in 1 .. n
      PROVE  /\ u[op] \in Operation
             /\ u[op].place = o[op].place /\ u[op].instance = o[op].instance
  <2> DEFINE v == o[op].valid /\ o[op].fd # fd
  <2>1. o[op] \in Operation /\ u[op] = [o[op] EXCEPT !.valid = v]
    BY <1>1 DEF Marked
  <2>2. v \in BOOLEAN
    OBVIOUS
  <2> HIDE DEF v
  <2>3. \A e \in Operation : \A f :
            f = [e EXCEPT !.valid = v] =>
                f \in Operation /\ f.place = e.place /\ f.instance = e.instance
    BY <1>2, <2>2
  <2> QED
    BY <2>1, <2>3
<1>4. u \in [1 .. n -> Operation]
  BY <1>1, <1>3 DEF Marked
<1>5. u \in Seq(Operation)
  BY <1>1, <1>4, SeqDef
<1>6. Len(u) = n
  BY <1>1, <1>4, <1>5, LenProperties
<1> QED
  BY <1>3, <1>5, <1>6 DEF n

\* No step gives a descriptor another instance.
LEMMA InstancesKept ==
    ASSUME TableInv, [Next]_vars,
           \A i \in Slots : fdTable[i].instance = 0
    PROVE  \A i \in Slots : fdTable'[i].instance = 0
<1> USE DEF TableInv, TableTyped
<1>1. ASSUME NEW handle \in Nat, NEW type \in DescriptorTypes,
             NEW fd \in Slots, fdTable' = Filled(fdTable, fd, type, handle)
      PROVE  \A i \in Slots : fdTable'[i].instance = 0
  BY <1>1, FilledLemma
<1>2. ASSUME NEW fd \in Slots, OS_Close(fd)
      PROVE  \A i \in Slots : fdTable'[i].instance = 0
  BY <1>2, FreeDescriptorLemma DEF OS_Close
<1>3. ASSUME NEW handle
      PROVE  LET fd == Win32NewDescriptor(fdTable, handle, NoFd)
             IN  fd # NoFd => fd \in Slots
  BY NewDescriptorLemma
<1>4. /\ HListen \in Nat /\ Clients \subseteq Nat
      /\ {"FD_SOCKET_SYNC", "FD_PIPE_SYNC", "FD_PIPE_ASYNC"} \subseteq DescriptorTypes
  BY Win32Assumption DEF DescriptorTypes
<1>5. CASE acceptNamedPipe
  <2> DEFINE fd == Win32NewDescriptor(fdTable, HListen, NoFd)
  <2>1. \/ UNCHANGED fdTable
        \/ fd # NoFd /\ fdTable' = Filled(fdTable, fd, "FD_PIPE_SYNC", HListen)
    BY <1>5 DEF acceptNamedPipe, NamedPipe
  <2>2. fd # NoFd => fd \in Slots
    BY <1>3
  <2> HIDE DEF fd
  <2> QED
    BY <1>1, <1>4, <2>1, <2>2
<1>6. CASE acceptSocket \/ ConnectPipe \/ ConnectSocket
  <2>1. PICK c \in Clients, type \in {"FD_SOCKET_SYNC", "FD_PIPE_ASYNC"} :
          LET fd == Win32NewDescriptor(fdTable, c, NoFd)
          IN  \/ UNCHANGED fdTable
              \/ fd # NoFd /\ fdTable' = Filled(fdTable, fd, type, c)
    BY <1>6 DEF acceptSocket, ConnectPipe, ConnectSocket, Socket
  <2> DEFINE fd == Win32NewDescriptor(fdTable, c, NoFd)
  <2>2. fd # NoFd => fd \in Slots
    BY <1>3
  <2>3. UNCHANGED fdTable \/ (fd # NoFd /\ fdTable' = Filled(fdTable, fd, type, c))
    BY <2>1
  <2> HIDE DEF fd
  <2> QED
    BY <1>1, <1>4, <2>2, <2>3
<1>7. CASE OS_CreateLocalIpcFd
  <2> DEFINE fd == Win32NewDescriptor(fdTable, HListen, NoFd)
  <2>1. fdTable' = Filled(fdTable, fd, listenType', HListen)
        /\ listenType' \in {"FD_SOCKET_SYNC", "FD_PIPE_ASYNC"}
    BY <1>7 DEF OS_CreateLocalIpcFd, Socket
  <2>2. fd \in Slots
    BY <1>7, NewDescriptorLemma DEF OS_CreateLocalIpcFd, NothingYet
  <2> HIDE DEF fd
  <2> QED
    BY <1>1, <1>4, <2>1, <2>2
<1>8. CASE \E fd \in Slots : OS_IpcClose(fd) \/ BridgeCloses(fd)
  BY <1>2, <1>8 DEF OS_IpcClose, BridgeCloses
<1>9. CASE \E fd \in Slots : OS_SetFlags(fd)
  BY <1>9 DEF OS_SetFlags, Tables
<1>10. CASE InitBridge \/ Exit
  BY <1>10 DEF InitBridge, Exit, Unused
<1>11. CASE UNCHANGED fdTable
  BY <1>11
<1> QED
  BY <1>5, <1>6, <1>7, <1>8, <1>9, <1>10, <1>11
     DEF Next, vars, InitApplication, Accept, WaitForMutex, WaitFails,
         SelectReturns, SelectFails, SelectTimesOut, AcceptFails,
         OS_AsyncStart, SetEvent, OS_ShutdownPending, ShutdownRequestThread,
         OtherProcess, Client, ClientLost, OS_AsyncReadStdin, SystemCompletes, StdinThread, OS_DoIo,
         appRest

(***************************************************************************)
(* The steps of the completion ports.                                      *)
(***************************************************************************)
LEMMA IoStep ==
    ASSUME TableInv, IoInv,
           \/ OS_AsyncReadStdin \/ SystemCompletes \/ StdinThread \/ OS_DoIo
           \/ \E fd \in Slots : OS_AsyncStart(fd)
    PROVE  IoInv'
<1>0. /\ IoTyped /\ OneInstance /\ CalledWhenFreed /\ Len(ov) \in Nat
      /\ ov \in Seq(Operation) /\ Ops = 1 .. Len(ov)
  BY LenProperties DEF IoInv, IoTyped, Operation, Ops
<1>1. /\ stdinPort \in Seq(Nat) /\ ioPort \in Seq(Nat)
      /\ Queued(stdinPort, "stdinPort") /\ Queued(ioPort, "ioPort")
  BY DEF IoInv, IoTyped
<1>2. ASSUME NEW fd \in Slots, NEW place \in Places \ {"freed"}
      PROVE  /\ Request(fd, place) \in Operation /\ Request(fd, place).instance = 0
             /\ Request(fd, place).place = place
  BY <1>0 DEF Request, Operation, OneInstance, TableInv, TableTyped, Tables, Places
<1>3. ASSUME NEW op \in Ops
      PROVE  ov[op] \in Operation
  BY <1>0, ElementOfSeq
<1>4. CASE OS_AsyncReadStdin
  <2> DEFINE r == Request(STDIN_FILENO, "stdinPort")
  <2>1. STDIN_FILENO \in Slots
    BY Win32Assumption DEF STDIN_FILENO, Slots
  <2>2. r \in Operation /\ r.instance = 0 /\ r.place = "stdinPort"
    BY <1>2, <2>1 DEF Places
  <2>3. /\ ov' = Append(ov, r) /\ called' = Append(called, 0)
        /\ stdinPort' = Append(stdinPort, Len(ov')) /\ UNCHANGED <<fdTable, ioPort>>
    BY <1>4 DEF OS_AsyncReadStdin
  <2> HIDE DEF r
  <2>4. /\ ov' \in Seq(Operation) /\ Len(ov') = Len(ov) + 1
        /\ called' \in Seq(Nat) /\ Len(called') = Len(ov')
        /\ \A k \in Ops : ov'[k] = ov[k]
        /\ ov'[Len(ov) + 1] = r /\ Len(ov) + 1 \notin Ops
        /\ OneInstance' /\ CalledWhenFreed'
    BY <1>0, <2>2, <2>3, Started
  <2>5. /\ At("stdinPort") \subseteq At("stdinPort")' /\ At("ioPort") \subseteq At("ioPort")'
        /\ Len(ov) + 1 \in At("stdinPort")'
    BY <1>0, <2>2, <2>4 DEF Ops, At
  <2>6. /\ stdinPort' \in Seq(Nat)
        /\ \A k \in DOMAIN stdinPort' : \/ stdinPort'[k] = Len(ov) + 1
                                        \/ \E l \in DOMAIN stdinPort : stdinPort'[k] = stdinPort[l]
        /\ \A k, l \in DOMAIN stdinPort' : stdinPort'[k] = stdinPort'[l] => k = l
    <3>1. /\ \A k \in DOMAIN stdinPort : stdinPort[k] # Len(ov) + 1
          /\ \A k, l \in DOMAIN stdinPort : stdinPort[k] = stdinPort[l] => k = l
      BY <1>1, <2>4 DEF Queued, At
    <3>2. stdinPort' = Append(stdinPort, Len(ov) + 1) /\ Len(ov) + 1 \in Nat
          /\ stdinPort \in Seq(Nat)
      BY <1>0, <1>1, <2>3, <2>4
    <3> QED
      BY <3>1, <3>2, Posted
  <2>7. Queued(stdinPort, "stdinPort")'
    BY <1>1, <2>5, <2>6 DEF Queued
  <2>8. Queued(ioPort, "ioPort")'
    BY <1>1, <2>3, <2>5 DEF Queued
  <2> QED
    BY <1>1, <2>3, <2>4, <2>6, <2>7, <2>8 DEF IoInv, IoTyped, Operation
<1>5. ASSUME NEW fd \in Slots, OS_AsyncStart(fd)
      PROVE  IoInv'
  <2>1. PICK place \in {"system", "ioPort"} :
          /\ ov' = Append(ov, Request(fd, place)) /\ called' = Append(called, 0)
          /\ UNCHANGED <<fdTable, stdinPort>>
          /\ \/ place = "system" /\ ioPort' = ioPort
             \/ place = "ioPort" /\ ioPort' = Append(ioPort, Len(ov'))
    BY <1>5 DEF OS_AsyncStart
  <2> DEFINE r == Request(fd, place)
  <2>2. r \in Operation /\ r.instance = 0 /\ r.place = place
    BY <1>2 DEF Places
  <2>3. ov' = Append(ov, r)
    BY <2>1
  <2> HIDE DEF r
  <2>4. /\ ov' \in Seq(Operation) /\ Len(ov') = Len(ov) + 1
        /\ called' \in Seq(Nat) /\ Len(called') = Len(ov')
        /\ \A k \in Ops : ov'[k] = ov[k]
        /\ ov'[Len(ov) + 1] = r /\ Len(ov) + 1 \notin Ops
        /\ OneInstance' /\ CalledWhenFreed'
    BY <1>0, <2>1, <2>2, <2>3, Started
  <2>5. /\ At("stdinPort") \subseteq At("stdinPort")' /\ At("ioPort") \subseteq At("ioPort")'
        /\ Len(ov) + 1 \in At(place)'
    BY <1>0, <2>2, <2>4 DEF Ops, At
  <2>6. Queued(stdinPort, "stdinPort")'
    BY <1>1, <2>1, <2>5 DEF Queued
  <2>7. ioPort' \in Seq(Nat) /\ Queued(ioPort, "ioPort")'
    <3>1. CASE ioPort' = ioPort
      BY <1>1, <2>5, <3>1 DEF Queued
    <3>2. CASE place = "ioPort" /\ ioPort' = Append(ioPort, Len(ov'))
      <4>1. /\ ioPort' \in Seq(Nat)
            /\ \A k \in DOMAIN ioPort' : \/ ioPort'[k] = Len(ov) + 1
                                         \/ \E l \in DOMAIN ioPort : ioPort'[k] = ioPort[l]
            /\ \A k, l \in DOMAIN ioPort' : ioPort'[k] = ioPort'[l] => k = l
        <5>1. /\ \A k \in DOMAIN ioPort : ioPort[k] # Len(ov) + 1
              /\ \A k, l \in DOMAIN ioPort : ioPort[k] = ioPort[l] => k = l
          BY <1>1, <2>4 DEF Queued, At
        <5>2. ioPort' = Append(ioPort, Len(ov) + 1) /\ Len(ov) + 1 \in Nat
              /\ ioPort \in Seq(Nat)
          BY <1>0, <1>1, <2>4, <3>2
        <5> QED
          BY <5>1, <5>2, Posted
      <4> QED
        BY <1>1, <2>5, <3>2, <4>1 DEF Queued
    <3> QED
      BY <2>1, <3>1, <3>2
  <2> QED
    BY <1>1, <2>1, <2>4, <2>6, <2>7 DEF IoInv, IoTyped, Operation
<1>6. CASE SystemCompletes
  <2>1. PICK op \in Ops :
          /\ ov[op].place = "system" /\ ov' = [ov EXCEPT ![op].place = "ioPort"]
          /\ ioPort' = Append(ioPort, op)
    BY <1>6 DEF SystemCompletes
  <2>2. UNCHANGED <<fdTable, stdinPort, called>>
    BY <1>6 DEF SystemCompletes
  <2>3. /\ ov' \in Seq(Operation) /\ Len(ov') = Len(ov)
        /\ ov'[op].place = "ioPort"
        /\ \A k \in Ops \ {op} : ov'[k] = ov[k]
        /\ OneInstance' /\ CalledWhenFreed'
    BY <1>0, <2>1, <2>2, Moved DEF Places
  <2>4. /\ At("stdinPort") \subseteq At("stdinPort")' /\ At("ioPort") \subseteq At("ioPort")'
        /\ op \in At("ioPort")'
    BY <2>1, <2>3 DEF Ops, At
  <2>5. Queued(stdinPort, "stdinPort")'
    BY <1>1, <2>2, <2>4 DEF Queued
  <2>6. /\ ioPort' \in Seq(Nat)
        /\ \A k \in DOMAIN ioPort' : \/ ioPort'[k] = op
                                     \/ \E l \in DOMAIN ioPort : ioPort'[k] = ioPort[l]
        /\ \A k, l \in DOMAIN ioPort' : ioPort'[k] = ioPort'[l] => k = l
    <3>1. /\ \A k \in DOMAIN ioPort : ioPort[k] # op
          /\ \A k, l \in DOMAIN ioPort : ioPort[k] = ioPort[l] => k = l
      BY <1>1, <2>1 DEF Queued, At
    <3>2. op \in Nat
      BY <1>0
    <3> QED
      BY <1>1, <2>1, <3>1, <3>2, Posted
  <2>7. Queued(ioPort, "ioPort")'
    BY <1>1, <2>4, <2>6 DEF Queued
  <2> QED
    BY <1>0, <1>1, <2>2, <2>3, <2>5, <2>6, <2>7 DEF IoInv, IoTyped, Operation
<1>7. CASE StdinThread
  <2> DEFINE op == Head(stdinPort)
  <2>1. /\ stdinPort # <<>> /\ stdinPort' = Tail(stdinPort)
        /\ UNCHANGED <<fdTable, called>>
        /\ \/ /\ ov' = [ov EXCEPT ![op].place = "ioPort"]
              /\ ioPort' = Append(ioPort, op)
           \/ UNCHANGED <<ov, ioPort>>
    BY <1>7 DEF StdinThread
  <2>2. /\ 1 \in DOMAIN stdinPort /\ op = stdinPort[1]
        /\ stdinPort' \in Seq(Nat)
        /\ \A k \in DOMAIN stdinPort' : /\ stdinPort'[k] # op
                                        /\ \E l \in DOMAIN stdinPort : stdinPort'[k] = stdinPort[l]
        /\ \A k, l \in DOMAIN stdinPort' : stdinPort'[k] = stdinPort'[l] => k = l
    <3>1. \A k, l \in DOMAIN stdinPort : stdinPort[k] = stdinPort[l] => k = l
      BY <1>1 DEF Queued
    <3> QED
      BY <1>1, <2>1, <3>1, Fetched
  <2>3. op \in Ops /\ op \in Nat /\ ov[op].place = "stdinPort"
    BY <1>0, <1>1, <2>2 DEF Queued, At
  <2> HIDE DEF op
  <2>4. CASE UNCHANGED <<ov, ioPort>>
    <3>1. /\ At("stdinPort")' = At("stdinPort") /\ At("ioPort")' = At("ioPort")
          /\ OneInstance' /\ CalledWhenFreed'
      BY <1>0, <2>1, <2>4 DEF Ops, At, OneInstance, CalledWhenFreed
    <3>2. Queued(stdinPort, "stdinPort")' /\ Queued(ioPort, "ioPort")'
      BY <1>1, <2>2, <2>4, <3>1 DEF Queued
    <3> QED
      BY <1>0, <1>1, <2>1, <2>2, <2>4, <3>1, <3>2 DEF IoInv, IoTyped
  <2>5. CASE ov' = [ov EXCEPT ![op].place = "ioPort"] /\ ioPort' = Append(ioPort, op)
    <3>1. /\ ov' \in Seq(Operation) /\ Len(ov') = Len(ov)
          /\ ov'[op].place = "ioPort"
          /\ \A k \in Ops \ {op} : ov'[k] = ov[k]
          /\ OneInstance' /\ CalledWhenFreed'
      BY <1>0, <2>1, <2>3, <2>5, Moved DEF Places
    <3>2. /\ At("stdinPort") \ {op} \subseteq At("stdinPort")'
          /\ At("ioPort") \subseteq At("ioPort")' /\ op \in At("ioPort")'
      BY <2>3, <3>1 DEF Ops, At
    <3>3. Queued(stdinPort, "stdinPort")'
      BY <1>1, <2>2, <3>2 DEF Queued
    <3>4. /\ ioPort' \in Seq(Nat)
          /\ \A k \in DOMAIN ioPort' : \/ ioPort'[k] = op
                                       \/ \E l \in DOMAIN ioPort : ioPort'[k] = ioPort[l]
          /\ \A k, l \in DOMAIN ioPort' : ioPort'[k] = ioPort'[l] => k = l
      <4>1. /\ \A k \in DOMAIN ioPort : ioPort[k] # op
            /\ \A k, l \in DOMAIN ioPort : ioPort[k] = ioPort[l] => k = l
        BY <1>1, <2>3 DEF Queued, At
      <4> QED
        BY <1>1, <2>3, <2>5, <4>1, Posted
    <3>5. Queued(ioPort, "ioPort")'
      BY <1>1, <3>2, <3>4 DEF Queued
    <3> QED
      BY <1>0, <2>1, <2>2, <3>1, <3>3, <3>4, <3>5 DEF IoInv, IoTyped, Operation
  <2> QED
    BY <2>1, <2>4, <2>5 DEF op
<1>8. CASE OS_DoIo
  <2> DEFINE op == Head(ioPort)
  <2>1. /\ ioPort # <<>> /\ ioPort' = Tail(ioPort)
        /\ ov' = [ov EXCEPT ![op].place = "freed"]
        /\ called' = IF ov[op].instance = fdTable[ov[op].fd].instance
                     THEN [called EXCEPT ![op] = @ + 1] ELSE called
        /\ UNCHANGED <<fdTable, stdinPort>>
    BY <1>8 DEF OS_DoIo
  <2>2. /\ 1 \in DOMAIN ioPort /\ op = ioPort[1]
        /\ ioPort' \in Seq(Nat)
        /\ \A k \in DOMAIN ioPort' : /\ ioPort'[k] # op
                                     /\ \E l \in DOMAIN ioPort : ioPort'[k] = ioPort[l]
        /\ \A k, l \in DOMAIN ioPort' : ioPort'[k] = ioPort'[l] => k = l
    <3>1. \A k, l \in DOMAIN ioPort : ioPort[k] = ioPort[l] => k = l
      BY <1>1 DEF Queued
    <3>2. ioPort # <<>> /\ ioPort' = Tail(ioPort) /\ ioPort \in Seq(Nat)
      BY <1>1, <2>1
    <3> QED
      BY <3>1, <3>2, Fetched
  <2>3. op \in Ops /\ ov[op].place = "ioPort"
    BY <1>1, <2>2 DEF Queued, At
  <2> HIDE DEF op
  <2>4. /\ ov' \in Seq(Operation) /\ Len(ov') = Len(ov)
        /\ ov'[op].place = "freed" /\ ov'[op].instance = ov[op].instance
        /\ \A k \in 1 .. Len(ov) : k # op => ov'[k] = ov[k]
    <3>1. op \in 1 .. Len(ov) /\ "freed" \in Places
      BY <1>0, <2>3 DEF Places
    <3>2. ov \in Seq(Operation) /\ ov' = [ov EXCEPT ![op].place = "freed"]
      BY <1>0, <2>1
    <3> QED
      BY <3>1, <3>2, Placed, SMTT(30)
  <2>5. ov[op].fd \in Slots
    BY <1>3, <2>3 DEF Operation
  <2>6. called' = [called EXCEPT ![op] = @ + 1]
    BY <1>0, <2>1, <2>3, <2>5 DEF OneInstance
  <2>7. called \in Seq(Nat) /\ Len(called) = Len(ov) /\ called[op] = 0
    BY <1>0, <2>3 DEF IoTyped, CalledWhenFreed
  <2>8. called' \in Seq(Nat) /\ Len(called') = Len(ov)
        /\ \A k \in 1 .. Len(ov) : called'[k] = IF k = op THEN 1 ELSE called[k]
    <3>1. called' = [called EXCEPT ![op] = 1]
      BY <2>6, <2>7
    <3> QED
      BY <1>0, <2>3, <2>7, <3>1, ExceptSeq
  <2>9. CalledWhenFreed' /\ OneInstance'
    <3>1. Ops' = Ops
      BY <2>4 DEF Ops
    <3>2. CalledWhenFreed'
      BY <1>0, <2>4, <2>8, <3>1 DEF CalledWhenFreed
    <3>3. OneInstance'
      BY <1>0, <2>1, <2>4, <3>1 DEF OneInstance
    <3> QED
      BY <3>2, <3>3
  <2>10. At("stdinPort") \subseteq At("stdinPort")' /\ At("ioPort") \ {op} \subseteq At("ioPort")'
    BY <2>3, <2>4 DEF Ops, At
  <2>11. Queued(stdinPort, "stdinPort")'
    BY <1>1, <2>1, <2>10 DEF Queued
  <2>12. Queued(ioPort, "ioPort")'
    BY <1>1, <2>2, <2>10 DEF Queued
  <2> QED
    BY <1>1, <2>1, <2>2, <2>4, <2>8, <2>9, <2>11, <2>12 DEF IoInv, IoTyped, Operation
<1> QED
  BY <1>4, <1>5, <1>6, <1>7, <1>8

\* Every step keeps the invariant of the completion ports.
LEMMA IoNext ==
    ASSUME TableInv, IoInv, [Next]_vars
    PROVE  IoInv'
<1>1. CASE \/ OS_AsyncReadStdin \/ SystemCompletes \/ StdinThread \/ OS_DoIo
           \/ \E fd \in Slots : OS_AsyncStart(fd)
  BY <1>1, IoStep
<1>2. CASE UNCHANGED <<stdinPort, ioPort, ov, called>>
  <2>1. OneInstance'
    BY <1>2, InstancesKept DEF IoInv, OneInstance, Ops
  <2>2. At("stdinPort")' = At("stdinPort") /\ At("ioPort")' = At("ioPort") /\ CalledWhenFreed'
    BY <1>2 DEF IoInv, Ops, At, CalledWhenFreed
  <2>3. Queued(stdinPort, "stdinPort")' /\ Queued(ioPort, "ioPort")'
    BY <1>2, <2>2 DEF IoInv, Queued
  <2> QED
    BY <1>2, <2>1, <2>2, <2>3 DEF IoInv, IoTyped
<1>3. ASSUME NEW fd \in Slots, OS_Close(fd), UNCHANGED portVars
      PROVE  IoInv'
  <2>1. UNCHANGED <<stdinPort, ioPort, called>>
    BY <1>3 DEF portVars
  <2>2. ov \in Seq(Operation) /\ ov' = Marked(ov, fd)
    BY <1>3 DEF OS_Close, IoInv, IoTyped, Marked
  <2>3. /\ ov' \in Seq(Operation) /\ Len(ov') = Len(ov)
        /\ \A op \in 1 .. Len(ov) : /\ ov'[op].place = ov[op].place
                                    /\ ov'[op].instance = ov[op].instance
    BY <2>2, Closed
  <2>4. Ops' = Ops /\ At("stdinPort")' = At("stdinPort") /\ At("ioPort")' = At("ioPort")
    BY <2>3 DEF Ops, At
  <2>5. OneInstance' /\ CalledWhenFreed'
    BY <2>1, <2>3, <2>4, InstancesKept DEF IoInv, OneInstance, CalledWhenFreed, Ops
  <2>6. Queued(stdinPort, "stdinPort")' /\ Queued(ioPort, "ioPort")'
    BY <2>1, <2>4 DEF IoInv, Queued
  <2> QED
    BY <2>1, <2>3, <2>5, <2>6 DEF IoInv, IoTyped
<1>4. CASE \E fd \in Slots : OS_IpcClose(fd) \/ BridgeCloses(fd)
  BY <1>2, <1>3, <1>4 DEF OS_IpcClose, BridgeCloses, portVars
<1> QED
  BY <1>1, <1>2, <1>4
     DEF Next, vars, InitApplication, InitBridge, OS_CreateLocalIpcFd, Accept,
         WaitForMutex, WaitFails, acceptNamedPipe, SelectReturns, SelectFails,
         SelectTimesOut, acceptSocket, AcceptFails, OS_SetFlags, SetEvent,
         OS_ShutdownPending, ShutdownRequestThread, Exit, OtherProcess, Client, ClientLost,
         ConnectPipe, ConnectSocket, appRest, ioVars, portVars

(***************************************************************************)
(* However many operations there are, in whatever order the system         *)
(* completes them and whatever is closed, OS_DoIo calls no operation back  *)
(* twice or early, and passes over none whose descriptor is still open.    *)
(***************************************************************************)
THEOREM CompletionsCalledOnce == Spec => []CalledOnce
<1>1. Init => IoInv
  <2> SUFFICES ASSUME Init PROVE IoInv
    OBVIOUS
  <2>1. ov = <<>> /\ called = <<>> /\ stdinPort = <<>> /\ ioPort = <<>>
    BY DEF Init
  <2>2. IoTyped /\ Ops = {}
    BY <2>1 DEF IoTyped, Ops
  <2>3. OneInstance /\ CalledWhenFreed
    BY <2>2 DEF Init, Unused, OneInstance, CalledWhenFreed
  <2>4. Queued(stdinPort, "stdinPort") /\ Queued(ioPort, "ioPort")
    BY <2>1 DEF Queued
  <2> QED
    BY <2>2, <2>3, <2>4 DEF IoInv
<1>2. TableInv /\ IoInv /\ [Next]_vars => IoInv'
  BY IoNext
<1>3. IoInv => CalledOnce
  BY DEF IoInv, CalledWhenFreed, CalledOnce
<1> QED
  BY <1>1, <1>2, <1>3, TableInvariant, PTL DEF Spec

=============================================================================
