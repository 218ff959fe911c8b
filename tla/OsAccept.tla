------------------------------ MODULE OsAccept ------------------------------
(***************************************************************************)
(* OS_Accept of libfcgi/os_unix.c: worker processes, and the threads of a  *)
(* process, take connections from one listening socket.  Modelled are the  *)
(* lock on the listening socket (USE_LOCKING), the accept loop with its    *)
(* early returns, the address check of TCP clients, the wait for a UNIX    *)
(* domain client to show that it is alive, and the signals that set        *)
(* shutdownPending and interrupt blocking calls.  The kernel is modelled   *)
(* by its effects: a backlog, a descriptor table per process that hands    *)
(* out the lowest free number, and an advisory lock owned by a process.    *)
(***************************************************************************)
EXTENDS Integers, FiniteSets

CONSTANTS
    Workers,       \* threads of control that call OS_Accept
    ProcOf,        \* the process of each worker
    Conns,         \* connections that may be made
    Kind,          \* of a connection: "inet", "denied" (a TCP client that is
                   \* not in FCGI_WEB_SERVER_ADDRS), "unix"
    Fds,           \* descriptor numbers of a process
    UseLocking,    \* TRUE: built with USE_LOCKING
    FailOnIntr,    \* the flag FCGI_FAIL_ACCEPT_ON_INTR
    MaxSignals,    \* bound: signals sent
    MayCrash       \* TRUE: a process may die anywhere

Procs == {ProcOf[w] : w \in Workers}
NoProc == "no process"
NoConn == "no connection"

ASSUME AcceptAssumption ==
    /\ ProcOf \in [Workers -> Procs] /\ NoProc \notin Procs
    /\ NoConn \notin Conns
    /\ Kind \in [Conns -> {"inet", "denied", "unix"}]
    /\ Fds \subseteq Nat /\ MaxSignals \in Nat
    /\ {UseLocking, FailOnIntr, MayCrash} \subseteq BOOLEAN

VARIABLES
    pc,                \* where each worker is in OS_Accept
    socket,            \* its variable socket: a descriptor or -1
    family,            \* its variable sa.in.sin_family, or "unset"
    taken,             \* history: the connection its last accept(2) returned
    fd,                \* descriptor tables: fd[p][f] is a connection or NoConn
    lock,              \* the process that holds the lock on the listen socket
    shutdownPending,   \* per process
    backlog,           \* connections waiting to be accepted
    toCome,            \* connections not made yet
    talking,           \* connections whose client has sent something
    signals            \* signals sent so far

vars == <<pc, socket, family, taken, fd, lock, shutdownPending, backlog,
          toCome, talking, signals>>

Min(S) == CHOOSE x \in S : \A y \in S : x <= y

FreeFds(p) == {f \in Fds : fd[p][f] = NoConn}

\* sa.in.sin_family as accept(2) sets it.
Family(c) == IF Kind[c] = "unix" THEN "unix" ELSE "inet"

Goto(w, l) == pc' = [pc EXCEPT ![w] = l]

\* close(2): of a number that is not open it has no effect.
Closed(p, f) ==
    IF f \in Fds THEN [fd EXCEPT ![p][f] = NoConn] ELSE fd

(***************************************************************************)
(* OS_Accept, one action per step that another worker or a signal can see  *)
(***************************************************************************)

\* FCGX_Accept_r needs a connection.
Call(w) ==
    /\ pc[w] = "idle"
    /\ Goto(w, "lock")
    /\ socket' = [socket EXCEPT ![w] = -1]
    /\ family' = [family EXCEPT ![w] = "unset"]
    /\ taken' = [taken EXCEPT ![w] = NoConn]
    /\ UNCHANGED <<fd, lock, shutdownPending, backlog, toCome, talking, signals>>

\* Seeded fault: the lock is not waited for.
BadAcquireLock(w) ==
    /\ pc[w] = "lock"
    /\ lock' = IF UseLocking THEN ProcOf[w] ELSE lock
    /\ Goto(w, "check")
    /\ UNCHANGED <<socket, family, taken, fd, shutdownPending, backlog, toCome,
                   talking, signals>>

\* fcntl(F_SETLKW) excludes other processes, not other threads.
AcquireLock(w) ==
    /\ pc[w] = "lock"
    /\ UseLocking => lock \in {NoProc, ProcOf[w]}
    /\ lock' = IF UseLocking THEN ProcOf[w] ELSE lock
    /\ Goto(w, "check")
    /\ UNCHANGED <<socket, family, taken, fd, shutdownPending, backlog, toCome,
                   talking, signals>>

\* Seeded fault: shutdownPending is only looked at after accept(2).
BadCheckShutdown(w) ==
    /\ pc[w] = "check"
    /\ Goto(w, "window")
    /\ UNCHANGED <<socket, family, taken, fd, lock, shutdownPending, backlog,
                   toCome, talking, signals>>

\* if (shutdownPending) break;  socket keeps the value it has.
CheckShutdown(w) ==
    /\ pc[w] = "check"
    /\ Goto(w, IF shutdownPending[ProcOf[w]] THEN "test" ELSE "window")
    /\ UNCHANGED <<socket, family, taken, fd, lock, shutdownPending, backlog,
                   toCome, talking, signals>>

\* "There's a window here": a signal no longer prevents the accept.
EnterAccept(w) ==
    /\ pc[w] = "window"
    /\ Goto(w, "accept")
    /\ UNCHANGED <<socket, family, taken, fd, lock, shutdownPending, backlog,
                   toCome, talking, signals>>

\* accept(2) returns a connection, its address in sa.
Accept(w, c) ==
    /\ pc[w] = "accept"
    /\ c \in backlog /\ FreeFds(ProcOf[w]) # {}
    /\ LET f == Min(FreeFds(ProcOf[w]))
       IN  /\ fd' = [fd EXCEPT ![ProcOf[w]][f] = c]
           /\ socket' = [socket EXCEPT ![w] = f]
    /\ family' = [family EXCEPT ![w] = Family(c)]
    /\ taken' = [taken EXCEPT ![w] = c]
    /\ backlog' = backlog \ {c}
    /\ Goto(w, "test")
    /\ UNCHANGED <<lock, shutdownPending, toCome, talking, signals>>

\* accept(2) fails because the client went away (ECONNABORTED, ...): errno is
\* a reasonable one and the loop goes on.
AcceptAborted(w, c) ==
    /\ pc[w] = "accept"
    /\ c \in backlog
    /\ backlog' = backlog \ {c}
    /\ socket' = [socket EXCEPT ![w] = -1]
    /\ Goto(w, IF shutdownPending[ProcOf[w]] THEN "test" ELSE "check")
    /\ UNCHANGED <<family, taken, fd, lock, shutdownPending, toCome, talking, signals>>

\* accept(2) fails for good, e.g. with EMFILE.
AcceptFails(w) ==
    /\ pc[w] = "accept"
    /\ backlog # {} /\ FreeFds(ProcOf[w]) = {}
    /\ socket' = [socket EXCEPT ![w] = -1]
    /\ Goto(w, "test")
    /\ UNCHANGED <<family, taken, fd, lock, shutdownPending, backlog, toCome,
                   talking, signals>>

Released(w) == IF lock = ProcOf[w] THEN NoProc ELSE lock

\* Seeded fault: return without ReleaseLock.
BadReturnError(w) ==
    /\ pc[w] = "test" /\ socket[w] = -1
    /\ Goto(w, "failed")
    /\ UNCHANGED <<socket, family, taken, fd, lock, shutdownPending, backlog, toCome,
                   talking, signals>>

\* No socket: release the lock and return -1.
ReturnError(w) ==
    /\ pc[w] = "test" /\ socket[w] = -1
    /\ lock' = Released(w)
    /\ Goto(w, "failed")
    /\ UNCHANGED <<socket, family, taken, fd, shutdownPending, backlog, toCome,
                   talking, signals>>

\* Seeded fault: the rejected connection is not closed.
BadDeny(w) ==
    /\ pc[w] = "test" /\ socket[w] # -1
    /\ family[w] = "inet" /\ Kind[taken[w]] = "denied"
    /\ socket' = [socket EXCEPT ![w] = -1]
    /\ Goto(w, "check")
    /\ UNCHANGED <<family, taken, fd, lock, shutdownPending, backlog, toCome, talking,
                   signals>>

\* A TCP client that ClientAddrOK rejects; go on accepting.
Deny(w) ==
    /\ pc[w] = "test" /\ socket[w] # -1
    /\ family[w] = "inet" /\ Kind[taken[w]] = "denied"
    /\ fd' = Closed(ProcOf[w], socket[w])
    /\ socket' = [socket EXCEPT ![w] = -1]
    /\ Goto(w, "check")
    /\ UNCHANGED <<family, taken, lock, shutdownPending, backlog, toCome, talking,
                   signals>>

\* A UNIX domain client, or a TCP client that is approved: leave the loop.
ReleaseLock(w) ==
    /\ pc[w] = "test" /\ socket[w] # -1
    /\ family[w] = "unix" \/ Kind[taken[w]] = "inet"
    /\ lock' = Released(w)
    /\ Goto(w, IF family[w] = "unix" THEN "poll" ELSE "has")
    /\ UNCHANGED <<socket, family, taken, fd, shutdownPending, backlog, toCome,
                   talking, signals>>

\* is_af_unix_keeper: poll(2) says that there is something to read.
Keeper(w) ==
    /\ pc[w] = "poll"
    /\ fd[ProcOf[w]][socket[w]] \in talking
    /\ Goto(w, "has")
    /\ UNCHANGED <<socket, family, taken, fd, lock, shutdownPending, backlog,
                   toCome, talking, signals>>

\* Seeded fault: a client that stays silent is closed, and returned.
BadNotKeeper(w) ==
    /\ pc[w] = "poll"
    /\ fd[ProcOf[w]][socket[w]] \notin talking
    /\ fd' = Closed(ProcOf[w], socket[w])
    /\ Goto(w, "has")
    /\ UNCHANGED <<socket, family, taken, lock, shutdownPending, backlog, toCome,
                   talking, signals>>

\* poll(2) timed out or reported POLLNVAL: close and start all over.  socket
\* keeps its value.
NotKeeper(w) ==
    /\ pc[w] = "poll"
    /\ fd[ProcOf[w]][socket[w]] \notin talking
    /\ fd' = Closed(ProcOf[w], socket[w])
    /\ Goto(w, "lock")
    /\ UNCHANGED <<socket, family, taken, lock, shutdownPending, backlog, toCome,
                   talking, signals>>

\* The request is done and OS_IpcClose is called on its connection.
Done(w) ==
    /\ pc[w] = "has"
    /\ fd' = Closed(ProcOf[w], socket[w])
    /\ Goto(w, "idle")
    /\ UNCHANGED <<socket, family, taken, lock, shutdownPending, backlog, toCome,
                   talking, signals>>

(***************************************************************************)
(* The environment                                                         *)
(***************************************************************************)

Connect(c) ==
    /\ c \in toCome
    /\ toCome' = toCome \ {c} /\ backlog' = backlog \cup {c}
    /\ UNCHANGED <<pc, socket, family, taken, fd, lock, shutdownPending, talking, signals>>

Talk(c) ==
    /\ c \notin toCome \cup talking
    /\ talking' = talking \cup {c}
    /\ UNCHANGED <<pc, socket, family, taken, fd, lock, shutdownPending, backlog,
                   toCome, signals>>

(***************************************************************************)
(* SIGUSR1 or SIGTERM, delivered to worker w: the handler sets             *)
(* shutdownPending, and a blocking call returns with EINTR.  In accept     *)
(* that ends the inner loop, in AcquireLock the call fails, and in         *)
(* is_af_unix_keeper the client counts as dead.                            *)
(***************************************************************************)
Signal(w) ==
    /\ signals < MaxSignals
    /\ signals' = signals + 1
    /\ pc[w] # "dead"
    /\ shutdownPending' = [shutdownPending EXCEPT ![ProcOf[w]] = TRUE]
    /\ \/ /\ pc[w] = "accept"
          /\ socket' = [socket EXCEPT ![w] = -1]
          /\ Goto(w, "test") /\ UNCHANGED fd
       \/ /\ pc[w] = "lock" /\ UseLocking /\ lock \notin {NoProc, ProcOf[w]}
          /\ Goto(w, "failed") /\ UNCHANGED <<socket, fd>>
       \/ /\ pc[w] = "poll"
          /\ fd' = Closed(ProcOf[w], socket[w])
          /\ Goto(w, "lock") /\ UNCHANGED socket
       \/ /\ pc[w] \notin {"accept", "poll"}
          /\ UNCHANGED <<pc, socket, fd>>
    /\ UNCHANGED <<family, taken, lock, backlog, toCome, talking>>

\* Some other signal, whose handler is the application's own: accept(2) and
\* fcntl(2) are restarted unless the request was opened with FailOnIntr.
Interrupt(w) ==
    /\ signals < MaxSignals
    /\ signals' = signals + 1
    /\ \/ /\ pc[w] = "accept"
          /\ socket' = [socket EXCEPT ![w] = -1]
          /\ Goto(w, IF FailOnIntr \/ shutdownPending[ProcOf[w]] THEN "test" ELSE "check")
          /\ UNCHANGED fd
       \/ /\ pc[w] = "lock" /\ UseLocking /\ lock \notin {NoProc, ProcOf[w]}
          /\ FailOnIntr \/ shutdownPending[ProcOf[w]]
          /\ Goto(w, "failed") /\ UNCHANGED <<socket, fd>>
       \/ /\ pc[w] = "poll"
          /\ fd' = Closed(ProcOf[w], socket[w])
          /\ Goto(w, "lock") /\ UNCHANGED socket
    /\ UNCHANGED <<family, taken, lock, shutdownPending, backlog, toCome, talking>>

\* A process dies: the kernel closes its descriptors and drops its lock.
Crash(p) ==
    /\ MayCrash
    /\ \E w \in Workers : ProcOf[w] = p /\ pc[w] # "dead"
    /\ pc' = [w \in Workers |-> IF ProcOf[w] = p THEN "dead" ELSE pc[w]]
    /\ fd' = [fd EXCEPT ![p] = [f \in Fds |-> NoConn]]
    /\ lock' = IF lock = p THEN NoProc ELSE lock
    /\ UNCHANGED <<socket, family, taken, shutdownPending, backlog, toCome, talking,
                   signals>>

Init ==
    /\ pc = [w \in Workers |-> "idle"]
    /\ socket = [w \in Workers |-> -1]
    /\ family = [w \in Workers |-> "unset"]
    /\ taken = [w \in Workers |-> NoConn]
    /\ fd = [p \in Procs |-> [f \in Fds |-> NoConn]]
    /\ lock = NoProc
    /\ shutdownPending = [p \in Procs |-> FALSE]
    /\ backlog = {} /\ toCome = Conns /\ talking = {}
    /\ signals = 0

\* What a worker does by itself; blocking calls are those not enabled.
Step(w) ==
    \/ Call(w) \/ AcquireLock(w) \/ CheckShutdown(w) \/ EnterAccept(w)
    \/ \E c \in Conns : Accept(w, c) \/ AcceptAborted(w, c)
    \/ AcceptFails(w) \/ ReturnError(w) \/ Deny(w) \/ ReleaseLock(w)
    \/ Keeper(w) \/ NotKeeper(w) \/ Done(w)

Environment ==
    \/ \E c \in Conns : Connect(c) \/ Talk(c)
    \/ \E w \in Workers : Signal(w) \/ Interrupt(w)
    \/ \E p \in Procs : Crash(p)

Next == Environment \/ \E w \in Workers : Step(w)

Spec == Init /\ [][Next]_vars

\* A runnable worker gets the processor.
FairSpec == Spec /\ \A w \in Workers : WF_vars(Step(w))

(***************************************************************************)
(* Properties                                                              *)
(***************************************************************************)

Locations == {"idle", "lock", "check", "window", "accept", "test", "poll",
              "has", "failed", "dead"}

(***************************************************************************)
(* Type correctness: socket is a descriptor number or -1 (never what an    *)
(* earlier descriptor table held), and every address has one of the two    *)
(* families that OS_Accept tells apart.                                    *)
(***************************************************************************)
TypeOK ==
    /\ pc \in [Workers -> Locations]
    /\ socket \in [Workers -> Fds \cup {-1}]
    /\ family \in [Workers -> {"unset", "inet", "unix"}]
    /\ taken \in [Workers -> Conns \cup {NoConn}]
    /\ fd \in [Procs -> [Fds -> Conns \cup {NoConn}]]
    /\ lock \in Procs \cup {NoProc}
    /\ shutdownPending \in [Procs -> BOOLEAN]
    /\ backlog \subseteq Conns /\ toCome \subseteq Conns /\ talking \subseteq Conns
    /\ signals \in 0 .. MaxSignals

(***************************************************************************)
(* A descriptor that OS_Accept returns is open, refers to the connection   *)
(* that this worker accepted, and stays so until the worker closes it: no  *)
(* other thread closes it or uses it.                                      *)
(***************************************************************************)
OwnConnection ==
    \A w \in Workers : pc[w] = "has" =>
        /\ taken[w] # NoConn
        /\ fd[ProcOf[w]][socket[w]] = taken[w]
        /\ Kind[taken[w]] # "denied"

Holds(w, p, f) ==
    ProcOf[w] = p /\ socket[w] = f /\ pc[w] \in {"test", "poll", "has"}

(***************************************************************************)
(* Every open descriptor is held by exactly one worker: rejected clients,  *)
(* dead clients and signals leak nothing and close nothing twice.          *)
(***************************************************************************)
NoLeak ==
    \A p \in Procs, f \in Fds : fd[p][f] # NoConn =>
        Cardinality({w \in Workers : Holds(w, p, f) /\ taken[w] = fd[p][f]}) = 1

Critical(w) == pc[w] \in {"check", "window", "accept", "test"}

(***************************************************************************)
(* With USE_LOCKING one process at a time is between AcquireLock and       *)
(* ReleaseLock, and a process that has left (by any of the returns, or by  *)
(* dying) does not keep the lock.                                          *)
(***************************************************************************)
OneAcceptor ==
    UseLocking =>
      /\ \A v, w \in Workers : Critical(v) /\ Critical(w) => ProcOf[v] = ProcOf[w]
      /\ lock # NoProc => \E w \in Workers : ProcOf[w] = lock /\ Critical(w)

Returned(w) == pc[w] \in {"failed", "has", "idle", "dead"}

(***************************************************************************)
(* "A Web server can request that a FastCGI application exit by sending it *)
(* SIGTERM": a worker whose process has been told to shut down and that is *)
(* past the lock, but not in the window before accept(2), returns from     *)
(* OS_Accept.                                                              *)
(***************************************************************************)
ShutdownReturns ==
    \A w \in Workers :
      (shutdownPending[ProcOf[w]] /\ pc[w] \in {"check", "test", "poll"}) ~> Returned(w)

(***************************************************************************)
(* A connection does not stay in the backlog for ever while a worker is    *)
(* left: one that returned with an error or died, wherever that was, does  *)
(* not keep the others from accepting.                                     *)
(***************************************************************************)
BacklogDrained ==
    \A c \in Conns :
      c \in backlog ~> (c \notin backlog \/ \A w \in Workers : pc[w] \in {"failed", "dead"})
=============================================================================
