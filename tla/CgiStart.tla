------------------------------ MODULE CgiStart ------------------------------
(***************************************************************************)
(* How cgi-fcgi comes by a connection: ParseArgs, main up to the first      *)
(* record, and FCGI_Start of cgi-fcgi/cgi-fcgi.c, with OS_CreateLocalIpcFd, *)
(* OS_FcgiConnect and OS_SpawnChild of libfcgi/os_unix.c.  Several bridges   *)
(* run at once and share one name, the path of a UNIX domain socket or a    *)
(* port; what follows once a bridge is connected is CgiFcgi's subject.      *)
(* A bridge makes at most one listening socket and it is named after the    *)
(* bridge; a file of the name outlives the socket, a port does not.         *)
(***************************************************************************)
EXTENDS Integers, Sequences, FiniteSets, SequencesExt

CONSTANTS
    Bridges,      \* processes that run cgi-fcgi
    ArgLists,     \* command lines, sequences of words
    CmdFiles,     \* command files for -f: a function from names to command lines
    Tcp,          \* TRUE: the name is a port
    Backlog,      \* connections that wait at a listening socket
    MaxServers,   \* bound: the largest <nServers>
    MaxFaults     \* bound: signals, crashes and calls that fail

None == "none"
Servers == 1 .. MaxServers

ASSUME StartAssumption ==
    /\ None \notin Bridges /\ Tcp \in BOOLEAN
    /\ {Backlog, MaxServers} \subseteq Nat \ {0} /\ MaxFaults \in Nat

(***************************************************************************)
(* ParseArgs.  A word is what ParseArgs makes of it: an option, a number   *)
(* (0 stands for any that atoi makes no positive number of), "overlong" for *)
(* MAXPATHLEN and more, or a name: "path", "far" (no socket has it:         *)
(* too long for sun_path, or a host unknown), "app", "data" (a file that is *)
(* not executable).                                                         *)
(***************************************************************************)
Defaults ==
    [doBind |-> TRUE, doStart |-> TRUE, connect |-> None, app |-> None,
     nServers |-> 0, doDaemon |-> TRUE, err |-> FALSE, next |-> "word"]

IsOption(w) == w \in {"-f", "-start", "-bind", "-connect", "-supervise", "-other"}
IsNumber(w) == w \in {"0", "1", "2"}
AToI(w) == CASE w = "1" -> 1 [] w = "2" -> 2 [] OTHER -> 0

Erroneous(o) == [o EXCEPT !.err = TRUE]

Option(o, w) ==
    CASE w = "-f"         -> [o EXCEPT !.next = "file"]
      [] w = "-start"     -> [o EXCEPT !.doBind = FALSE]
      [] w = "-bind"      -> [o EXCEPT !.doStart = FALSE]
      [] w = "-connect"   -> [o EXCEPT !.next = "name"]
      [] w = "-supervise" -> [o EXCEPT !.doDaemon = FALSE]
      [] OTHER            -> Erroneous(o)

\* The first word that is no option is appPath, whatever it looks like.
Argument(o, w) ==
    CASE o.app = None /\ w # "overlong"    -> [o EXCEPT !.app = w]
      [] o.app = None /\ w = "overlong"    -> Erroneous(o)
      [] o.app # None /\ IsNumber(w) /\ o.nServers = 0 ->
             [o EXCEPT !.nServers = AToI(w), !.err = @ \/ AToI(w) <= 0]
      [] OTHER                             -> Erroneous(o)

\* An iteration of the loop.  -connect takes any word that is short enough.
ParseWord(o, w) ==
    CASE o.next = "name" ->
             IF w = "overlong" THEN Erroneous([o EXCEPT !.next = "word"])
             ELSE [o EXCEPT !.next = "word", !.connect = w]
      [] o.next = "word" /\ IsOption(w)  -> Option(o, w)
      [] o.next = "word" /\ ~IsOption(w) -> Argument(o, w)
      [] o.next = "file" -> [o EXCEPT !.next = w]    \* the rest is ignored
      [] OTHER           -> o

\* What is tested after the loop
Checked(o) ==
    [o EXCEPT !.err = @ \/ o.next = "name" \/ o.connect = None
                        \/ (o.doStart /\ o.app = None),
              !.nServers = IF @ = 0 THEN 1 ELSE @]

\* -f: the file's words replace all, errors found before -f included.  In
\* a file there is no further -f here.
ParseArgs(argv) ==
    LET o == FoldLeft(ParseWord, Defaults, argv)
    IN  CASE o.next \in {"word", "name"}  -> Checked(o)
          [] o.next \in DOMAIN CmdFiles   ->
                 Checked(FoldLeft(ParseWord, Defaults, CmdFiles[o.next]))
          [] OTHER                        -> Erroneous(o)

VARIABLES
    opt,      \* what ParseArgs made of each bridge's command line
    pc,       \* where each bridge is, or how it ended
    path,     \* the socket the name leads to, or None
    sock,     \* of each bridge's listening socket: "none", "bound", "listening"
    queue,    \* connections (bridges) that wait at it
    server,   \* server[b][i]: the i-th application process b started
    peer,     \* the server that has accepted a bridge's connection, or <<>>
    faults    \* history: signals, crashes and calls that failed

vars == <<opt, pc, path, sock, queue, server, peer, faults>>

Ends == {"usage", "no connection", "failed", "lost", "served", "started", "killed"}

\* Servers of b that run
Alive(srv, b) == {i \in Servers : srv[b][i] \notin {"none", "dead"}}

\* Seeded fault: FCGI_Start does not close its listening socket.
BadHolding(p, b) ==
    p[b] \in {"listen", "access", "spawn", "close", "reconnect", "wait"}
       \/ (p[b] = "relay" /\ sock[b] # "none")

\* From bind(2) to the end of FCGI_Start
Holding(p, b) == p[b] \in {"listen", "access", "spawn", "close"}

\* Some process has b's listening socket open.
Open(p, srv, b) == Holding(p, b) \/ Alive(srv, b) # {}

\* Where connect(2) arrives; a queue that is full makes it wait.
Listening == path # None /\ sock[path] = "listening" /\ Open(pc, server, path)

\* Processes come to the states p and srv.  The kernel resets the connections
\* of processes that are gone, and cgi-fcgi ends when it reads nothing.
Settle(p, srv) ==
    LET gone(b) == \/ \E c \in Bridges : b \in ToSet(queue[c]) /\ ~Open(p, srv, c)
                   \/ peer[b] # <<>> /\ srv[peer[b][1]][peer[b][2]] = "dead"
        end == [b \in Bridges |-> IF p[b] = "relay" /\ gone(b) THEN "lost" ELSE p[b]]
        cut(q) == SelectSeq(q, LAMBDA b : end[b] \notin Ends)
    IN  /\ pc' = end /\ server' = srv
        /\ queue' = [c \in Bridges |-> cut(queue[c])]
        /\ peer' = [b \in Bridges |-> IF end[b] \in Ends THEN <<>> ELSE peer[b]]

Goto(b, l) == Settle([pc EXCEPT ![b] = l], server)

Init ==
    /\ opt \in [Bridges -> {ParseArgs(a) : a \in ArgLists}]
    /\ pc = [b \in Bridges |-> "main"]
    /\ path = None
    /\ sock = [b \in Bridges |-> "none"]
    /\ queue = [b \in Bridges |-> <<>>]
    /\ server = [b \in Bridges |-> [i \in Servers |-> "none"]]
    /\ peer = [b \in Bridges |-> <<>>]
    /\ faults = 0

(***************************************************************************)
(* main and FCGI_Start                                                     *)
(***************************************************************************)
Begin(b) ==
    /\ pc[b] = "main"
    /\ Goto(b, CASE opt[b].err     -> "usage"
                 [] ~opt[b].err /\ opt[b].doBind -> "connect"
                 [] OTHER -> IF opt[b].doStart THEN "create" ELSE "no connection")
    /\ UNCHANGED <<opt, path, sock, faults>>

\* OS_FcgiConnect; a name that no socket has ends the process.
Connects(b) ==
    /\ pc[b] \in {"connect", "reconnect"}
    /\ opt[b].connect # "far" /\ Listening
    /\ Len(queue[path]) < Backlog
    /\ pc' = [pc EXCEPT ![b] = "relay"]
    /\ queue' = [queue EXCEPT ![path] = Append(@, b)]
    /\ UNCHANGED <<opt, path, sock, server, peer, faults>>

Refused(b) ==
    /\ pc[b] \in {"connect", "reconnect"}
    /\ opt[b].connect = "far" \/ ~Listening
    /\ Goto(b, CASE opt[b].connect = "far" -> "failed"
                 [] opt[b].connect # "far" /\ pc[b] = "connect" /\ opt[b].doStart -> "create"
                 [] OTHER -> "no connection")
    /\ UNCHANGED <<opt, path, sock, faults>>

OS_FcgiConnect(b) == Connects(b) \/ Refused(b)

\* OS_CreateLocalIpcFd up to bind(2): unlink(bindPath) comes before it.
Unlink(b) ==
    /\ pc[b] = "create"
    /\ path' = IF Tcp \/ opt[b].connect = "far" THEN path ELSE None
    /\ Goto(b, IF opt[b].connect = "far" THEN "failed" ELSE "bind")
    /\ UNCHANGED <<opt, sock, faults>>

\* bind(2) of a file needs that there is none, of a port that no one listens.
\* A port that is bound is like one that is not till listen(2).
Bind(b) ==
    /\ pc[b] = "bind"
    /\ IF IF Tcp THEN Listening ELSE path # None
       THEN Goto(b, "failed") /\ UNCHANGED <<path, sock>>
       ELSE /\ Goto(b, "listen")
            /\ path' = b
            /\ sock' = [sock EXCEPT ![b] = IF Tcp THEN "listening" ELSE "bound"]
    /\ UNCHANGED <<opt, faults>>

\* Seeded fault: no listen(2).
BadListen(b) ==
    /\ pc[b] = "listen"
    /\ Goto(b, "access")
    /\ UNCHANGED <<opt, path, sock, faults>>

Listen(b) ==
    /\ pc[b] = "listen"
    /\ sock' = [sock EXCEPT ![b] = "listening"]
    /\ Goto(b, "access")
    /\ UNCHANGED <<opt, path, faults>>

\* access(appPath, X_OK), when the socket is there already
Access(b) ==
    /\ pc[b] = "access"
    /\ Goto(b, IF opt[b].app = "app" THEN "spawn" ELSE "failed")
    /\ UNCHANGED <<opt, path, sock, faults>>

Fault == faults < MaxFaults /\ faults' = faults + 1

\* OS_SpawnChild: fork(2).  The child has the handlers of the bridge.
OS_SpawnChild(b) ==
    /\ pc[b] = "spawn"
    /\ LET i == Cardinality({j \in Servers : server[b][j] # "none"}) + 1
       IN  Settle([pc EXCEPT ![b] = IF i = opt[b].nServers THEN "close" ELSE "spawn"],
                  [server EXCEPT ![b][i] = "forked"])
    /\ UNCHANGED <<opt, path, sock, faults>>

ForkFails(b) ==
    /\ pc[b] = "spawn"
    /\ Fault /\ Goto(b, "failed")
    /\ UNCHANGED <<opt, path, sock>>

\* OS_Close(listenFd, TRUE): shutdown(2) of a socket that listens changes nothing.
CloseListener(b) ==
    /\ pc[b] = "close"
    /\ Goto(b, CASE opt[b].doBind -> "reconnect"
                 [] OTHER -> IF opt[b].doDaemon THEN "kill" ELSE "wait")
    /\ UNCHANGED <<opt, path, sock, faults>>

\* wait(0) for nServers children
Wait(b) ==
    /\ pc[b] = "wait"
    /\ Alive(server, b) = {}
    /\ Goto(b, "kill")
    /\ UNCHANGED <<opt, path, sock, faults>>

\* A signal of the group ends a server at once, unless OS_LibInit has caught
\* it: then shutdownPending is set.
Terminated(s) ==
    CASE s \in {"forked", "starting"} -> "dead"
      [] s = "ready"                  -> "leaving"
      [] OTHER                        -> s

KillGroup(b) == [server EXCEPT ![b] = [i \in Servers |-> Terminated(server[b][i])]]

\* kill(0, SIGTERM) and exit(0)
Kill(b) ==
    /\ pc[b] = "kill"
    /\ Settle([pc EXCEPT ![b] = "started"], KillGroup(b))
    /\ UNCHANGED <<opt, path, sock, faults>>

\* handle_shutdown: the Web server, or init, signals the bridge.
HandleShutdown(b) ==
    /\ pc[b] \notin Ends \cup {"main"}
    /\ Fault
    /\ Settle([pc EXCEPT ![b] = "killed"], KillGroup(b))
    /\ UNCHANGED <<opt, path, sock>>

(***************************************************************************)
(* The application processes                                               *)
(***************************************************************************)
Becomes(b, i, s) == Settle(pc, [server EXCEPT ![b][i] = s])

\* The child closes and replaces its descriptors and calls execl.
Exec(b, i) ==
    /\ server[b][i] = "forked"
    /\ Becomes(b, i, "starting")
    /\ UNCHANGED <<opt, path, sock, faults>>

\* OS_LibInit; OS_IsFcgi finds that descriptor 0 listens.
LibInit(b, i) ==
    /\ server[b][i] = "starting"
    /\ Becomes(b, i, "ready")
    /\ UNCHANGED <<opt, path, sock, faults>>

Idle(b, i) == \A c \in Bridges : peer[c] # <<b, i>>

Accept(b, i) ==
    /\ server[b][i] = "ready" /\ Idle(b, i) /\ queue[b] # <<>>
    /\ peer' = [peer EXCEPT ![Head(queue[b])] = <<b, i>>]
    /\ queue' = [queue EXCEPT ![b] = Tail(@)]
    /\ UNCHANGED <<opt, pc, path, sock, server, faults>>

\* The application answers, and the bridge ends with FCGIexit.
Answer(b, i) ==
    \E c \in Bridges :
       /\ peer[c] = <<b, i>>
       /\ Goto(c, "served")
       /\ UNCHANGED <<opt, path, sock, faults>>

\* FCGX_Accept_r fails when shutdownPending is set.
Leave(b, i) ==
    /\ server[b][i] = "leaving" /\ Idle(b, i)
    /\ Becomes(b, i, "dead")
    /\ UNCHANGED <<opt, path, sock, faults>>

Crash(b, i) ==
    /\ i \in Alive(server, b)
    /\ Fault /\ Becomes(b, i, "dead")
    /\ UNCHANGED <<opt, path, sock>>

BridgeStep(b) ==
    \/ Begin(b) \/ OS_FcgiConnect(b) \/ Unlink(b) \/ Bind(b) \/ Listen(b) \/ Access(b)
    \/ OS_SpawnChild(b) \/ CloseListener(b) \/ Wait(b) \/ Kill(b)
ServerStep(b, i) == Exec(b, i) \/ LibInit(b, i) \/ Accept(b, i) \/ Answer(b, i) \/ Leave(b, i)

Next ==
    \E b \in Bridges :
       \/ BridgeStep(b) \/ ForkFails(b) \/ HandleShutdown(b)
       \/ \E i \in Servers : ServerStep(b, i) \/ Crash(b, i)

\* Processes run unless they block, and applications answer.
Fairness ==
    \A b \in Bridges :
       WF_vars(BridgeStep(b)) /\ \A i \in Servers : WF_vars(ServerStep(b, i))

Spec == Init /\ [][Next]_vars
FairSpec == Spec /\ Fairness

(***************************************************************************)
(* Properties                                                              *)
(***************************************************************************)

\* A bridge that was asked for a connection ends, whatever the others do: the
\* listening socket it may have made does not keep it waiting for an
\* application that is gone (OS_Close in FCGI_Start).
BridgesEnd ==
    \A b \in Bridges : opt[b].doBind ~> pc[b] \in Ends

\* FCGI_Start gives what it is for: when the second OS_FcgiConnect fails,
\* another bridge has replaced the socket, or every application that was
\* started is gone through a fault or a signal.
StartedCanConnect ==
    \A b \in Bridges :
       (pc[b] = "no connection" /\ sock[b] # "none")
          => path # b \/ (faults > 0 /\ Alive(server, b) = {})

\* -start leaves behind the application processes that it started (violated:
\* kill(0, SIGTERM) ends them unless -supervise made it wait for their end).
StartLeavesServers ==
    \A b \in Bridges :
       (pc[b] = "started" /\ opt[b].doDaemon /\ faults = 0)
          => \A i \in 1 .. opt[b].nServers : server[b][i] \notin {"leaving", "dead"}

\* A service that can be reached stays reachable (violated: between the
\* connect(2) that fails and unlink(2) another bridge may have started one).
ServiceKept ==
    [][\A c \in Bridges :
          (path = c /\ ~Tcp /\ sock[c] = "listening" /\ Alive(server, c) # {})
             => (path' = c \/ \E b \in Bridges : pc[b] = "create" /\ ~opt[b].doBind)]_vars
=============================================================================
