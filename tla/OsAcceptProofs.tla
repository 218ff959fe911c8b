--------------------------- MODULE OsAcceptProofs ---------------------------
(***************************************************************************)
(* Proofs about OsAccept, for any number of processes, threads,            *)
(* connections, descriptors and signals, with and without USE_LOCKING,     *)
(* and with processes that die anywhere.                                   *)
(***************************************************************************)
EXTENDS OsAccept, FiniteSetTheorems, NatSetProofs, TLAPS

(***************************************************************************)
(* What OS_Accept promises depends on who shares a process.  fcntl locks   *)
(* do not exclude threads of one process, so the lock is only a lock       *)
(* between single-threaded processes.  A UNIX domain client that is found  *)
(* dead leaves a closed number in socket, which another thread may get     *)
(* again; descriptors are safe if one of the two cannot happen.            *)
(***************************************************************************)
SingleThreaded == \A v, w \in Workers : ProcOf[v] = ProcOf[w] => v = w

NoUnixClients == \A c \in Conns : Kind[c] # "unix"

NumbersNotShared == SingleThreaded \/ NoUnixClients

\* w is in the part of OS_Accept, or of the request, where socket is in use.
Using(w) == pc[w] \in {"test", "poll", "has"} /\ socket[w] # -1

Own(w) == fd[ProcOf[w]][socket[w]] = taken[w]

\* socket is what a dead client left; the kernel knows the number no more.
Stale(w) ==
    /\ Kind[taken[w]] = "unix" /\ pc[w] # "has"
    /\ fd[ProcOf[w]][socket[w]] = NoConn

\* socket, sa and the history of the last accept(2) go together.
AddressKnown ==
    \A w \in Workers :
      /\ pc[w] \in {"poll", "has"} => socket[w] # -1
      /\ socket[w] # -1 /\ pc[w] \notin {"idle", "failed", "dead"} =>
           /\ taken[w] \in Conns /\ family[w] = Family(taken[w])
           /\ pc[w] \notin {"test", "has"} => Kind[taken[w]] = "unix"

\* A socket in use is the worker's own connection, or closed.
OwnOrStale ==
    \A w \in Workers : Using(w) =>
      /\ Own(w) \/ Stale(w)
      /\ pc[w] = "has" => Kind[taken[w]] # "denied"

\* No two workers of a process use one number.
Distinct ==
    \A v, w \in Workers :
      Using(v) /\ Using(w) /\ ProcOf[v] = ProcOf[w] /\ socket[v] = socket[w] => v = w

\* An open descriptor is in use by a worker.
Held ==
    \A p \in Procs, f \in Fds : fd[p][f] # NoConn =>
      \E w \in Workers : Holds(w, p, f) /\ taken[w] = fd[p][f]

DescriptorInv == TypeOK /\ AddressKnown /\ OwnOrStale /\ Distinct /\ Held

\* The lock is held by the process that is past AcquireLock, and by no other.
LockInv ==
    UseLocking =>
      /\ \A w \in Workers : Critical(w) => lock = ProcOf[w]
      /\ lock # NoProc => \E w \in Workers : ProcOf[w] = lock /\ Critical(w)

-----------------------------------------------------------------------------
\* accept(2) finds the lowest free number.
LEMMA MinLemma ==
    ASSUME NEW S, S \subseteq Nat, S # {}
    PROVE  Min(S) \in S
BY LeastElement DEF Min


\* The number that accept(2) hands out is one of the process, and free.
LEMMA LowestFree ==
    ASSUME NEW p \in Procs, FreeFds(p) # {}
    PROVE  Min(FreeFds(p)) \in Fds /\ fd[p][Min(FreeFds(p))] = NoConn
<1>1. FreeFds(p) \subseteq Nat
  BY AcceptAssumption DEF FreeFds
<1>2. Min(FreeFds(p)) \in FreeFds(p)
  BY <1>1, MinLemma
<1> QED
  BY <1>2 DEF FreeFds

\* The process of a worker is a process.
LEMMA ProcOfLemma == \A w \in Workers : ProcOf[w] \in Procs
BY DEF Procs

\* close(2) keeps the shape of the descriptor tables.
LEMMA ClosedType ==
    ASSUME TypeOK, NEW p \in Procs, NEW f
    PROVE  Closed(p, f) \in [Procs -> [Fds -> Conns \cup {NoConn}]]
BY DEF TypeOK, Closed

\* Type correctness is inductive by itself.
LEMMA TypeNext ==
    ASSUME TypeOK, [Next]_vars
    PROVE  TypeOK'
<1> USE AcceptAssumption, ProcOfLemma DEF TypeOK, Goto, Locations
<1>1. ASSUME NEW w \in Workers, Step(w)
      PROVE  TypeOK'
  <2>1. CASE Call(w)
    BY <2>1 DEF Call
  <2>2. CASE AcquireLock(w)
    BY <2>2 DEF AcquireLock
  <2>3. CASE CheckShutdown(w)
    BY <2>3 DEF CheckShutdown
  <2>4. CASE EnterAccept(w)
    BY <2>4 DEF EnterAccept
  <2>5. ASSUME NEW c \in Conns, Accept(w, c)
        PROVE  TypeOK'
    <3> DEFINE f == Min(FreeFds(ProcOf[w]))
    <3>1. f \in Fds
      BY <2>5, LowestFree DEF Accept
    <3>2. /\ fd' = [fd EXCEPT ![ProcOf[w]][f] = c]
          /\ socket' = [socket EXCEPT ![w] = f]
      BY <2>5 DEF Accept
    <3> HIDE DEF f
    <3> QED
      BY <2>5, <3>1, <3>2 DEF Accept, Family
  <2>6. ASSUME NEW c \in Conns, AcceptAborted(w, c)
        PROVE  TypeOK'
    BY <2>6 DEF AcceptAborted
  <2>7. CASE AcceptFails(w)
    BY <2>7 DEF AcceptFails
  <2>8. CASE ReturnError(w)
    BY <2>8 DEF ReturnError, Released
  <2>9. CASE Deny(w)
    BY <2>9, ClosedType DEF Deny
  <2>10. CASE ReleaseLock(w)
    BY <2>10 DEF ReleaseLock, Released
  <2>11. CASE Keeper(w)
    BY <2>11 DEF Keeper
  <2>12. CASE NotKeeper(w)
    BY <2>12, ClosedType DEF NotKeeper
  <2>13. CASE Done(w)
    BY <2>13, ClosedType DEF Done
  <2> QED
    BY <1>1, <2>1, <2>2, <2>3, <2>4, <2>5, <2>6, <2>7, <2>8, <2>9, <2>10, <2>11,
       <2>12, <2>13 DEF Step
<1>2. ASSUME NEW c \in Conns, Connect(c) \/ Talk(c)
      PROVE  TypeOK'
  BY <1>2 DEF Connect, Talk
<1>3. ASSUME NEW w \in Workers, Signal(w)
      PROVE  TypeOK'
  BY <1>3, ClosedType DEF Signal
<1>4. ASSUME NEW w \in Workers, Interrupt(w)
      PROVE  TypeOK'
  <2>1. fd' \in [Procs -> [Fds -> Conns \cup {NoConn}]]
    BY <1>4, ClosedType DEF Interrupt
  <2>2. pc' \in [Workers -> Locations]
    BY <1>4 DEF Interrupt
  <2> QED
    BY <1>4, <2>1, <2>2 DEF Interrupt
<1>5. ASSUME NEW p \in Procs, Crash(p)
      PROVE  TypeOK'
  BY <1>5 DEF Crash
<1>6. CASE UNCHANGED vars
  BY <1>6 DEF vars
<1> QED
  BY <1>1, <1>2, <1>3, <1>4, <1>5, <1>6 DEF Next, Environment

(***************************************************************************)
(* Closing the socket that w uses, as Deny, NotKeeper, Done and a signal   *)
(* during poll do, takes nothing from the other workers.                   *)
(***************************************************************************)
LEMMA CloseLemma ==
    ASSUME DescriptorInv, NumbersNotShared, NEW w \in Workers, Using(w),
           fd' = Closed(ProcOf[w], socket[w]), taken' = taken,
           \A v \in Workers \ {w} : pc'[v] = pc[v] /\ socket'[v] = socket[v],
           ~ Using(w)'
    PROVE  OwnOrStale' /\ Distinct' /\ Held'
<1> USE ProcOfLemma DEF DescriptorInv, TypeOK, Using
<1>1. socket[w] \in Fds
  OBVIOUS
<1>2. /\ fd'[ProcOf[w]][socket[w]] = NoConn
      /\ \A p \in Procs, f \in Fds :
            p # ProcOf[w] \/ f # socket[w] => fd'[p][f] = fd[p][f]
  BY <1>1 DEF Closed
<1>3. OwnOrStale'
  BY <1>2 DEF OwnOrStale, Own, Stale, Distinct
<1>4. Distinct'
  BY DEF Distinct
<1>5. Held'
  <2> SUFFICES ASSUME NEW p \in Procs, NEW f \in Fds, fd'[p][f] # NoConn
               PROVE  \E v \in Workers : (Holds(v, p, f) /\ taken[v] = fd[p][f])'
    BY DEF Held
  <2>1. fd'[p][f] = fd[p][f] /\ ~ (p = ProcOf[w] /\ f = socket[w])
    BY <1>2
  <2>2. PICK v \in Workers : Holds(v, p, f) /\ taken[v] = fd[p][f]
    BY <2>1 DEF Held
  <2>3. v # w
    BY <2>1, <2>2 DEF Holds
  <2> QED
    BY <2>1, <2>2, <2>3 DEF Holds
<1> QED
  BY <1>3, <1>4, <1>5

(***************************************************************************)
(* A step that leaves the descriptor tables alone, and in which no worker  *)
(* begins to use a number or stops using an open one.                      *)
(***************************************************************************)
LEMMA KeepLemma ==
    ASSUME DescriptorInv, fd' = fd,
           \A v \in Workers : Using(v)' =>
             /\ Using(v) /\ socket'[v] = socket[v] /\ taken'[v] = taken[v]
             /\ pc'[v] = "has" => pc[v] = "has" \/ (Own(v) /\ Kind[taken[v]] # "denied"),
           \A v \in Workers : Using(v) => Using(v)'
    PROVE  OwnOrStale' /\ Distinct' /\ Held'
<1> USE ProcOfLemma DEF DescriptorInv, TypeOK, Using
<1>1. OwnOrStale'
  BY DEF OwnOrStale, Own, Stale
<1>2. Distinct'
  BY DEF Distinct
<1>3. Held'
  BY AcceptAssumption DEF Held, Holds
<1> QED
  BY <1>1, <1>2, <1>3

(***************************************************************************)
(* AddressKnown, action by action: sa is set by accept(2) together with    *)
(* socket, and only a number left by a UNIX domain client survives in      *)
(* socket when the loops are entered again.                                *)
(***************************************************************************)
LEMMA AddressNext ==
    ASSUME DescriptorInv, [Next]_vars
    PROVE  AddressKnown'
<1> USE ProcOfLemma DEF DescriptorInv, TypeOK, AddressKnown, Goto, Locations
<1>1. ASSUME NEW w \in Workers, Step(w)
      PROVE  AddressKnown'
  <2>1. CASE Call(w)
    BY <2>1 DEF Call
  <2>2. CASE AcquireLock(w)
    BY <2>2 DEF AcquireLock
  <2>3. CASE CheckShutdown(w)
    BY <2>3 DEF CheckShutdown
  <2>4. CASE EnterAccept(w)
    BY <2>4 DEF EnterAccept
  <2>5. ASSUME NEW c \in Conns, Accept(w, c)
        PROVE  AddressKnown'
    BY <2>5 DEF Accept
  <2>6. ASSUME NEW c \in Conns, AcceptAborted(w, c)
        PROVE  AddressKnown'
    BY <2>6 DEF AcceptAborted
  <2>7. CASE AcceptFails(w)
    BY <2>7 DEF AcceptFails
  <2>8. CASE ReturnError(w)
    BY <2>8 DEF ReturnError
  <2>9. CASE Deny(w)
    BY <2>9 DEF Deny
  <2>10. CASE ReleaseLock(w)
    BY <2>10, AcceptAssumption DEF ReleaseLock, Family
  <2>11. CASE Keeper(w)
    BY <2>11 DEF Keeper
  <2>12. CASE NotKeeper(w)
    BY <2>12 DEF NotKeeper
  <2>13. CASE Done(w)
    BY <2>13 DEF Done
  <2> QED
    BY <1>1, <2>1, <2>2, <2>3, <2>4, <2>5, <2>6, <2>7, <2>8, <2>9, <2>10, <2>11,
       <2>12, <2>13 DEF Step
<1>2. ASSUME NEW c \in Conns, Connect(c) \/ Talk(c)
      PROVE  AddressKnown'
  BY <1>2 DEF Connect, Talk
<1>3. ASSUME NEW w \in Workers, Signal(w)
      PROVE  AddressKnown'
  BY <1>3 DEF Signal
<1>4. ASSUME NEW w \in Workers, Interrupt(w)
      PROVE  AddressKnown'
  BY <1>4 DEF Interrupt
<1>5. ASSUME NEW p \in Procs, Crash(p)
      PROVE  AddressKnown'
  BY <1>5 DEF Crash
<1>6. CASE UNCHANGED vars
  BY <1>6 DEF vars
<1> QED
  BY <1>1, <1>2, <1>3, <1>4, <1>5, <1>6 DEF Next, Environment

\* A number left in socket is closed when shutdownPending ends the loop.
LEMMA StaleLemma ==
    ASSUME DescriptorInv, NumbersNotShared, NEW w \in Workers,
           pc[w] = "check", socket[w] # -1
    PROVE  /\ Kind[taken[w]] = "unix" /\ fd[ProcOf[w]][socket[w]] = NoConn
           /\ \A v \in Workers : ProcOf[v] = ProcOf[w] => v = w
<1> USE ProcOfLemma DEF DescriptorInv, TypeOK
<1>1. Kind[taken[w]] = "unix" /\ taken[w] \in Conns
  BY DEF AddressKnown
<1>2. SingleThreaded
  BY <1>1 DEF NumbersNotShared, NoUnixClients
<1>3. socket[w] \in Fds
  OBVIOUS
<1>4. fd[ProcOf[w]][socket[w]] = NoConn
  BY <1>2, <1>3 DEF Held, Holds, SingleThreaded
<1> QED
  BY <1>1, <1>2, <1>4 DEF SingleThreaded

\* accept(2) gives w a number that nobody uses.
LEMMA AcceptLemma ==
    ASSUME DescriptorInv, NumbersNotShared, NEW w \in Workers, NEW c \in Conns,
           Accept(w, c)
    PROVE  OwnOrStale' /\ Distinct' /\ Held'
<1> USE ProcOfLemma, AcceptAssumption DEF DescriptorInv, TypeOK, Using
<1> DEFINE f == Min(FreeFds(ProcOf[w]))
           p == ProcOf[w]
<1>1. f \in Fds /\ fd[p][f] = NoConn
  BY LowestFree DEF Accept
<1>2. /\ pc[w] = "accept" /\ pc' = [pc EXCEPT ![w] = "test"]
      /\ fd' = [fd EXCEPT ![p][f] = c]
      /\ socket' = [socket EXCEPT ![w] = f]
      /\ taken' = [taken EXCEPT ![w] = c]
  BY DEF Accept, Goto
<1> HIDE DEF f
<1>3. ASSUME NEW v \in Workers, v # w, ProcOf[v] = p, Using(v)
      PROVE  socket[v] # f
  <2>1. taken[v] \in Conns /\ (Own(v) \/ Stale(v))
    BY <1>3 DEF AddressKnown, OwnOrStale
  <2>2. CASE NoUnixClients
    BY <1>1, <1>3, <2>1, <2>2 DEF Own, Stale, NoUnixClients
  <2>3. CASE SingleThreaded
    BY <1>3, <2>3 DEF SingleThreaded
  <2> QED
    BY <2>2, <2>3 DEF NumbersNotShared
<1>4. OwnOrStale'
  BY <1>1, <1>2, <1>3 DEF OwnOrStale, Own, Stale
<1>5. Distinct'
  BY <1>1, <1>2, <1>3 DEF Distinct
<1>6. Held'
  <2> SUFFICES ASSUME NEW q \in Procs, NEW g \in Fds, fd'[q][g] # NoConn
               PROVE  \E v \in Workers : (Holds(v, q, g) /\ taken[v] = fd[q][g])'
    BY DEF Held
  <2>1. CASE q = p /\ g = f
    BY <1>1, <1>2, <2>1 DEF Holds
  <2>2. CASE ~ (q = p /\ g = f)
    <3>1. fd'[q][g] = fd[q][g]
      BY <1>1, <1>2, <2>2
    <3>2. PICK v \in Workers : Holds(v, q, g) /\ taken[v] = fd[q][g]
      BY <3>1 DEF Held
    <3>3. v # w
      BY <1>2, <3>2 DEF Holds
    <3> QED
      BY <1>2, <3>1, <3>2, <3>3 DEF Holds
  <2> QED
    BY <2>1, <2>2
<1> QED
  BY <1>4, <1>5, <1>6

\* The kernel closes the descriptors of a process that dies.
LEMMA CrashLemma ==
    ASSUME DescriptorInv, NEW p \in Procs, Crash(p)
    PROVE  OwnOrStale' /\ Distinct' /\ Held'
<1> USE ProcOfLemma, AcceptAssumption DEF DescriptorInv, TypeOK, Using
<1>1. /\ fd' = [fd EXCEPT ![p] = [f \in Fds |-> NoConn]]
      /\ pc' = [w \in Workers |-> IF ProcOf[w] = p THEN "dead" ELSE pc[w]]
      /\ socket' = socket /\ taken' = taken
  BY DEF Crash
<1>2. OwnOrStale'
  BY <1>1 DEF OwnOrStale, Own, Stale
<1>3. Distinct'
  BY <1>1 DEF Distinct
<1>4. Held'
  <2> SUFFICES ASSUME NEW q \in Procs, NEW g \in Fds, fd'[q][g] # NoConn
               PROVE  \E v \in Workers : (Holds(v, q, g) /\ taken[v] = fd[q][g])'
    BY DEF Held
  <2>1. q # p /\ fd'[q][g] = fd[q][g]
    BY <1>1
  <2>2. PICK v \in Workers : Holds(v, q, g) /\ taken[v] = fd[q][g]
    BY <2>1 DEF Held
  <2> QED
    BY <1>1, <2>1, <2>2 DEF Holds
<1> QED
  BY <1>2, <1>3, <1>4

\* Every step keeps the inductive invariant of the descriptors.
LEMMA DescriptorNext ==
    ASSUME DescriptorInv, NumbersNotShared, [Next]_vars
    PROVE  DescriptorInv'
<1> SUFFICES OwnOrStale' /\ Distinct' /\ Held'
  BY TypeNext, AddressNext DEF DescriptorInv
<1> DEFINE Goal == OwnOrStale' /\ Distinct' /\ Held'
<1> USE ProcOfLemma DEF Goto, Locations, Using, DescriptorInv, TypeOK
<1>1. ASSUME NEW w \in Workers, Step(w)
      PROVE  Goal
  <2>1. CASE Call(w)
    BY <2>1, KeepLemma DEF Call
  <2>2. CASE AcquireLock(w)
    BY <2>2, KeepLemma DEF AcquireLock
  <2>3. CASE CheckShutdown(w) /\ pc'[w] = "test" /\ socket[w] # -1
    <3>1. /\ Kind[taken[w]] = "unix" /\ fd[ProcOf[w]][socket[w]] = NoConn
          /\ \A v \in Workers : ProcOf[v] = ProcOf[w] => v = w
          /\ pc[w] = "check" /\ pc' = [pc EXCEPT ![w] = "test"]
          /\ UNCHANGED <<fd, socket, taken>>
      BY <2>3, StaleLemma DEF CheckShutdown
    <3>2. OwnOrStale'
      BY <3>1 DEF OwnOrStale, Own, Stale
    <3>3. Distinct'
      BY <3>1 DEF Distinct
    <3>4. Held'
      BY <3>1 DEF Held, Holds
    <3> QED
      BY <3>2, <3>3, <3>4
  <2>4. CASE CheckShutdown(w) /\ ~ (pc'[w] = "test" /\ socket[w] # -1)
    BY <2>4, KeepLemma DEF CheckShutdown
  <2>5. CASE EnterAccept(w)
    BY <2>5, KeepLemma DEF EnterAccept
  <2>6. ASSUME NEW c \in Conns, Accept(w, c)
        PROVE  Goal
    BY <2>6, AcceptLemma
  <2>7. ASSUME NEW c \in Conns, AcceptAborted(w, c)
        PROVE  Goal
    BY <2>7, KeepLemma DEF AcceptAborted
  <2>8. CASE AcceptFails(w)
    BY <2>8, KeepLemma DEF AcceptFails
  <2>9. CASE ReturnError(w)
    BY <2>9, KeepLemma DEF ReturnError
  <2>10. CASE Deny(w)
    BY <2>10, CloseLemma DEF Deny
  <2>11. CASE ReleaseLock(w)
    <3>1. pc'[w] = "has" => Own(w) /\ Kind[taken[w]] # "denied"
      BY <2>11 DEF ReleaseLock, AddressKnown, OwnOrStale, Stale, Family
    <3> QED
      BY <2>11, <3>1, KeepLemma DEF ReleaseLock
  <2>12. CASE Keeper(w)
    <3>1. socket[w] # -1 /\ taken[w] \in Conns /\ Kind[taken[w]] = "unix"
      BY <2>12 DEF Keeper, AddressKnown
    <3>2. fd[ProcOf[w]][socket[w]] # NoConn
      BY <2>12, AcceptAssumption DEF Keeper
    <3>3. Own(w)
      BY <2>12, <3>1, <3>2 DEF Keeper, OwnOrStale, Stale
    <3> QED
      BY <2>12, <3>1, <3>3, KeepLemma DEF Keeper
  <2>13. CASE NotKeeper(w)
    BY <2>13, CloseLemma DEF NotKeeper, AddressKnown
  <2>14. CASE Done(w)
    BY <2>14, CloseLemma DEF Done, AddressKnown
  <2> QED
    BY <1>1, <2>1, <2>2, <2>3, <2>4, <2>5, <2>6, <2>7, <2>8, <2>9, <2>10, <2>11,
       <2>12, <2>13, <2>14 DEF Step
<1>2. ASSUME NEW c \in Conns, Connect(c) \/ Talk(c)
      PROVE  Goal
  BY <1>2, KeepLemma DEF Connect, Talk
<1>3. ASSUME NEW w \in Workers, Signal(w)
      PROVE  Goal
  <2>1. CASE pc[w] = "poll"
    BY <1>3, <2>1, CloseLemma DEF Signal, AddressKnown
  <2>2. CASE pc[w] # "poll"
    BY <1>3, <2>2, KeepLemma DEF Signal
  <2> QED
    BY <2>1, <2>2
<1>4. ASSUME NEW w \in Workers, Interrupt(w)
      PROVE  Goal
  <2>1. CASE pc[w] = "poll"
    BY <1>4, <2>1, CloseLemma DEF Interrupt, AddressKnown
  <2>2. CASE pc[w] # "poll"
    BY <1>4, <2>2, KeepLemma DEF Interrupt
  <2> QED
    BY <2>1, <2>2
<1>5. ASSUME NEW p \in Procs, Crash(p)
      PROVE  Goal
  BY <1>5, CrashLemma
<1>6. CASE UNCHANGED vars
  BY <1>6, KeepLemma DEF vars
<1> QED
  BY <1>1, <1>2, <1>3, <1>4, <1>5, <1>6 DEF Next, Environment

\* The initial state, and what the invariant gives.
LEMMA DescriptorInit == Init => DescriptorInv
BY AcceptAssumption, ProcOfLemma
   DEF Init, DescriptorInv, TypeOK, Locations, AddressKnown, OwnOrStale, Using,
       Distinct, Held

\* Exactly one worker holds an open descriptor: there is one, and no second.
LEMMA HeldByOne ==
    ASSUME DescriptorInv
    PROVE  NoLeak
<1> SUFFICES ASSUME NEW p \in Procs, NEW f \in Fds, fd[p][f] # NoConn
             PROVE  Cardinality({w \in Workers : Holds(w, p, f)
                                                    /\ taken[w] = fd[p][f]}) = 1
  BY DEF NoLeak
<1> DEFINE H == {w \in Workers : Holds(w, p, f) /\ taken[w] = fd[p][f]}
<1>1. PICK w \in Workers : Holds(w, p, f) /\ taken[w] = fd[p][f]
  BY DEF DescriptorInv, Held
<1>2. f # -1
  BY AcceptAssumption
<1>3. \A v \in H : v = w
  BY <1>1, <1>2 DEF DescriptorInv, Distinct, Using, Holds
<1>4. H = {w}
  BY <1>1, <1>3
<1> QED
  BY <1>4, FS_Singleton

(***************************************************************************)
(* Type correctness, for every mix of processes and threads.               *)
(***************************************************************************)
THEOREM TypeCorrect == Spec => []TypeOK
<1>1. Init => TypeOK
  BY DescriptorInit DEF DescriptorInv
<1>2. TypeOK /\ [Next]_vars => TypeOK'
  BY TypeNext
<1> QED
  BY <1>1, <1>2, PTL DEF Spec

\* The invariant of the descriptors, from its base case and its step.
LEMMA DescriptorInvariant ==
    ASSUME NumbersNotShared
    PROVE  Spec => []DescriptorInv
<1>1. DescriptorInv /\ [Next]_vars => DescriptorInv'
  BY DescriptorNext
<1> QED
  BY <1>1, DescriptorInit, PTL DEF Spec

(***************************************************************************)
(* OS_Accept returns the worker's own, open, approved connection, and it   *)
(* stays so until the worker closes it: in single-threaded processes       *)
(* whatever the clients, and with threads if no client uses a UNIX domain  *)
(* socket.  Signals, dead clients, rejected clients and crashes included.  *)
(***************************************************************************)
THEOREM ReturnsOwnConnection ==
    ASSUME NumbersNotShared
    PROVE  Spec => []OwnConnection
<1>1. DescriptorInv => OwnConnection
  BY AcceptAssumption
     DEF DescriptorInv, OwnConnection, OwnOrStale, AddressKnown, Using, Own, Stale
<1> QED
  BY <1>1, DescriptorInvariant, PTL

(***************************************************************************)
(* Under the same condition no descriptor is leaked, and none is held by   *)
(* two workers.                                                            *)
(***************************************************************************)
THEOREM NothingLeaks ==
    ASSUME NumbersNotShared
    PROVE  Spec => []NoLeak
<1>1. DescriptorInv => NoLeak
  BY HeldByOne
<1> QED
  BY <1>1, DescriptorInvariant, PTL

-----------------------------------------------------------------------------
\* A step of w that stays on its side of the lock leaves the lock alone.
LEMMA LockKept ==
    ASSUME LockInv, lock' = lock,
           \A v \in Workers : Critical(v)' <=> Critical(v)
    PROVE  LockInv'
BY DEF LockInv

\* w leaves the critical section and releases the lock.
LEMMA LockReleased ==
    ASSUME LockInv, SingleThreaded, NEW w \in Workers,
           Critical(w), lock' = Released(w), ~ Critical(w)',
           \A v \in Workers \ {w} : Critical(v)' <=> Critical(v)
    PROVE  LockInv'
<1> SUFFICES ASSUME UseLocking
             PROVE  LockInv'
  BY DEF LockInv
<1>1. lock = ProcOf[w] /\ lock' = NoProc
  BY DEF LockInv, Released
<1>2. \A v \in Workers : ~ Critical(v)'
  BY <1>1 DEF LockInv, SingleThreaded
<1> QED
  BY <1>1, <1>2 DEF LockInv

\* Every step keeps the lock with the process that is past AcquireLock.
LEMMA LockNext ==
    ASSUME SingleThreaded, TypeOK, LockInv, [Next]_vars
    PROVE  LockInv'
<1> USE ProcOfLemma DEF TypeOK, Goto, Critical
<1>1. ASSUME NEW w \in Workers, Step(w)
      PROVE  LockInv'
  <2>1. CASE Call(w)
    BY <2>1, LockKept DEF Call
  <2>2. CASE AcquireLock(w)
    BY <2>2, AcceptAssumption DEF AcquireLock, LockInv, SingleThreaded
  <2>3. CASE CheckShutdown(w)
    BY <2>3, LockKept DEF CheckShutdown
  <2>4. CASE EnterAccept(w)
    BY <2>4, LockKept DEF EnterAccept
  <2>5. ASSUME NEW c \in Conns, Accept(w, c) \/ AcceptAborted(w, c)
        PROVE  LockInv'
    BY <2>5, LockKept DEF Accept, AcceptAborted
  <2>6. CASE AcceptFails(w)
    BY <2>6, LockKept DEF AcceptFails
  <2>7. CASE ReturnError(w)
    BY <2>7, LockReleased DEF ReturnError
  <2>8. CASE Deny(w)
    BY <2>8, LockKept DEF Deny
  <2>9. CASE ReleaseLock(w)
    BY <2>9, LockReleased DEF ReleaseLock
  <2>10. CASE Keeper(w) \/ NotKeeper(w) \/ Done(w)
    BY <2>10, LockKept DEF Keeper, NotKeeper, Done
  <2> QED
    BY <1>1, <2>1, <2>2, <2>3, <2>4, <2>5, <2>6, <2>7, <2>8, <2>9, <2>10 DEF Step
<1>2. ASSUME NEW c \in Conns, Connect(c) \/ Talk(c)
      PROVE  LockInv'
  BY <1>2, LockKept DEF Connect, Talk
<1>3. ASSUME NEW w \in Workers, Signal(w)
      PROVE  LockInv'
  BY <1>3, LockKept DEF Signal
<1>4. ASSUME NEW w \in Workers, Interrupt(w)
      PROVE  LockInv'
  BY <1>4, LockKept DEF Interrupt
<1>5. ASSUME NEW p \in Procs, Crash(p)
      PROVE  LockInv'
  BY <1>5 DEF Crash, LockInv
<1>6. CASE UNCHANGED vars
  BY <1>6, LockKept DEF vars
<1> QED
  BY <1>1, <1>2, <1>3, <1>4, <1>5, <1>6 DEF Next, Environment

(***************************************************************************)
(* With USE_LOCKING, single-threaded processes exclude each other from     *)
(* accept(2), and the lock never outlives the process or the call that     *)
(* took it.                                                                *)
(***************************************************************************)
THEOREM OneProcessAccepts ==
    ASSUME SingleThreaded
    PROVE  Spec => []OneAcceptor
<1>1. Init => LockInv
  BY DEF Init, LockInv, Critical
<1>2. TypeOK /\ LockInv /\ [Next]_vars => LockInv'
  BY LockNext
<1>3. LockInv => OneAcceptor
  BY DEF LockInv, OneAcceptor
<1> QED
  BY <1>1, <1>2, <1>3, TypeCorrect, PTL DEF Spec

=============================================================================
