------------------------------ MODULE AsyncIo -------------------------------
(***************************************************************************)
(* The asynchronous I/O of libfcgi/os_unix.c: a table of operations, the   *)
(* descriptor sets that OS_DoIo gives to select(2), and the sets of events *)
(* that it has seen but not dispatched.                                    *)
(*                                                                         *)
(* The state of the file is a record a: readFdSet, writeFdSet,             *)
(* readFdSetPost, writeFdSetPost; rdUse and wrUse, the descriptors whose   *)
(* table entry has inUse set; numRdPosted, numWrPosted, maxFd,             *)
(* asyncIoTableSize and asyncIoInUse.                                      *)
(***************************************************************************)
EXTENDS Integers, FiniteSets

CONSTANTS
    Fds,           \* the descriptors of the process
    TableSize      \* the first asyncIoTableSize

ASSUME AsyncAssumption == Fds \subseteq Nat /\ TableSize \in Nat \ {0}

AIO_RD_IX(fd) == 2 * fd
AIO_WR_IX(fd) == 2 * fd + 1

Larger(x, y) == IF x >= y THEN x ELSE y

OS_LibInit ==
    [readFdSet |-> {}, writeFdSet |-> {}, readFdSetPost |-> {}, writeFdSetPost |-> {},
     rdUse |-> {}, wrUse |-> {}, numRdPosted |-> 0, numWrPosted |-> 0,
     maxFd |-> -1, asyncIoTableSize |-> TableSize, asyncIoInUse |-> FALSE]

\* Seeded fault: the table is doubled only once.
BadGrowAsyncTable(size, index) == IF index >= size THEN 2 * size ELSE size

\* By how much k calls of GrowAsyncTable enlarge the table.
Doubled[k \in Nat] == IF k = 0 THEN 1 ELSE 2 * Doubled[k - 1]

First(S) == CHOOSE i \in S : \A j \in S : i <= j

\* The table is doubled until it has an entry index.
GrowAsyncTable(size, index) ==
    size * Doubled[First({k \in 0 .. index : size * Doubled[k] > index})]

\* Seeded fault: maxFd is not raised.
BadOS_AsyncRead(a, fd) ==
    [a EXCEPT !.asyncIoInUse = TRUE,
              !.asyncIoTableSize = GrowAsyncTable(@, AIO_RD_IX(fd)),
              !.rdUse = @ \cup {fd}, !.readFdSet = @ \cup {fd}]

\* OS_AsyncRead; OS_AsyncReadStdin is the same for descriptor 0.
OS_AsyncRead(a, fd) ==
    [a EXCEPT !.asyncIoInUse = TRUE, !.maxFd = Larger(@, fd),
              !.asyncIoTableSize = GrowAsyncTable(@, AIO_RD_IX(fd)),
              !.rdUse = @ \cup {fd}, !.readFdSet = @ \cup {fd}]

OS_AsyncWrite(a, fd) ==
    [a EXCEPT !.asyncIoInUse = TRUE, !.maxFd = Larger(@, fd),
              !.asyncIoTableSize = GrowAsyncTable(@, AIO_WR_IX(fd)),
              !.wrUse = @ \cup {fd}, !.writeFdSet = @ \cup {fd}]

\* The part of OS_Close that concerns the table.  The counters of posted
\* events stay as they are.  The index is not compared with asyncIoTableSize:
\* for a descriptor beyond the table, which has no operation, the code tests
\* and clears a word behind it (os_unix.c:764, :773, and :827 in
\* OS_CloseRead).  That word is none of the state here, which stays as it is.
OS_Close(a, fd) ==
    IF ~ a.asyncIoInUse THEN a
    ELSE [a EXCEPT !.readFdSet = @ \ {fd}, !.readFdSetPost = @ \ {fd}, !.rdUse = @ \ {fd},
                   !.writeFdSet = @ \ {fd}, !.writeFdSetPost = @ \ {fd}, !.wrUse = @ \ {fd},
                   !.maxFd = IF @ = fd THEN @ - 1 ELSE @]

\* OS_CloseRead: a posted read stays posted.
OS_CloseRead(a, fd) ==
    IF fd \notin a.rdUse THEN a
    ELSE [a EXCEPT !.rdUse = @ \ {fd}, !.readFdSet = @ \ {fd}]

(***************************************************************************)
(* OS_DoIo: select(2) is only called when no event is left over; then the  *)
(* events are dispatched by ascending descriptor, reads before writes.  An *)
(* event is named by its index in the table.                               *)
(***************************************************************************)

NothingPosted(a) == a.numRdPosted = 0 /\ a.numWrPosted = 0

\* What select(2) reports if the descriptors in R and W are ready.
SelectReads(a, R) == {fd \in a.readFdSet \cap R : fd <= a.maxFd}
SelectWrites(a, W) == {fd \in a.writeFdSet \cap W : fd <= a.maxFd}

\* The events of R and W are posted.
Posted(a, R, W) ==
    [a EXCEPT !.readFdSet = @ \ R, !.readFdSetPost = @ \cup R,
              !.numRdPosted = @ + Cardinality(R),
              !.writeFdSet = @ \ W, !.writeFdSetPost = @ \cup W,
              !.numWrPosted = @ + Cardinality(W)]

\* The events that the dispatching loop still finds, at index from or later.
Events(a, from) ==
    LET rd == {AIO_RD_IX(fd) : fd \in {f \in a.readFdSetPost \cap a.rdUse : f <= a.maxFd}}
        wr == {AIO_WR_IX(fd) : fd \in {f \in a.writeFdSetPost \cap a.wrUse : f <= a.maxFd}}
    IN  {ix \in rd \cup wr : ix >= from}

\* The operation of event ix is done and its callback is about to be called.
Completed(a, ix) ==
    LET fd == ix \div 2
    IN  IF ix % 2 = 0
          THEN [a EXCEPT !.numRdPosted = @ - 1, !.readFdSetPost = @ \ {fd}, !.rdUse = @ \ {fd}]
          ELSE [a EXCEPT !.numWrPosted = @ - 1, !.writeFdSetPost = @ \ {fd}, !.wrUse = @ \ {fd}]
=============================================================================
