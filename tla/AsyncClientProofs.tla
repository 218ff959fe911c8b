-------------------------- MODULE AsyncClientProofs -------------------------
(***************************************************************************)
(* Proofs about AsyncIo and AsyncClient, for every set of descriptors,     *)
(* every first size of the table and any number of operations.             *)
(***************************************************************************)
EXTENDS AsyncClient, FiniteSetTheorems, NatSetProofs, TLAPS

-----------------------------------------------------------------------------
(* How the table grows *)

\* The first n doublings, as a function.
Doublings(n, f) ==
    /\ f \in [0 .. n -> Nat] /\ f[0] = 1
    /\ \A k \in 1 .. n : f[k] = 2 * f[k - 1]

\* They exist for every n,
LEMMA DoublingsExist == \A n \in Nat : \E f : Doublings(n, f)
<1> DEFINE S == {n \in Nat : \E f : Doublings(n, f)}
<1>1. 0 \in S
  <2>1. Doublings(0, [k \in 0 .. 0 |-> 1])
    BY DEF Doublings
  <2> QED
    BY <2>1
<1>2. ASSUME NEW n \in Nat, n \in S
      PROVE  n + 1 \in S
  <2>1. PICK f : Doublings(n, f)
    BY <1>2
  <2>2. Doublings(n + 1, [k \in 0 .. n + 1 |-> IF k = n + 1 THEN 2 * f[n] ELSE f[k]])
    BY <2>1 DEF Doublings
  <2> QED
    BY <2>2
<1> HIDE DEF S
<1>3. \A n \in Nat : n \in S
  BY <1>1, <1>2, SetInduction
<1> QED
  BY <1>3 DEF S

\* and agree with each other.
LEMMA DoublingsAgree ==
    ASSUME NEW m \in Nat, NEW f, Doublings(m, f),
           NEW n \in Nat, NEW g, Doublings(n, g)
    PROVE  \A k \in Nat : k <= m /\ k <= n => f[k] = g[k]
<1> DEFINE S == {k \in Nat : k <= m /\ k <= n => f[k] = g[k]}
<1>1. 0 \in S
  BY DEF Doublings
<1>2. ASSUME NEW k \in Nat, k \in S
      PROVE  k + 1 \in S
  <2> SUFFICES ASSUME k + 1 <= m, k + 1 <= n
               PROVE  f[k + 1] = g[k + 1]
    OBVIOUS
  <2>1. f[k] = g[k]
    BY <1>2
  <2>2. k + 1 \in 1 .. m /\ k + 1 \in 1 .. n /\ (k + 1) - 1 = k
    OBVIOUS
  <2>3. f[k + 1] = 2 * f[k] /\ g[k + 1] = 2 * g[k]
    BY <2>2 DEF Doublings
  <2> QED
    BY <2>1, <2>3
<1> HIDE DEF S
<1>3. \A k \in Nat : k \in S
  BY <1>1, <1>2, SetInduction
<1> QED
  BY <1>3 DEF S

\* So the recursive definition of Doubled says what it seems to say.
LEMMA DoubledUnfolds ==
    \A k \in Nat : Doubled[k] = IF k = 0 THEN 1 ELSE 2 * Doubled[k - 1]
<1> DEFINE D(n) == CHOOSE f : Doublings(n, f)
           G == [n \in Nat |-> D(n)[n]]
<1>1. \A n \in Nat : Doublings(n, D(n))
  BY DoublingsExist
<1> HIDE DEF D
<1>2. ASSUME NEW n \in Nat
      PROVE  G[n] = IF n = 0 THEN 1 ELSE 2 * G[n - 1]
  <2>1. CASE n = 0
    BY <1>1, <2>1 DEF Doublings
  <2>2. CASE n # 0
    <3>1. n - 1 \in Nat /\ n \in 1 .. n
      BY <2>2
    <3>2. D(n)[n] = 2 * D(n)[n - 1]
      BY <1>1, <3>1 DEF Doublings
    <3>3. D(n)[n - 1] = D(n - 1)[n - 1]
      BY <1>1, <3>1, DoublingsAgree
    <3> QED
      BY <2>2, <3>1, <3>2, <3>3
  <2> QED
    BY <2>1, <2>2
<1>3. G = [k \in Nat |-> IF k = 0 THEN 1 ELSE 2 * G[k - 1]]
  BY <1>2
<1> HIDE DEF G
<1>4. Doubled = [k \in Nat |-> IF k = 0 THEN 1 ELSE 2 * Doubled[k - 1]]
  BY <1>3 DEF Doubled
<1> QED
  BY <1>4

\* k doublings make it more than k times as large.
LEMMA DoubledGrows == \A k \in Nat : Doubled[k] \in Nat /\ Doubled[k] > k
<1> DEFINE S == {k \in Nat : Doubled[k] \in Nat /\ Doubled[k] > k}
<1>1. 0 \in S
  BY DoubledUnfolds
<1>2. ASSUME NEW k \in Nat, k \in S
      PROVE  k + 1 \in S
  <2>1. k + 1 \in Nat /\ k + 1 # 0 /\ (k + 1) - 1 = k
    OBVIOUS
  <2>2. Doubled[k + 1] = 2 * Doubled[k]
    BY <2>1, DoubledUnfolds
  <2> QED
    BY <1>2, <2>1, <2>2
<1> HIDE DEF S
<1>3. \A k \in Nat : k \in S
  BY <1>1, <1>2, SetInduction
<1> QED
  BY <1>3 DEF S

\* First is the least element of a set of indices or descriptors.
LEMMA FirstLemma ==
    ASSUME NEW S, S \subseteq Nat, S # {}
    PROVE  First(S) \in S /\ \A x \in S : First(S) <= x
BY LeastElement DEF First

(***************************************************************************)
(* Growing ends, the table then has the entry that was asked for, and it   *)
(* has not become smaller.                                                 *)
(***************************************************************************)
THEOREM TableGrowsEnough ==
    ASSUME NEW size \in Nat \ {0}, NEW index \in Nat
    PROVE  /\ GrowAsyncTable(size, index) \in Nat
           /\ GrowAsyncTable(size, index) > index
           /\ GrowAsyncTable(size, index) >= size
<1> DEFINE big == {k \in 0 .. index : size * Doubled[k] > index}
           k == First(big)
<1>1. \A d \in Nat : size * d \in Nat /\ size * d >= d
  OBVIOUS
<1>2. index \in big
  BY <1>1, DoubledGrows
<1>3. k \in big
  <2>1. big \subseteq Nat /\ big # {}
    BY <1>2
  <2> HIDE DEF big
  <2> QED
    BY <2>1, FirstLemma
<1>4. k \in Nat /\ size * Doubled[k] > index
  BY <1>3
<1>5. GrowAsyncTable(size, index) = size * Doubled[k]
  BY DEF GrowAsyncTable
<1> HIDE DEF k
<1>6. Doubled[k] \in Nat /\ Doubled[k] >= 1
  BY <1>4, DoubledGrows
<1>7. \A d \in Nat : d >= 1 => size * d >= size
  OBVIOUS
<1> QED
  BY <1>1, <1>4, <1>5, <1>6, <1>7

-----------------------------------------------------------------------------
(* The invariant *)

AioType ==
    [readFdSet : SUBSET Fds, writeFdSet : SUBSET Fds,
     readFdSetPost : SUBSET Fds, writeFdSetPost : SUBSET Fds,
     rdUse : SUBSET Fds, wrUse : SUBSET Fds,
     numRdPosted : Int, numWrPosted : Int, maxFd : Int,
     asyncIoTableSize : Nat \ {0}, asyncIoInUse : BOOLEAN]

\* Only so many operations are in progress as were started.
AioTyped ==
    /\ aio \in AioType
    /\ IsFiniteSet(aio.rdUse) /\ IsFiniteSet(aio.wrUse)
    /\ pc \in {"client", "dispatch", "callback"} /\ from \in Nat

(***************************************************************************)
(* What makes Accounted inductive: the dispatching loop never passes a     *)
(* posted event by, and so leaves none behind when OS_DoIo returns.        *)
(***************************************************************************)
NonePassedBy ==
    /\ pc = "client" => aio.readFdSetPost = {} /\ aio.writeFdSetPost = {}
    /\ \A fd \in aio.readFdSetPost : AIO_RD_IX(fd) >= from
    /\ \A fd \in aio.writeFdSetPost : AIO_WR_IX(fd) >= from

AsyncInv == AioTyped /\ Accounted /\ NonePassedBy

-----------------------------------------------------------------------------
(* The operations on the table, field by field *)

Aio(rs, ws, rp, wp, ru, wu, nr, nw, max, size, inUse) ==
    [readFdSet |-> rs, writeFdSet |-> ws, readFdSetPost |-> rp, writeFdSetPost |-> wp,
     rdUse |-> ru, wrUse |-> wu, numRdPosted |-> nr, numWrPosted |-> nw,
     maxFd |-> max, asyncIoTableSize |-> size, asyncIoInUse |-> inUse]

\* The fields of a state, and their types.
LEMMA FieldTypes ==
    ASSUME NEW a \in AioType
    PROVE  /\ a.readFdSet \in SUBSET Fds /\ a.writeFdSet \in SUBSET Fds
           /\ a.readFdSetPost \in SUBSET Fds /\ a.writeFdSetPost \in SUBSET Fds
           /\ a.rdUse \in SUBSET Fds /\ a.wrUse \in SUBSET Fds
           /\ a.numRdPosted \in Int /\ a.numWrPosted \in Int /\ a.maxFd \in Int
           /\ a.asyncIoTableSize \in Nat \ {0} /\ a.asyncIoInUse \in BOOLEAN
BY DEF AioType

\* A state put together from values of these types.
LEMMA MadeFields ==
    ASSUME NEW rs \in SUBSET Fds, NEW ws \in SUBSET Fds,
           NEW rp \in SUBSET Fds, NEW wp \in SUBSET Fds,
           NEW ru \in SUBSET Fds, NEW wu \in SUBSET Fds,
           NEW nr \in Int, NEW nw \in Int, NEW max \in Int,
           NEW size \in Nat \ {0}, NEW inUse \in BOOLEAN,
           NEW b, b = Aio(rs, ws, rp, wp, ru, wu, nr, nw, max, size, inUse)
    PROVE  /\ b \in AioType
           /\ b.readFdSet = rs /\ b.writeFdSet = ws
           /\ b.readFdSetPost = rp /\ b.writeFdSetPost = wp
           /\ b.rdUse = ru /\ b.wrUse = wu
           /\ b.numRdPosted = nr /\ b.numWrPosted = nw
           /\ b.maxFd = max /\ b.asyncIoTableSize = size
<1>1. b \in AioType
  BY DEF Aio, AioType
<1> QED
  BY <1>1 DEF Aio

\* OS_AsyncRead enters fd for reading, in a table that is large enough.
LEMMA AsyncReadFields ==
    ASSUME NEW a \in AioType, NEW fd \in Fds, NEW b, b = OS_AsyncRead(a, fd)
    PROVE  /\ b \in AioType
           /\ b.rdUse = a.rdUse \cup {fd} /\ b.readFdSet = a.readFdSet \cup {fd}
           /\ b.wrUse = a.wrUse /\ b.writeFdSet = a.writeFdSet
           /\ b.readFdSetPost = a.readFdSetPost /\ b.writeFdSetPost = a.writeFdSetPost
           /\ b.numRdPosted = a.numRdPosted /\ b.numWrPosted = a.numWrPosted
           /\ b.maxFd >= a.maxFd /\ b.maxFd >= fd
           /\ b.asyncIoTableSize >= a.asyncIoTableSize
           /\ b.asyncIoTableSize > AIO_RD_IX(fd)
<1> DEFINE s == a.asyncIoTableSize
           i == AIO_RD_IX(fd)
           n == GrowAsyncTable(s, i)
           m == Larger(a.maxFd, fd)
           ru == a.rdUse \cup {fd}
           rs == a.readFdSet \cup {fd}
           u == TRUE
<1>1. i \in Nat /\ fd \in Nat
  BY AsyncAssumption DEF AIO_RD_IX
<1>2. s \in Nat \ {0} /\ u \in BOOLEAN /\ a.maxFd \in Int /\ ru \in SUBSET Fds /\ rs \in SUBSET Fds
  BY FieldTypes
<1>3. b = Aio(rs, a.writeFdSet, a.readFdSetPost, a.writeFdSetPost, ru, a.wrUse,
              a.numRdPosted, a.numWrPosted, m, n, u)
  BY DEF OS_AsyncRead, AioType, Aio
<1>4. m \in Int /\ m >= a.maxFd /\ m >= fd
  BY <1>1, <1>2 DEF Larger
<1>5. n \in Nat \ {0} /\ n > i /\ n >= s
  <2> HIDE DEF s, i
  <2>1. n \in Nat /\ n > i /\ n >= s
    BY <1>1, <1>2, TableGrowsEnough
  <2> HIDE DEF n
  <2> QED
    BY <1>1, <2>1
<1> HIDE DEF u, n, m, ru, rs
<1>6. /\ b \in AioType
      /\ b.readFdSet = rs /\ b.writeFdSet = a.writeFdSet
      /\ b.readFdSetPost = a.readFdSetPost /\ b.writeFdSetPost = a.writeFdSetPost
      /\ b.rdUse = ru /\ b.wrUse = a.wrUse
      /\ b.numRdPosted = a.numRdPosted /\ b.numWrPosted = a.numWrPosted
      /\ b.maxFd = m /\ b.asyncIoTableSize = n
  BY <1>2, <1>3, <1>4, <1>5, FieldTypes, MadeFields
<1> QED
  BY <1>4, <1>5, <1>6 DEF ru, rs

\* OS_AsyncWrite, the same for writing.
LEMMA AsyncWriteFields ==
    ASSUME NEW a \in AioType, NEW fd \in Fds, NEW b, b = OS_AsyncWrite(a, fd)
    PROVE  /\ b \in AioType
           /\ b.wrUse = a.wrUse \cup {fd} /\ b.writeFdSet = a.writeFdSet \cup {fd}
           /\ b.rdUse = a.rdUse /\ b.readFdSet = a.readFdSet
           /\ b.readFdSetPost = a.readFdSetPost /\ b.writeFdSetPost = a.writeFdSetPost
           /\ b.numRdPosted = a.numRdPosted /\ b.numWrPosted = a.numWrPosted
           /\ b.maxFd >= a.maxFd /\ b.maxFd >= fd
           /\ b.asyncIoTableSize >= a.asyncIoTableSize
           /\ b.asyncIoTableSize > AIO_WR_IX(fd)
<1> DEFINE s == a.asyncIoTableSize
           i == AIO_WR_IX(fd)
           n == GrowAsyncTable(s, i)
           m == Larger(a.maxFd, fd)
           wu == a.wrUse \cup {fd}
           ws == a.writeFdSet \cup {fd}
           u == TRUE
<1>1. i \in Nat /\ fd \in Nat
  BY AsyncAssumption DEF AIO_WR_IX
<1>2. s \in Nat \ {0} /\ u \in BOOLEAN /\ a.maxFd \in Int /\ wu \in SUBSET Fds /\ ws \in SUBSET Fds
  BY FieldTypes
<1>3. b = Aio(a.readFdSet, ws, a.readFdSetPost, a.writeFdSetPost, a.rdUse, wu,
              a.numRdPosted, a.numWrPosted, m, n, u)
  BY DEF OS_AsyncWrite, AioType, Aio
<1>4. m \in Int /\ m >= a.maxFd /\ m >= fd
  BY <1>1, <1>2 DEF Larger
<1>5. n \in Nat \ {0} /\ n > i /\ n >= s
  <2> HIDE DEF s, i
  <2>1. n \in Nat /\ n > i /\ n >= s
    BY <1>1, <1>2, TableGrowsEnough
  <2> HIDE DEF n
  <2> QED
    BY <1>1, <2>1
<1> HIDE DEF u, n, m, wu, ws
<1>6. /\ b \in AioType
      /\ b.readFdSet = a.readFdSet /\ b.writeFdSet = ws
      /\ b.readFdSetPost = a.readFdSetPost /\ b.writeFdSetPost = a.writeFdSetPost
      /\ b.rdUse = a.rdUse /\ b.wrUse = wu
      /\ b.numRdPosted = a.numRdPosted /\ b.numWrPosted = a.numWrPosted
      /\ b.maxFd = m /\ b.asyncIoTableSize = n
  BY <1>2, <1>3, <1>4, <1>5, FieldTypes, MadeFields
<1> QED
  BY <1>4, <1>5, <1>6 DEF wu, ws

\* OS_Close forgets fd, and lowers maxFd only if it was fd.
LEMMA CloseFields ==
    ASSUME NEW a \in AioType, NEW fd \in Fds, NEW b, b = OS_Close(a, fd), a.asyncIoInUse
    PROVE  /\ b \in AioType
           /\ b.rdUse = a.rdUse \ {fd} /\ b.readFdSet = a.readFdSet \ {fd}
           /\ b.wrUse = a.wrUse \ {fd} /\ b.writeFdSet = a.writeFdSet \ {fd}
           /\ b.readFdSetPost = a.readFdSetPost \ {fd}
           /\ b.writeFdSetPost = a.writeFdSetPost \ {fd}
           /\ b.numRdPosted = a.numRdPosted /\ b.numWrPosted = a.numWrPosted
           /\ b.maxFd = IF a.maxFd = fd THEN a.maxFd - 1 ELSE a.maxFd
           /\ b.asyncIoTableSize = a.asyncIoTableSize
<1> DEFINE m == IF a.maxFd = fd THEN a.maxFd - 1 ELSE a.maxFd
           u == a.asyncIoInUse
<1>1. m \in Int /\ u \in BOOLEAN
  BY FieldTypes
<1>2. /\ a.readFdSet \ {fd} \in SUBSET Fds /\ a.writeFdSet \ {fd} \in SUBSET Fds
      /\ a.readFdSetPost \ {fd} \in SUBSET Fds /\ a.writeFdSetPost \ {fd} \in SUBSET Fds
      /\ a.rdUse \ {fd} \in SUBSET Fds /\ a.wrUse \ {fd} \in SUBSET Fds
  BY FieldTypes
<1>3. b = Aio(a.readFdSet \ {fd}, a.writeFdSet \ {fd}, a.readFdSetPost \ {fd},
              a.writeFdSetPost \ {fd}, a.rdUse \ {fd}, a.wrUse \ {fd},
              a.numRdPosted, a.numWrPosted, m, a.asyncIoTableSize, u)
  BY DEF OS_Close, AioType, Aio
<1> HIDE DEF m, u
<1>4. /\ b \in AioType
      /\ b.rdUse = a.rdUse \ {fd} /\ b.readFdSet = a.readFdSet \ {fd}
      /\ b.wrUse = a.wrUse \ {fd} /\ b.writeFdSet = a.writeFdSet \ {fd}
      /\ b.readFdSetPost = a.readFdSetPost \ {fd}
      /\ b.writeFdSetPost = a.writeFdSetPost \ {fd}
      /\ b.numRdPosted = a.numRdPosted /\ b.numWrPosted = a.numWrPosted
      /\ b.maxFd = m /\ b.asyncIoTableSize = a.asyncIoTableSize
  BY <1>1, <1>2, <1>3, FieldTypes, MadeFields
<1> QED
  BY <1>4 DEF m

\* OS_CloseRead forgets a read that is not posted.
LEMMA CloseReadFields ==
    ASSUME NEW a \in AioType, NEW fd \in a.rdUse, NEW b, b = OS_CloseRead(a, fd)
    PROVE  /\ b \in AioType
           /\ b.rdUse = a.rdUse \ {fd} /\ b.readFdSet = a.readFdSet \ {fd}
           /\ b.wrUse = a.wrUse /\ b.writeFdSet = a.writeFdSet
           /\ b.readFdSetPost = a.readFdSetPost /\ b.writeFdSetPost = a.writeFdSetPost
           /\ b.numRdPosted = a.numRdPosted /\ b.numWrPosted = a.numWrPosted
           /\ b.maxFd = a.maxFd /\ b.asyncIoTableSize = a.asyncIoTableSize
<1>1. a.readFdSet \ {fd} \in SUBSET Fds /\ a.rdUse \ {fd} \in SUBSET Fds
  BY FieldTypes
<1>2. b = Aio(a.readFdSet \ {fd}, a.writeFdSet, a.readFdSetPost, a.writeFdSetPost,
              a.rdUse \ {fd}, a.wrUse, a.numRdPosted, a.numWrPosted, a.maxFd,
              a.asyncIoTableSize, a.asyncIoInUse)
  BY DEF OS_CloseRead, AioType, Aio
<1> QED
  BY <1>1, <1>2, FieldTypes, MadeFields

SelectReturned(a, R, W) == [Posted(a, R, W) EXCEPT !.asyncIoInUse = TRUE]

\* select(2) reports R and W.
LEMMA PostedFields ==
    ASSUME NEW a \in AioType, NEW R \in SUBSET Fds, NEW W \in SUBSET Fds,
           IsFiniteSet(R), IsFiniteSet(W),
           NEW b, b = SelectReturned(a, R, W)
    PROVE  /\ b \in AioType
           /\ b.rdUse = a.rdUse /\ b.readFdSet = a.readFdSet \ R
           /\ b.wrUse = a.wrUse /\ b.writeFdSet = a.writeFdSet \ W
           /\ b.readFdSetPost = a.readFdSetPost \cup R
           /\ b.writeFdSetPost = a.writeFdSetPost \cup W
           /\ b.numRdPosted = a.numRdPosted + Cardinality(R)
           /\ b.numWrPosted = a.numWrPosted + Cardinality(W)
           /\ b.maxFd = a.maxFd /\ b.asyncIoTableSize = a.asyncIoTableSize
<1> DEFINE r == a.numRdPosted + Cardinality(R)
           w == a.numWrPosted + Cardinality(W)
           u == TRUE
<1>1. r \in Int /\ w \in Int /\ u \in BOOLEAN
  BY FS_CardinalityType, FieldTypes
<1>2. /\ a.readFdSet \ R \in SUBSET Fds /\ a.writeFdSet \ W \in SUBSET Fds
      /\ a.readFdSetPost \cup R \in SUBSET Fds /\ a.writeFdSetPost \cup W \in SUBSET Fds
  BY FieldTypes
<1>3. b = Aio(a.readFdSet \ R, a.writeFdSet \ W, a.readFdSetPost \cup R,
              a.writeFdSetPost \cup W, a.rdUse, a.wrUse, r, w, a.maxFd,
              a.asyncIoTableSize, u)
  BY DEF SelectReturned, Posted, AioType, Aio
<1> HIDE DEF r, w, u
<1>4. /\ b \in AioType
      /\ b.rdUse = a.rdUse /\ b.readFdSet = a.readFdSet \ R
      /\ b.wrUse = a.wrUse /\ b.writeFdSet = a.writeFdSet \ W
      /\ b.readFdSetPost = a.readFdSetPost \cup R
      /\ b.writeFdSetPost = a.writeFdSetPost \cup W
      /\ b.numRdPosted = r /\ b.numWrPosted = w
      /\ b.maxFd = a.maxFd /\ b.asyncIoTableSize = a.asyncIoTableSize
  BY <1>1, <1>2, <1>3, FieldTypes, MadeFields
<1> QED
  BY <1>4 DEF r, w

\* A read is done.
LEMMA ReadCompletedFields ==
    ASSUME NEW a \in AioType, NEW fd \in Fds, NEW b, b = Completed(a, AIO_RD_IX(fd))
    PROVE  /\ b \in AioType
           /\ b.rdUse = a.rdUse \ {fd} /\ b.readFdSet = a.readFdSet
           /\ b.wrUse = a.wrUse /\ b.writeFdSet = a.writeFdSet
           /\ b.readFdSetPost = a.readFdSetPost \ {fd}
           /\ b.writeFdSetPost = a.writeFdSetPost
           /\ b.numRdPosted = a.numRdPosted - 1 /\ b.numWrPosted = a.numWrPosted
           /\ b.maxFd = a.maxFd /\ b.asyncIoTableSize = a.asyncIoTableSize
<1>1. AIO_RD_IX(fd) \div 2 = fd /\ AIO_RD_IX(fd) % 2 = 0
  BY AsyncAssumption DEF AIO_RD_IX
<1>2. b = [a EXCEPT !.numRdPosted = @ - 1, !.readFdSetPost = @ \ {fd}, !.rdUse = @ \ {fd}]
  BY <1>1 DEF Completed
<1>3. /\ a.readFdSetPost \ {fd} \in SUBSET Fds /\ a.rdUse \ {fd} \in SUBSET Fds
      /\ a.numRdPosted - 1 \in Int
  BY FieldTypes
<1>4. b = Aio(a.readFdSet, a.writeFdSet, a.readFdSetPost \ {fd}, a.writeFdSetPost,
              a.rdUse \ {fd}, a.wrUse, a.numRdPosted - 1, a.numWrPosted, a.maxFd,
              a.asyncIoTableSize, a.asyncIoInUse)
  BY <1>2 DEF AioType, Aio
<1> QED
  BY <1>3, <1>4, FieldTypes, MadeFields

\* A write is done.
LEMMA WriteCompletedFields ==
    ASSUME NEW a \in AioType, NEW fd \in Fds, NEW b, b = Completed(a, AIO_WR_IX(fd))
    PROVE  /\ b \in AioType
           /\ b.rdUse = a.rdUse /\ b.readFdSet = a.readFdSet
           /\ b.wrUse = a.wrUse \ {fd} /\ b.writeFdSet = a.writeFdSet
           /\ b.readFdSetPost = a.readFdSetPost
           /\ b.writeFdSetPost = a.writeFdSetPost \ {fd}
           /\ b.numRdPosted = a.numRdPosted /\ b.numWrPosted = a.numWrPosted - 1
           /\ b.maxFd = a.maxFd /\ b.asyncIoTableSize = a.asyncIoTableSize
<1>1. AIO_WR_IX(fd) \div 2 = fd /\ AIO_WR_IX(fd) % 2 # 0
  BY AsyncAssumption DEF AIO_WR_IX
<1>2. b = [a EXCEPT !.numWrPosted = @ - 1, !.writeFdSetPost = @ \ {fd}, !.wrUse = @ \ {fd}]
  BY <1>1 DEF Completed
<1>3. /\ a.writeFdSetPost \ {fd} \in SUBSET Fds /\ a.wrUse \ {fd} \in SUBSET Fds
      /\ a.numWrPosted - 1 \in Int
  BY FieldTypes
<1>4. b = Aio(a.readFdSet, a.writeFdSet, a.readFdSetPost, a.writeFdSetPost \ {fd},
              a.rdUse, a.wrUse \ {fd}, a.numRdPosted, a.numWrPosted - 1, a.maxFd,
              a.asyncIoTableSize, a.asyncIoInUse)
  BY <1>2 DEF AioType, Aio
<1> QED
  BY <1>3, <1>4, FieldTypes, MadeFields

-----------------------------------------------------------------------------
(* The invariant is kept *)

\* Nothing is posted, as the counters say, when OS_DoIo is called.
LEMMA NothingPostedInClient ==
    ASSUME AsyncInv, pc = "client"
    PROVE  NothingPosted(aio)
BY FS_EmptySet DEF AsyncInv, Accounted, NonePassedBy, NothingPosted

LEMMA InitAsyncInv == Init => AsyncInv
<1> SUFFICES ASSUME Init
             PROVE  AsyncInv
  OBVIOUS
<1> DEFINE none == FALSE
<1>1. 0 \in Int /\ -1 \in Int /\ {} \in SUBSET Fds /\ none \in BOOLEAN
      /\ TableSize \in Nat \ {0}
  BY AsyncAssumption
<1>2. aio = Aio({}, {}, {}, {}, {}, {}, 0, 0, -1, TableSize, none)
  BY DEF Init, OS_LibInit, Aio
<1> HIDE DEF none
<1>3. /\ aio \in AioType
      /\ aio.readFdSet = {} /\ aio.writeFdSet = {}
      /\ aio.readFdSetPost = {} /\ aio.writeFdSetPost = {}
      /\ aio.rdUse = {} /\ aio.wrUse = {}
      /\ aio.numRdPosted = 0 /\ aio.numWrPosted = 0
  BY <1>1, <1>2, MadeFields
<1>4. Cardinality({}) = 0 /\ IsFiniteSet({})
  BY FS_EmptySet
<1>5. pc = "client" /\ from = 0
  BY DEF Init
<1> QED
  BY <1>3, <1>4, <1>5 DEF AsyncInv, AioTyped, Accounted, NonePassedBy

LEMMA StartReadKeeps ==
    ASSUME AsyncInv, NEW fd \in Fds, StartRead(fd)
    PROVE  AsyncInv'
<1>1. /\ aio \in AioType /\ IsFiniteSet(aio.rdUse) /\ IsFiniteSet(aio.wrUse)
      /\ fd \notin aio.rdUse /\ aio' = OS_AsyncRead(aio, fd)
      /\ pc' = pc /\ from' = from
  BY DEF AsyncInv, AioTyped, StartRead
<1>2. /\ aio' \in AioType
      /\ aio'.rdUse = aio.rdUse \cup {fd} /\ aio'.readFdSet = aio.readFdSet \cup {fd}
      /\ aio'.wrUse = aio.wrUse /\ aio'.writeFdSet = aio.writeFdSet
      /\ aio'.readFdSetPost = aio.readFdSetPost /\ aio'.writeFdSetPost = aio.writeFdSetPost
      /\ aio'.numRdPosted = aio.numRdPosted /\ aio'.numWrPosted = aio.numWrPosted
      /\ aio'.maxFd >= aio.maxFd /\ aio'.maxFd >= fd
      /\ aio'.asyncIoTableSize >= aio.asyncIoTableSize
      /\ aio'.asyncIoTableSize > AIO_RD_IX(fd)
  BY <1>1, AsyncReadFields
<1>3. IsFiniteSet(aio'.rdUse) /\ IsFiniteSet(aio'.wrUse)
  BY <1>1, <1>2, FS_AddElement
<1>4. AioTyped'
  BY <1>1, <1>2, <1>3 DEF AsyncInv, AioTyped
<1>5. \A g \in Fds : g \in Nat /\ AIO_RD_IX(g) \in Nat /\ AIO_WR_IX(g) \in Nat
  BY AsyncAssumption DEF AIO_RD_IX, AIO_WR_IX
<1>6. /\ aio.maxFd \in Int /\ aio.asyncIoTableSize \in Nat
      /\ aio.rdUse \in SUBSET Fds /\ aio.wrUse \in SUBSET Fds
      /\ aio'.maxFd \in Int /\ aio'.asyncIoTableSize \in Nat
  BY <1>1, <1>2, FieldTypes
<1>7. \A g \in aio'.rdUse \cup aio'.wrUse : g <= aio'.maxFd
  BY <1>2, <1>5, <1>6 DEF AsyncInv, Accounted
<1>8. /\ \A g \in aio'.rdUse : AIO_RD_IX(g) < aio'.asyncIoTableSize
      /\ \A g \in aio'.wrUse : AIO_WR_IX(g) < aio'.asyncIoTableSize
  BY <1>2, <1>5, <1>6 DEF AsyncInv, Accounted
<1>9. Accounted'
  BY <1>1, <1>2, <1>7, <1>8 DEF AsyncInv, Accounted
<1> QED
  BY <1>1, <1>2, <1>4, <1>9 DEF AsyncInv, NonePassedBy

LEMMA StartWriteKeeps ==
    ASSUME AsyncInv, NEW fd \in Fds, StartWrite(fd)
    PROVE  AsyncInv'
<1>1. /\ aio \in AioType /\ IsFiniteSet(aio.rdUse) /\ IsFiniteSet(aio.wrUse)
      /\ fd \notin aio.wrUse /\ aio' = OS_AsyncWrite(aio, fd)
      /\ pc' = pc /\ from' = from
  BY DEF AsyncInv, AioTyped, StartWrite
<1>2. /\ aio' \in AioType
      /\ aio'.wrUse = aio.wrUse \cup {fd} /\ aio'.writeFdSet = aio.writeFdSet \cup {fd}
      /\ aio'.rdUse = aio.rdUse /\ aio'.readFdSet = aio.readFdSet
      /\ aio'.readFdSetPost = aio.readFdSetPost /\ aio'.writeFdSetPost = aio.writeFdSetPost
      /\ aio'.numRdPosted = aio.numRdPosted /\ aio'.numWrPosted = aio.numWrPosted
      /\ aio'.maxFd >= aio.maxFd /\ aio'.maxFd >= fd
      /\ aio'.asyncIoTableSize >= aio.asyncIoTableSize
      /\ aio'.asyncIoTableSize > AIO_WR_IX(fd)
  BY <1>1, AsyncWriteFields
<1>3. IsFiniteSet(aio'.rdUse) /\ IsFiniteSet(aio'.wrUse)
  BY <1>1, <1>2, FS_AddElement
<1>4. AioTyped'
  BY <1>1, <1>2, <1>3 DEF AsyncInv, AioTyped
<1>5. \A g \in Fds : g \in Nat /\ AIO_RD_IX(g) \in Nat /\ AIO_WR_IX(g) \in Nat
  BY AsyncAssumption DEF AIO_RD_IX, AIO_WR_IX
<1>6. /\ aio.maxFd \in Int /\ aio.asyncIoTableSize \in Nat
      /\ aio.rdUse \in SUBSET Fds /\ aio.wrUse \in SUBSET Fds
      /\ aio'.maxFd \in Int /\ aio'.asyncIoTableSize \in Nat
  BY <1>1, <1>2, FieldTypes
<1>7. \A g \in aio'.rdUse \cup aio'.wrUse : g <= aio'.maxFd
  BY <1>2, <1>5, <1>6 DEF AsyncInv, Accounted
<1>8. /\ \A g \in aio'.rdUse : AIO_RD_IX(g) < aio'.asyncIoTableSize
      /\ \A g \in aio'.wrUse : AIO_WR_IX(g) < aio'.asyncIoTableSize
  BY <1>2, <1>5, <1>6 DEF AsyncInv, Accounted
<1>9. Accounted'
  BY <1>1, <1>2, <1>7, <1>8 DEF AsyncInv, Accounted
<1> QED
  BY <1>1, <1>2, <1>4, <1>9 DEF AsyncInv, NonePassedBy

\* Between two calls of OS_DoIo nothing is posted that OS_Close could lose.
LEMMA CloseKeeps ==
    ASSUME AsyncInv, ~ CloseInside, NEW fd \in Fds, Close(fd)
    PROVE  AsyncInv'
<1>1. /\ aio \in AioType /\ IsFiniteSet(aio.rdUse) /\ IsFiniteSet(aio.wrUse)
      /\ aio' = OS_Close(aio, fd)
      /\ pc' = pc /\ from' = from /\ pc = "client"
      /\ aio.readFdSetPost = {} /\ aio.writeFdSetPost = {}
  BY DEF AsyncInv, AioTyped, NonePassedBy, Close, MayClose
<1>2. CASE ~ aio.asyncIoInUse
  <2>1. aio' = aio
    BY <1>1, <1>2 DEF OS_Close
  <2> QED
    BY <1>1, <2>1 DEF AsyncInv, AioTyped, Accounted, NonePassedBy
<1>3. CASE aio.asyncIoInUse
  <2>1. /\ aio' \in AioType
        /\ aio'.rdUse = aio.rdUse \ {fd} /\ aio'.readFdSet = aio.readFdSet \ {fd}
        /\ aio'.wrUse = aio.wrUse \ {fd} /\ aio'.writeFdSet = aio.writeFdSet \ {fd}
        /\ aio'.readFdSetPost = aio.readFdSetPost \ {fd}
        /\ aio'.writeFdSetPost = aio.writeFdSetPost \ {fd}
        /\ aio'.numRdPosted = aio.numRdPosted /\ aio'.numWrPosted = aio.numWrPosted
        /\ aio'.maxFd = IF aio.maxFd = fd THEN aio.maxFd - 1 ELSE aio.maxFd
        /\ aio'.asyncIoTableSize = aio.asyncIoTableSize
    BY <1>1, <1>3, CloseFields
  <2>2. IsFiniteSet(aio'.rdUse) /\ IsFiniteSet(aio'.wrUse)
    <3>1. IsFiniteSet(aio.rdUse \ {fd}) /\ IsFiniteSet(aio.wrUse \ {fd})
      BY <1>1, FS_RemoveElement
    <3> QED
      BY <2>1, <3>1
  <2>3. AioTyped'
    BY <1>1, <2>1, <2>2 DEF AsyncInv, AioTyped
  <2>4. aio'.readFdSetPost = {} /\ aio'.writeFdSetPost = {}
    BY <1>1, <2>1
  <2>5. /\ aio.rdUse \in SUBSET Fds /\ aio.wrUse \in SUBSET Fds /\ aio.maxFd \in Int
        /\ \A g \in Fds : g \in Nat
    BY <1>1, FieldTypes, AsyncAssumption
  <2>6. \A g \in aio'.rdUse \cup aio'.wrUse : g <= aio'.maxFd
    BY <2>1, <2>5 DEF AsyncInv, Accounted
  <2>7. Accounted'
    BY <1>1, <2>1, <2>4, <2>6 DEF AsyncInv, Accounted
  <2> QED
    BY <1>1, <2>3, <2>4, <2>7 DEF AsyncInv, NonePassedBy
<1> QED
  BY <1>2, <1>3

LEMMA CloseReadKeeps ==
    ASSUME AsyncInv, ~ CloseInside, NEW fd \in Fds, CloseRead(fd)
    PROVE  AsyncInv'
<1>1. /\ aio \in AioType /\ IsFiniteSet(aio.rdUse) /\ IsFiniteSet(aio.wrUse)
      /\ fd \in aio.rdUse /\ aio' = OS_CloseRead(aio, fd)
      /\ pc' = pc /\ from' = from /\ pc = "client"
      /\ aio.readFdSetPost = {} /\ aio.writeFdSetPost = {}
  BY DEF AsyncInv, AioTyped, NonePassedBy, CloseRead, MayClose
<1>2. /\ aio' \in AioType
      /\ aio'.rdUse = aio.rdUse \ {fd} /\ aio'.readFdSet = aio.readFdSet \ {fd}
      /\ aio'.wrUse = aio.wrUse /\ aio'.writeFdSet = aio.writeFdSet
      /\ aio'.readFdSetPost = aio.readFdSetPost /\ aio'.writeFdSetPost = aio.writeFdSetPost
      /\ aio'.numRdPosted = aio.numRdPosted /\ aio'.numWrPosted = aio.numWrPosted
      /\ aio'.maxFd = aio.maxFd /\ aio'.asyncIoTableSize = aio.asyncIoTableSize
  BY <1>1, CloseReadFields
<1>3. IsFiniteSet(aio'.rdUse) /\ IsFiniteSet(aio'.wrUse)
  BY <1>1, <1>2, FS_RemoveElement
<1>4. AioTyped'
  BY <1>1, <1>2, <1>3 DEF AsyncInv, AioTyped
<1>5. Accounted'
  BY <1>1, <1>2 DEF AsyncInv, Accounted
<1> QED
  BY <1>1, <1>2, <1>4, <1>5 DEF AsyncInv, NonePassedBy

LEMMA DoIoKeeps ==
    ASSUME AsyncInv, DoIo
    PROVE  AsyncInv'
<1> DEFINE R == SelectReads(aio, readable)
           W == SelectWrites(aio, writable)
<1>1. /\ aio \in AioType /\ IsFiniteSet(aio.rdUse) /\ IsFiniteSet(aio.wrUse)
      /\ pc = "client" /\ pc' = "dispatch" /\ from' = 0
      /\ aio.readFdSetPost = {} /\ aio.writeFdSetPost = {}
  BY DEF AsyncInv, AioTyped, NonePassedBy, DoIo
<1>2. NothingPosted(aio)
  BY <1>1, NothingPostedInClient
<1>3. aio' = SelectReturned(aio, R, W)
  BY <1>2 DEF DoIo, SelectReturned
<1>4. R \subseteq aio.readFdSet /\ W \subseteq aio.writeFdSet
  BY DEF SelectReads, SelectWrites
<1> HIDE DEF R, W
<1>5. R \subseteq aio.rdUse /\ W \subseteq aio.wrUse
  BY <1>4 DEF AsyncInv, Accounted
<1>6. R \in SUBSET Fds /\ W \in SUBSET Fds
  BY <1>1, <1>4, FieldTypes
<1>7. IsFiniteSet(R) /\ IsFiniteSet(W)
  BY <1>1, <1>5, FS_Subset
<1>8. Cardinality(R) \in Nat /\ Cardinality(W) \in Nat
  BY <1>7, FS_CardinalityType
<1>9. /\ aio' \in AioType
      /\ aio'.rdUse = aio.rdUse /\ aio'.readFdSet = aio.readFdSet \ R
      /\ aio'.wrUse = aio.wrUse /\ aio'.writeFdSet = aio.writeFdSet \ W
      /\ aio'.readFdSetPost = aio.readFdSetPost \cup R
      /\ aio'.writeFdSetPost = aio.writeFdSetPost \cup W
      /\ aio'.numRdPosted = aio.numRdPosted + Cardinality(R)
      /\ aio'.numWrPosted = aio.numWrPosted + Cardinality(W)
      /\ aio'.maxFd = aio.maxFd /\ aio'.asyncIoTableSize = aio.asyncIoTableSize
  <2>1. aio \in AioType
    BY <1>1
  <2> QED
    BY <1>3, <1>6, <1>7, <2>1, PostedFields
<1>10. aio'.readFdSetPost = R /\ aio'.writeFdSetPost = W
  BY <1>1, <1>9
<1>11. aio'.numRdPosted = Cardinality(R) /\ aio'.numWrPosted = Cardinality(W)
  BY <1>2, <1>8, <1>9 DEF NothingPosted
<1>12. AioTyped'
  BY <1>1, <1>9 DEF AioTyped
<1>13. Accounted'
  <2>1. /\ aio'.rdUse = aio'.readFdSet \cup aio'.readFdSetPost
        /\ aio'.wrUse = aio'.writeFdSet \cup aio'.writeFdSetPost
        /\ aio'.readFdSet \cap aio'.readFdSetPost = {}
        /\ aio'.writeFdSet \cap aio'.writeFdSetPost = {}
    BY <1>1, <1>4, <1>9, <1>10 DEF AsyncInv, Accounted
  <2>2. /\ \A g \in aio'.rdUse \cup aio'.wrUse : g <= aio'.maxFd
        /\ \A g \in aio'.rdUse : AIO_RD_IX(g) < aio'.asyncIoTableSize
        /\ \A g \in aio'.wrUse : AIO_WR_IX(g) < aio'.asyncIoTableSize
    BY <1>9 DEF AsyncInv, Accounted
  <2> QED
    BY <1>10, <1>11, <2>1, <2>2 DEF Accounted
<1>14. \A g \in Fds : AIO_RD_IX(g) >= 0 /\ AIO_WR_IX(g) >= 0
  BY AsyncAssumption DEF AIO_RD_IX, AIO_WR_IX
<1>15. NonePassedBy'
  BY <1>1, <1>6, <1>10, <1>14 DEF NonePassedBy
<1> QED
  BY <1>12, <1>13, <1>15 DEF AsyncInv

\* The events are the posted operations, and OS_DoIo takes the first.
LEMMA EventsArePosted ==
    ASSUME AsyncInv
    PROVE  /\ Events(aio, from) \subseteq Nat
           /\ \A g \in aio.readFdSetPost : AIO_RD_IX(g) \in Events(aio, from)
           /\ \A g \in aio.writeFdSetPost : AIO_WR_IX(g) \in Events(aio, from)
           /\ \A ix \in Events(aio, from) :
                \/ \E g \in aio.readFdSetPost : ix = AIO_RD_IX(g)
                \/ \E g \in aio.writeFdSetPost : ix = AIO_WR_IX(g)
<1>1. /\ aio.readFdSetPost \in SUBSET Fds /\ aio.writeFdSetPost \in SUBSET Fds
      /\ aio.readFdSetPost \subseteq aio.rdUse /\ aio.writeFdSetPost \subseteq aio.wrUse
  BY FieldTypes DEF AsyncInv, AioTyped, Accounted
<1>2. \A g \in Fds : AIO_RD_IX(g) \in Nat /\ AIO_WR_IX(g) \in Nat
  BY AsyncAssumption DEF AIO_RD_IX, AIO_WR_IX
<1>3. /\ \A g \in aio.readFdSetPost : g <= aio.maxFd /\ AIO_RD_IX(g) >= from
      /\ \A g \in aio.writeFdSetPost : g <= aio.maxFd /\ AIO_WR_IX(g) >= from
  BY <1>1 DEF AsyncInv, Accounted, NonePassedBy
<1>4. Events(aio, from) = {AIO_RD_IX(g) : g \in aio.readFdSetPost}
                            \cup {AIO_WR_IX(g) : g \in aio.writeFdSetPost}
  BY <1>1, <1>3 DEF Events
<1> QED
  BY <1>1, <1>2, <1>4

LEMMA DispatchKeeps ==
    ASSUME AsyncInv, Dispatch
    PROVE  AsyncInv'
<1> DEFINE ix == First(Events(aio, from))
<1>1. /\ aio \in AioType /\ IsFiniteSet(aio.rdUse) /\ IsFiniteSet(aio.wrUse)
  BY DEF AsyncInv, AioTyped
<1>2. /\ Events(aio, from) # {}
      /\ aio' = Completed(aio, ix) /\ from' = ix + 1 /\ pc' = "callback"
  BY DEF Dispatch
<1>3. ix \in Events(aio, from) /\ \A x \in Events(aio, from) : ix <= x
  BY <1>2, EventsArePosted, FirstLemma
<1> HIDE DEF ix
<1>4. ix \in Nat
  BY <1>3, EventsArePosted
<1>5. \A g \in Fds : /\ AIO_RD_IX(g) \in Nat /\ AIO_WR_IX(g) \in Nat
                     /\ \A h \in Fds : /\ AIO_RD_IX(g) # AIO_WR_IX(h)
                                       /\ AIO_RD_IX(g) = AIO_RD_IX(h) => g = h
                                       /\ AIO_WR_IX(g) = AIO_WR_IX(h) => g = h
  BY AsyncAssumption DEF AIO_RD_IX, AIO_WR_IX
<1>6. /\ aio.readFdSetPost \in SUBSET Fds /\ aio.writeFdSetPost \in SUBSET Fds
      /\ aio.readFdSetPost \subseteq aio.rdUse /\ aio.writeFdSetPost \subseteq aio.wrUse
  BY <1>1, FieldTypes DEF AsyncInv, Accounted
<1>7. IsFiniteSet(aio.readFdSetPost) /\ IsFiniteSet(aio.writeFdSetPost)
  BY <1>1, <1>6, FS_Subset
<1>8. CASE \E g \in aio.readFdSetPost : ix = AIO_RD_IX(g)
  <2>1. PICK fd \in aio.readFdSetPost : ix = AIO_RD_IX(fd)
    BY <1>8
  <2>2. fd \in Fds /\ aio' = Completed(aio, AIO_RD_IX(fd))
    BY <1>2, <1>6, <2>1
  <2>3. /\ aio' \in AioType
        /\ aio'.rdUse = aio.rdUse \ {fd} /\ aio'.readFdSet = aio.readFdSet
        /\ aio'.wrUse = aio.wrUse /\ aio'.writeFdSet = aio.writeFdSet
        /\ aio'.readFdSetPost = aio.readFdSetPost \ {fd}
        /\ aio'.writeFdSetPost = aio.writeFdSetPost
        /\ aio'.numRdPosted = aio.numRdPosted - 1 /\ aio'.numWrPosted = aio.numWrPosted
        /\ aio'.maxFd = aio.maxFd /\ aio'.asyncIoTableSize = aio.asyncIoTableSize
    BY <1>1, <2>2, ReadCompletedFields
  <2>4. /\ IsFiniteSet(aio.rdUse \ {fd})
        /\ Cardinality(aio.readFdSetPost \ {fd}) = Cardinality(aio.readFdSetPost) - 1
    BY <1>1, <1>7, <2>1, FS_RemoveElement
  <2>5. AioTyped'
    BY <1>1, <1>2, <1>4, <2>3, <2>4 DEF AioTyped
  <2>6. fd \notin aio.readFdSet
    BY <2>1 DEF AsyncInv, Accounted
  <2>7. Accounted'
    BY <2>3, <2>4, <2>6 DEF AsyncInv, Accounted
  <2>8. /\ \A g \in aio'.readFdSetPost : AIO_RD_IX(g) >= ix + 1
        /\ \A g \in aio'.writeFdSetPost : AIO_WR_IX(g) >= ix + 1
    BY <1>3, <1>4, <1>5, <1>6, <2>1, <2>2, <2>3, EventsArePosted
  <2>9. NonePassedBy'
    BY <1>2, <2>8 DEF NonePassedBy
  <2> QED
    BY <2>5, <2>7, <2>9 DEF AsyncInv
<1>9. CASE \E g \in aio.writeFdSetPost : ix = AIO_WR_IX(g)
  <2>1. PICK fd \in aio.writeFdSetPost : ix = AIO_WR_IX(fd)
    BY <1>9
  <2>2. fd \in Fds /\ aio' = Completed(aio, AIO_WR_IX(fd))
    BY <1>2, <1>6, <2>1
  <2>3. /\ aio' \in AioType
        /\ aio'.rdUse = aio.rdUse /\ aio'.readFdSet = aio.readFdSet
        /\ aio'.wrUse = aio.wrUse \ {fd} /\ aio'.writeFdSet = aio.writeFdSet
        /\ aio'.readFdSetPost = aio.readFdSetPost
        /\ aio'.writeFdSetPost = aio.writeFdSetPost \ {fd}
        /\ aio'.numRdPosted = aio.numRdPosted /\ aio'.numWrPosted = aio.numWrPosted - 1
        /\ aio'.maxFd = aio.maxFd /\ aio'.asyncIoTableSize = aio.asyncIoTableSize
    BY <1>1, <2>2, WriteCompletedFields
  <2>4. /\ IsFiniteSet(aio.wrUse \ {fd})
        /\ Cardinality(aio.writeFdSetPost \ {fd}) = Cardinality(aio.writeFdSetPost) - 1
    BY <1>1, <1>7, <2>1, FS_RemoveElement
  <2>5. AioTyped'
    BY <1>1, <1>2, <1>4, <2>3, <2>4 DEF AioTyped
  <2>6. fd \notin aio.writeFdSet
    BY <2>1 DEF AsyncInv, Accounted
  <2>7. Accounted'
    BY <2>3, <2>4, <2>6 DEF AsyncInv, Accounted
  <2>8. /\ \A g \in aio'.readFdSetPost : AIO_RD_IX(g) >= ix + 1
        /\ \A g \in aio'.writeFdSetPost : AIO_WR_IX(g) >= ix + 1
    BY <1>3, <1>4, <1>5, <1>6, <2>1, <2>2, <2>3, EventsArePosted
  <2>9. NonePassedBy'
    BY <1>2, <2>8 DEF NonePassedBy
  <2> QED
    BY <2>5, <2>7, <2>9 DEF AsyncInv
<1> QED
  BY <1>3, <1>8, <1>9, EventsArePosted

\* When the loop finds no event, none is left posted.
LEMMA DoIoReturnsKeeps ==
    ASSUME AsyncInv, DoIoReturns
    PROVE  AsyncInv'
<1>1. Events(aio, from) = {} /\ pc' = "client" /\ aio' = aio /\ from' = from
  BY DEF DoIoReturns
<1>2. aio.readFdSetPost = {} /\ aio.writeFdSetPost = {}
  BY <1>1, EventsArePosted
<1> QED
  BY <1>1, <1>2 DEF AsyncInv, AioTyped, Accounted, NonePassedBy

\* The steps that leave the table alone.
LEMMA OthersKeep ==
    ASSUME AsyncInv,
           \/ CallbackReturns
           \/ \E fd \in Fds : Peer(fd)
           \/ UNCHANGED vars
    PROVE  AsyncInv'
<1>1. aio' = aio /\ from' = from /\ (pc' = pc \/ pc' = "dispatch")
  BY DEF CallbackReturns, Peer, vars
<1> QED
  BY <1>1 DEF AsyncInv, AioTyped, Accounted, NonePassedBy

(***************************************************************************)
(* For a client whose callbacks close no descriptor and go on (those of    *)
(* cgi-fcgi close one on the way to exit only): the operations in progress *)
(* are those that OS_DoIo will find, each waits for select(2) or for its   *)
(* dispatch and never for both, its descriptor is within maxFd and its     *)
(* entry within the table, and the counters that decide whether select(2)  *)
(* is called count exactly the posted events.                              *)
(***************************************************************************)
THEOREM OperationsAccounted ==
    ASSUME ~ CloseInside
    PROVE  Spec => []Accounted
<1>1. AsyncInv /\ [Next]_vars => AsyncInv'
  <2> SUFFICES ASSUME AsyncInv, [Next]_vars
               PROVE  AsyncInv'
    OBVIOUS
  <2>1. CASE Loop
    BY <2>1, DoIoKeeps, DispatchKeeps, DoIoReturnsKeeps, OthersKeep DEF Loop
  <2>2. ASSUME NEW fd \in Fds, StartRead(fd) \/ StartWrite(fd) \/ Close(fd) \/ CloseRead(fd)
        PROVE  AsyncInv'
    BY <2>2, StartReadKeeps, StartWriteKeeps, CloseKeeps, CloseReadKeeps
  <2>3. CASE (\E fd \in Fds : Peer(fd)) \/ UNCHANGED vars
    BY <2>3, OthersKeep
  <2> QED
    BY <2>1, <2>2, <2>3 DEF Next
<1>2. AsyncInv => Accounted
  BY DEF AsyncInv
<1> QED
  BY InitAsyncInv, <1>1, <1>2, PTL DEF Spec
=============================================================================
