---------------------------- MODULE CgiFcgiProofs ---------------------------
(***************************************************************************)
(* Proofs about the event loop of cgi-fcgi, for every CONTENT_LENGTH, every *)
(* stdin and every answer of the application, in reads and writes of any   *)
(* size.                                                                   *)
(***************************************************************************)
EXTENDS CgiFcgi, SequenceTheorems, NatSetProofs, TLAPS

-----------------------------------------------------------------------------
(* The cells of one kind *)

\* f collects the cells of this kind from the first n of s.
Collects(f, n, s, kind, C) ==
    /\ f \in [0 .. n -> Seq(C)] /\ f[0] = <<>>
    /\ \A i \in 1 .. n : f[i] = IF Is(s[i], kind) THEN Append(f[i - 1], s[i]) ELSE f[i - 1]

LEMMA CollectsStep ==
    ASSUME NEW C, NEW s \in Seq(C), NEW kind, NEW n \in Nat, n + 1 <= Len(s),
           NEW f, Collects(f, n, s, kind, C)
    PROVE  \E g : Collects(g, n + 1, s, kind, C)
<1> DEFINE x == IF Is(s[n + 1], kind) THEN Append(f[n], s[n + 1]) ELSE f[n]
           g == [i \in 0 .. n + 1 |-> IF i = n + 1 THEN x ELSE f[i]]
<1>1. s[n + 1] \in C /\ f[n] \in Seq(C)
  BY DEF Collects
<1>2. x \in Seq(C)
  BY <1>1
<1>3. x = IF Is(s[n + 1], kind) THEN Append(f[n], s[n + 1]) ELSE f[n]
  OBVIOUS
<1> HIDE DEF x
<1>4. g \in [0 .. n + 1 -> Seq(C)] /\ g[0] = <<>>
  BY <1>2 DEF Collects
<1>5. ASSUME NEW i \in 1 .. n + 1
      PROVE  g[i] = IF Is(s[i], kind) THEN Append(g[i - 1], s[i]) ELSE g[i - 1]
  <2>1. CASE i = n + 1
    <3>1. g[i] = x /\ g[i - 1] = f[n]
      BY <2>1
    <3> QED
      BY <2>1, <3>1, <1>3
  <2>2. CASE i # n + 1
    <3>1. i \in 1 .. n /\ g[i] = f[i] /\ g[i - 1] = f[i - 1]
      BY <2>2
    <3> HIDE DEF g
    <3>2. f[i] = IF Is(s[i], kind) THEN Append(f[i - 1], s[i]) ELSE f[i - 1]
      BY <3>1 DEF Collects
    <3> QED
      BY <3>1, <3>2
  <2> QED
    BY <2>1, <2>2
<1> HIDE DEF g
<1>6. Collects(g, n + 1, s, kind, C)
  BY <1>4, <1>5 DEF Collects
<1> QED
  BY <1>6

LEMMA CollectsExist ==
    ASSUME NEW C, NEW s \in Seq(C), NEW kind
    PROVE  \E f : Collects(f, Len(s), s, kind, C)
<1> DEFINE S == {n \in Nat : n <= Len(s) => \E f : Collects(f, n, s, kind, C)}
<1>1. 0 \in S
  <2>1. Collects([i \in 0 .. 0 |-> <<>>], 0, s, kind, C)
    BY DEF Collects
  <2> QED
    BY <2>1
<1>2. ASSUME NEW n \in Nat, n \in S
      PROVE  n + 1 \in S
  <2> SUFFICES ASSUME n + 1 <= Len(s)
               PROVE  \E f : Collects(f, n + 1, s, kind, C)
    OBVIOUS
  <2>1. PICK f : Collects(f, n, s, kind, C)
    BY <1>2
  <2> QED
    BY <2>1, CollectsStep
<1> HIDE DEF S
<1>3. \A n \in Nat : n \in S
  BY <1>1, <1>2, SetInduction
<1>4. Len(s) \in Nat
  OBVIOUS
<1> QED
  BY <1>3, <1>4 DEF S

\* Two such functions agree.
LEMMA CollectsAgree ==
    ASSUME NEW C, NEW s \in Seq(C), NEW kind, NEW n \in Nat,
           NEW f, Collects(f, n, s, kind, C), NEW g, Collects(g, n, s, kind, C)
    PROVE  f = g
<1> DEFINE S == {k \in Nat : k <= n => f[k] = g[k]}
<1>1. 0 \in S
  BY DEF Collects
<1>2. ASSUME NEW k \in Nat, k \in S
      PROVE  k + 1 \in S
  <2> SUFFICES ASSUME k + 1 <= n
               PROVE  f[k + 1] = g[k + 1]
    OBVIOUS
  <2>1. f[k] = g[k]
    BY <1>2
  <2>2. k + 1 \in 1 .. n /\ (k + 1) - 1 = k
    OBVIOUS
  <2> QED
    BY <2>1, <2>2 DEF Collects
<1> HIDE DEF S
<1>3. \A k \in Nat : k \in S
  BY <1>1, <1>2, SetInduction
<1>4. \A k \in 0 .. n : f[k] = g[k]
  BY <1>3 DEF S
<1> QED
  BY <1>4 DEF Collects

\* What the recursive definition of Only means.
LEMMA OnlyCollects ==
    ASSUME NEW C, NEW s \in Seq(C), NEW kind,
           NEW f, Collects(f, Len(s), s, kind, C)
    PROVE  Only(s, kind) = f[Len(s)]
<1> DEFINE Eq(h) == h = [n \in 0 .. Len(s) |->
                           IF n = 0 THEN <<>>
                           ELSE IF Is(s[n], kind) THEN Append(h[n - 1], s[n]) ELSE h[n - 1]]
           up == CHOOSE h : Eq(h)
<1>1. Len(s) \in Nat
  OBVIOUS
<1>2. Eq(f)
  <2>1. \A n \in 0 .. Len(s) :
          f[n] = IF n = 0 THEN <<>>
                 ELSE IF Is(s[n], kind) THEN Append(f[n - 1], s[n]) ELSE f[n - 1]
    <3>1. \A n \in 0 .. Len(s) : n = 0 \/ n \in 1 .. Len(s)
      BY <1>1
    <3> QED
      BY <3>1 DEF Collects
  <2>2. f = [n \in 0 .. Len(s) |-> f[n]]
    BY DEF Collects
  <2> QED
    BY <2>1, <2>2
<1>3. Eq(up)
  BY <1>2
<1>4. Only(s, kind) = up[Len(s)]
  BY DEF Only
<1> HIDE DEF up
<1>5. ASSUME NEW h, Eq(h)
      PROVE  \A k \in 0 .. Len(s) : h[k] = IF k = 0 THEN <<>>
               ELSE IF Is(s[k], kind) THEN Append(h[k - 1], s[k]) ELSE h[k - 1]
  BY <1>5
<1> DEFINE S == {k \in Nat : k <= Len(s) => up[k] = f[k]}
<1> HIDE DEF Eq
<1>6. 0 \in S
  BY <1>1, <1>2, <1>3, <1>5
<1>7. ASSUME NEW k \in Nat, k \in S
      PROVE  k + 1 \in S
  <2> SUFFICES ASSUME k + 1 <= Len(s)
               PROVE  up[k + 1] = f[k + 1]
    OBVIOUS
  <2>1. up[k] = f[k]
    BY <1>1, <1>7
  <2>2. k + 1 \in 0 .. Len(s) /\ k + 1 # 0 /\ (k + 1) - 1 = k
    BY <1>1
  <2> QED
    BY <2>1, <2>2, <1>2, <1>3, <1>5
<1> HIDE DEF S
<1>8. \A k \in Nat : k \in S
  BY <1>6, <1>7, SetInduction
<1> QED
  BY <1>1, <1>4, <1>8 DEF S

LEMMA OnlyEmpty ==
    ASSUME NEW kind
    PROVE  Only(<<>>, kind) = <<>>
<1>1. <<>> \in Seq({}) /\ Len(<<>>) = 0
  OBVIOUS
<1>2. PICK f : Collects(f, 0, <<>>, kind, {})
  BY <1>1, CollectsExist
<1> QED
  BY <1>1, <1>2, OnlyCollects DEF Collects

\* One more cell.
LEMMA OnlyAppend ==
    ASSUME NEW C, NEW s \in Seq(C), NEW x \in C, NEW kind
    PROVE  /\ Only(s, kind) \in Seq(C)
           /\ Only(Append(s, x), kind) =
                IF Is(x, kind) THEN Append(Only(s, kind), x) ELSE Only(s, kind)
<1> DEFINE t == Append(s, x)
           n == Len(s)
<1>1. /\ t \in Seq(C) /\ n \in Nat /\ Len(t) = n + 1 /\ t[n + 1] = x
      /\ \A i \in 1 .. n : t[i] = s[i]
  OBVIOUS
<1>2. PICK f : Collects(f, n + 1, t, kind, C)
  BY <1>1, CollectsExist
<1> HIDE DEF t, n
<1> DEFINE g == [i \in 0 .. n |-> f[i]]
<1>3. Collects(g, n, s, kind, C)
  <2>1. g \in [0 .. n -> Seq(C)] /\ g[0] = <<>>
    BY <1>1, <1>2 DEF Collects
  <2>2. ASSUME NEW i \in 1 .. n
        PROVE  g[i] = IF Is(s[i], kind) THEN Append(g[i - 1], s[i]) ELSE g[i - 1]
    <3>1. i \in 1 .. n + 1 /\ t[i] = s[i] /\ g[i] = f[i] /\ g[i - 1] = f[i - 1]
      BY <1>1
    <3> HIDE DEF g
    <3> QED
      BY <3>1, <1>2 DEF Collects
  <2> HIDE DEF g
  <2> QED
    BY <2>1, <2>2 DEF Collects
<1>4. g[n] = f[n] /\ g[n] \in Seq(C)
  BY <1>1, <1>2 DEF Collects
<1> HIDE DEF g
<1>5. Only(s, kind) = f[n]
  BY <1>3, <1>4, OnlyCollects DEF n
<1>6. Only(t, kind) = f[n + 1]
  BY <1>1, <1>2, OnlyCollects
<1>7. n + 1 \in 1 .. n + 1 /\ (n + 1) - 1 = n
  BY <1>1
<1>8. f[n + 1] = IF Is(x, kind) THEN Append(f[n], x) ELSE f[n]
  BY <1>1, <1>2, <1>7 DEF Collects
<1> QED
  BY <1>4, <1>5, <1>6, <1>8 DEF t

AppendsBehind(s, t, x) == Append(s \o t, x) = s \o Append(t, x)

LEMMA AppendLemma ==
    ASSUME NEW C, NEW s \in Seq(C), NEW t \in Seq(C), NEW x \in C
    PROVE  AppendsBehind(s, t, x)
BY DEF AppendsBehind

\* Two sequences one behind the other.
LEMMA OnlyConcat ==
    ASSUME NEW C, NEW s \in Seq(C), NEW t \in Seq(C), NEW kind
    PROVE  Only(s \o t, kind) = Only(s, kind) \o Only(t, kind)
<1> DEFINE S == {n \in Nat : \A u \in Seq(C) : Len(u) = n =>
                   Only(s \o u, kind) = Only(s, kind) \o Only(u, kind)}
<1>0. \A u \in Seq(C) : Only(u, kind) \in Seq(C)
  <2> SUFFICES ASSUME NEW u \in Seq(C) PROVE Only(u, kind) \in Seq(C)
    OBVIOUS
  <2>1. PICK f : Collects(f, Len(u), u, kind, C)
    BY CollectsExist
  <2>2. Len(u) \in 0 .. Len(u)
    OBVIOUS
  <2>3. f[Len(u)] \in Seq(C)
    BY <2>1, <2>2 DEF Collects
  <2> QED
    BY <2>1, <2>3, OnlyCollects
<1>1. 0 \in S
  <2> SUFFICES ASSUME NEW u \in Seq(C), Len(u) = 0
               PROVE  Only(s \o u, kind) = Only(s, kind) \o Only(u, kind)
    OBVIOUS
  <2>1. u = <<>> /\ s \o u = s
    OBVIOUS
  <2>2. Only(s, kind) \o <<>> = Only(s, kind)
    BY <1>0
  <2> QED
    BY <2>1, <2>2, OnlyEmpty
<1>2. ASSUME NEW n \in Nat, n \in S
      PROVE  n + 1 \in S
  <2> SUFFICES ASSUME NEW u \in Seq(C), Len(u) = n + 1
               PROVE  Only(s \o u, kind) = Only(s, kind) \o Only(u, kind)
    OBVIOUS
  <2>1. PICK v \in Seq(C), x \in C : u = Append(v, x) /\ Len(v) = n
    <3>1. u # <<>>
      OBVIOUS
    <3>2. u = Append(SubSeq(u, 1, n), u[n + 1]) /\ u[n + 1] \in C
      OBVIOUS
    <3>3. SubSeq(u, 1, n) \in Seq(C) /\ Len(SubSeq(u, 1, n)) = n
      OBVIOUS
    <3> QED
      BY <3>2, <3>3
  <2>2. Only(s \o v, kind) = Only(s, kind) \o Only(v, kind)
    BY <1>2, <2>1
  <2>3. s \o v \in Seq(C) /\ s \o u = Append(s \o v, x)
    BY <2>1
  <2>4. Only(s \o u, kind) = IF Is(x, kind) THEN Append(Only(s \o v, kind), x)
                             ELSE Only(s \o v, kind)
    <3> DEFINE w == s \o v
    <3> HIDE DEF w
    <3>1. w \in Seq(C) /\ s \o u = Append(w, x)
      BY <2>3 DEF w
    <3>2. Only(Append(w, x), kind) = IF Is(x, kind) THEN Append(Only(w, kind), x)
                                     ELSE Only(w, kind)
      BY <3>1, OnlyAppend
    <3> QED
      BY <3>1, <3>2 DEF w
  <2>5. Only(u, kind) = IF Is(x, kind) THEN Append(Only(v, kind), x) ELSE Only(v, kind)
    BY <2>1, OnlyAppend
  <2>6. Append(Only(s, kind) \o Only(v, kind), x) = Only(s, kind) \o Append(Only(v, kind), x)
    <3>1. Only(s, kind) \in Seq(C) /\ Only(v, kind) \in Seq(C)
      BY <1>0, <2>1
    <3>2. AppendsBehind(Only(s, kind), Only(v, kind), x)
      BY <2>1, <3>1, AppendLemma
    <3> QED
      BY <3>2 DEF AppendsBehind
  <2> QED
    BY <2>2, <2>4, <2>5, <2>6
<1> HIDE DEF S
<1>3. \A n \in Nat : n \in S
  BY <1>1, <1>2, SetInduction
<1>4. Len(t) \in Nat
  OBVIOUS
<1> QED
  BY <1>3, <1>4 DEF S

LEMMA OnlyTyped ==
    ASSUME NEW C, NEW s \in Seq(C), NEW kind
    PROVE  Only(s, kind) \in Seq(C)
<1>1. PICK f : Collects(f, Len(s), s, kind, C)
  BY CollectsExist
<1>2. Len(s) \in 0 .. Len(s)
  OBVIOUS
<1>3. f[Len(s)] \in Seq(C)
  BY <1>1, <1>2 DEF Collects
<1> QED
  BY <1>1, <1>3, OnlyCollects

\* Sequences of which all cells or none are of the kind.
LEMMA OnlyUniform ==
    ASSUME NEW C, NEW t \in Seq(C), NEW kind
    PROVE  /\ (\A c \in C : Is(c, kind)) => Only(t, kind) = t
           /\ (\A c \in C : ~ Is(c, kind)) => Only(t, kind) = <<>>
<1> DEFINE f == [i \in 0 .. Len(t) |-> SubSeq(t, 1, i)]
           g == [i \in 0 .. Len(t) |-> <<>>]
<1>1. ASSUME \A c \in C : Is(c, kind)
      PROVE  Only(t, kind) = t
  <2>1. f \in [0 .. Len(t) -> Seq(C)] /\ f[0] = <<>> /\ f[Len(t)] = t
    OBVIOUS
  <2>2. ASSUME NEW i \in 1 .. Len(t)
        PROVE  f[i] = Append(f[i - 1], t[i]) /\ t[i] \in C
    OBVIOUS
  <2> HIDE DEF f
  <2>3. Collects(f, Len(t), t, kind, C)
    BY <1>1, <2>1, <2>2 DEF Collects
  <2> QED
    BY <2>1, <2>3, OnlyCollects
<1>2. ASSUME \A c \in C : ~ Is(c, kind)
      PROVE  Only(t, kind) = <<>>
  <2>1. Collects(g, Len(t), t, kind, C) /\ g[Len(t)] = <<>>
    BY <1>2 DEF Collects
  <2> HIDE DEF g
  <2> QED
    BY <2>1, OnlyCollects
<1> QED
  BY <1>1, <1>2

-----------------------------------------------------------------------------
(* The invariant *)

HasFields(r, F) == r = [f \in F |-> r[f]]

AioFields ==
    {"readFdSet", "writeFdSet", "readFdSetPost", "writeFdSetPost", "rdUse", "wrUse",
     "numRdPosted", "numWrPosted", "maxFd", "asyncIoTableSize", "asyncIoInUse"}

PendingFields == {"wsReadPending", "fcgiReadPending", "fcgiWritePending"}

CgiFields ==
    PendingFields \cup
    {"bytesToRead", "fromWS", "next", "fromAS", "header", "headerLen", "contentLen",
     "paddingLen", "erBody", "readingEndRequestBody", "exitStatus", "exitStatusSet",
     "webServerReadHandlerEOF", "stdin_eof_sent"}

\* The cells of what is sent to the application.
InCell == {<<"in", i>> : i \in Nat}
StdinHeader == {<<"hdr", i, "stdin", requestId, n, 0>> : i \in 1 .. HeaderLen, n \in Nat}
StdinCell == InCell \cup StdinHeader

CgiTyped(c) ==
    /\ HasFields(c, CgiFields)
    /\ c.wsReadPending \in BOOLEAN /\ c.fcgiReadPending \in BOOLEAN
    /\ c.fcgiWritePending \in BOOLEAN /\ c.webServerReadHandlerEOF \in BOOLEAN
    /\ c.stdin_eof_sent \in BOOLEAN
    /\ c.bytesToRead \in Int /\ c.next \in Nat /\ c.fromWS \in Seq(StdinCell)

\* What the variables of the program say about the table, also while a
\* handler runs: a read of stdin is only under way with the buffer empty and
\* input still expected.
Marks(c, a) ==
    /\ c.wsReadPending <=> Stdin \in a.rdUse
    /\ c.fcgiReadPending <=> Sock \in a.rdUse
    /\ c.fcgiWritePending <=> Sock \in a.wrUse
    /\ a.rdUse \subseteq {Stdin, Sock} /\ a.wrUse \subseteq {Sock}
    /\ c.fcgiWritePending => c.fromWS # <<>>
    /\ c.wsReadPending => /\ c.fromWS = <<>> /\ c.bytesToRead > 0
                          /\ ~ c.webServerReadHandlerEOF
    /\ c.fromWS = <<>> => c.next = 0
    /\ c.stdin_eof_sent => c.bytesToRead <= 0

\* After ScheduleIo, fromWS is being written if it holds anything.
Scheduled(c) == c.fromWS # <<>> => c.fcgiWritePending

PendingInv ==
    /\ CgiTyped(cgi) /\ HasFields(aio, AioFields)
    /\ Marks(cgi, aio) /\ Scheduled(cgi)
    /\ pc \in {"loop", "dispatch"} => cgi.fcgiReadPending

HasEof(r) == \E i \in Starts(r) : r[i][5] = 0

RelayInv ==
    /\ HasFields(web, {"stdin", "out", "err", "all"}) /\ web.stdin \in Seq(InCell)
    /\ HasFields(app, {"answer", "sends", "got", "closed", "died"})
    /\ app.got \in Seq(StdinCell)
    /\ StdinRelayed
    /\ HasEof(Relayed) => cgi.webServerReadHandlerEOF \/ cgi.bytesToRead <= 0

-----------------------------------------------------------------------------
(* ScheduleIo *)

LEMMA AsyncReadLemma ==
    ASSUME NEW a, HasFields(a, AioFields), NEW fd, NEW e, e = OS_AsyncRead(a, fd)
    PROVE  /\ HasFields(e, AioFields)
           /\ e.rdUse = a.rdUse \cup {fd} /\ e.wrUse = a.wrUse
BY DEF HasFields, AioFields, OS_AsyncRead

LEMMA AsyncWriteLemma ==
    ASSUME NEW a, HasFields(a, AioFields), NEW fd, NEW e, e = OS_AsyncWrite(a, fd)
    PROVE  /\ HasFields(e, AioFields)
           /\ e.wrUse = a.wrUse \cup {fd} /\ e.rdUse = a.rdUse
BY DEF HasFields, AioFields, OS_AsyncWrite

\* The calls of ScheduleIo change the marks and the table alone.
Same(c, d) == \A f \in CgiFields \ PendingFields : d[f] = c[f]

Sound(b) == CgiTyped(b.c) /\ HasFields(b.a, AioFields) /\ Marks(b.c, b.a)

LEMMA ScheduleWriteLemma ==
    ASSUME NEW b, Sound(b), NEW e, e = ScheduleWrite(b)
    PROVE  /\ Sound(e) /\ Scheduled(e.c) /\ Same(b.c, e.c)
           /\ e.c.fcgiReadPending = b.c.fcgiReadPending
<1>1. CASE b.c.fcgiWritePending \/ b.c.fromWS = <<>>
  BY <1>1 DEF ScheduleWrite, Scheduled, Same
<1>2. CASE ~ (b.c.fcgiWritePending \/ b.c.fromWS = <<>>)
  <2> DEFINE c == b.c
             d == [c EXCEPT !.fcgiWritePending = TRUE]
             a == OS_AsyncWrite(b.a, Sock)
  <2>1. e.c = d /\ e.a = a
    BY <1>2 DEF ScheduleWrite
  <2>2. HasFields(a, AioFields) /\ a.wrUse = b.a.wrUse \cup {Sock} /\ a.rdUse = b.a.rdUse
    BY AsyncWriteLemma DEF Sound
  <2>3. HasFields(d, CgiFields) /\ d.fcgiWritePending
    BY DEF Sound, CgiTyped, HasFields, CgiFields, PendingFields
  <2>4. \A f \in CgiFields : f # "fcgiWritePending" => d[f] = c[f]
    BY DEF Sound, CgiTyped, HasFields
  <2> HIDE DEF a, d
  <2>5. /\ d.wsReadPending = c.wsReadPending /\ d.fcgiReadPending = c.fcgiReadPending
        /\ d.fromWS = c.fromWS /\ d.next = c.next /\ d.bytesToRead = c.bytesToRead
        /\ d.webServerReadHandlerEOF = c.webServerReadHandlerEOF
        /\ d.stdin_eof_sent = c.stdin_eof_sent
    BY <2>4 DEF CgiFields, PendingFields
  <2>6. CgiTyped(d)
    BY <2>3, <2>5 DEF Sound, CgiTyped
  <2>7. Marks(d, a)
    BY <1>2, <2>2, <2>3, <2>5 DEF Sound, Marks, Stdin, Sock
  <2>8. Same(c, d)
    BY <2>4 DEF Same, PendingFields
  <2> QED
    BY <2>1, <2>2, <2>3, <2>5, <2>6, <2>7, <2>8 DEF Sound, Scheduled
<1> QED
  BY <1>1, <1>2

LEMMA ScheduleReadLemma ==
    ASSUME NEW b, Sound(b), Scheduled(b.c), NEW e, e = ScheduleRead(b)
    PROVE  Sound(e) /\ Scheduled(e.c) /\ Same(b.c, e.c) /\ e.c.fcgiReadPending
<1>1. CASE b.c.fcgiReadPending
  BY <1>1 DEF ScheduleRead, Same
<1>2. CASE ~ b.c.fcgiReadPending
  <2> DEFINE c == b.c
             d == [c EXCEPT !.fcgiReadPending = TRUE]
             a == OS_AsyncRead(b.a, Sock)
  <2>1. e.c = d /\ e.a = a
    BY <1>2 DEF ScheduleRead
  <2>2. HasFields(a, AioFields) /\ a.rdUse = b.a.rdUse \cup {Sock} /\ a.wrUse = b.a.wrUse
    BY AsyncReadLemma DEF Sound
  <2>3. HasFields(d, CgiFields) /\ d.fcgiReadPending
    BY DEF Sound, CgiTyped, HasFields, CgiFields, PendingFields
  <2>4. \A f \in CgiFields : f # "fcgiReadPending" => d[f] = c[f]
    BY DEF Sound, CgiTyped, HasFields
  <2> HIDE DEF a, d
  <2>5. /\ d.wsReadPending = c.wsReadPending /\ d.fcgiWritePending = c.fcgiWritePending
        /\ d.fromWS = c.fromWS /\ d.next = c.next /\ d.bytesToRead = c.bytesToRead
        /\ d.webServerReadHandlerEOF = c.webServerReadHandlerEOF
        /\ d.stdin_eof_sent = c.stdin_eof_sent
    BY <2>4 DEF CgiFields, PendingFields
  <2>6. CgiTyped(d)
    BY <2>3, <2>5 DEF Sound, CgiTyped
  <2>7. Marks(d, a)
    BY <1>2, <2>2, <2>3, <2>5 DEF Sound, Marks, Stdin, Sock
  <2>8. Same(c, d)
    BY <2>4 DEF Same, PendingFields
  <2> QED
    BY <2>1, <2>2, <2>3, <2>5, <2>6, <2>7, <2>8 DEF Sound, Scheduled
<1> QED
  BY <1>1, <1>2

LEMMA ScheduleStdinLemma ==
    ASSUME NEW b, Sound(b), Scheduled(b.c), b.c.fcgiReadPending,
           NEW e, e = ScheduleStdin(b)
    PROVE  Sound(e) /\ Scheduled(e.c) /\ Same(b.c, e.c) /\ e.c.fcgiReadPending
<1> DEFINE starts == /\ b.c.bytesToRead > 0 /\ ~ b.c.webServerReadHandlerEOF
                     /\ ~ b.c.wsReadPending /\ ~ b.c.fcgiWritePending /\ b.c.next = 0
<1>1. CASE ~ starts
  BY <1>1 DEF ScheduleStdin, Same
<1>2. CASE starts
  <2> DEFINE c == b.c
             d == [c EXCEPT !.wsReadPending = TRUE]
             a == OS_AsyncRead(b.a, Stdin)
  <2>1. e.c = d /\ e.a = a
    BY <1>2 DEF ScheduleStdin
  <2>2. HasFields(a, AioFields) /\ a.rdUse = b.a.rdUse \cup {Stdin} /\ a.wrUse = b.a.wrUse
    BY AsyncReadLemma DEF Sound
  <2>3. HasFields(d, CgiFields) /\ d.wsReadPending
    BY DEF Sound, CgiTyped, HasFields, CgiFields, PendingFields
  <2>4. \A f \in CgiFields : f # "wsReadPending" => d[f] = c[f]
    BY DEF Sound, CgiTyped, HasFields
  <2> HIDE DEF a, d
  <2>5. /\ d.fcgiReadPending = c.fcgiReadPending /\ d.fcgiWritePending = c.fcgiWritePending
        /\ d.fromWS = c.fromWS /\ d.next = c.next /\ d.bytesToRead = c.bytesToRead
        /\ d.webServerReadHandlerEOF = c.webServerReadHandlerEOF
        /\ d.stdin_eof_sent = c.stdin_eof_sent
    BY <2>4 DEF CgiFields, PendingFields
  <2>6. CgiTyped(d)
    BY <2>3, <2>5 DEF Sound, CgiTyped
  <2>7. Marks(d, a)
    BY <1>2, <2>2, <2>3, <2>5 DEF Sound, Marks, Scheduled, Stdin, Sock
  <2>8. Same(c, d)
    BY <2>4 DEF Same, PendingFields
  <2> QED
    BY <2>1, <2>2, <2>3, <2>5, <2>6, <2>7, <2>8 DEF Sound, Scheduled
<1> QED
  BY <1>1, <1>2

\* Afterwards the connection is being read, and written if there is anything
\* to write; stdin is read only into the empty buffer.
LEMMA ScheduleIoLemma ==
    ASSUME NEW b, Sound(b), NEW e, e = ScheduleIo(b)
    PROVE  Sound(e) /\ Scheduled(e.c) /\ Same(b.c, e.c) /\ e.c.fcgiReadPending
<1> DEFINE w == ScheduleWrite(b)
           r == ScheduleRead(w)
<1>1. Sound(w) /\ Scheduled(w.c) /\ Same(b.c, w.c)
  BY ScheduleWriteLemma
<1>2. e = ScheduleStdin(r)
  BY DEF ScheduleIo
<1> HIDE DEF w
<1>3. Sound(r) /\ Scheduled(r.c) /\ Same(w.c, r.c) /\ r.c.fcgiReadPending
  BY <1>1, ScheduleReadLemma
<1> HIDE DEF r
<1>4. Sound(e) /\ Scheduled(e.c) /\ Same(r.c, e.c) /\ e.c.fcgiReadPending
  BY <1>2, <1>3, ScheduleStdinLemma
<1> QED
  BY <1>1, <1>3, <1>4 DEF Same

-----------------------------------------------------------------------------
(* OS_DoIo *)

LEMMA CompletedRead ==
    ASSUME NEW a, HasFields(a, AioFields), NEW fd \in {Stdin, Sock},
           NEW e, e = Completed(a, AIO_RD_IX(fd))
    PROVE  /\ HasFields(e, AioFields)
           /\ e.rdUse = a.rdUse \ {fd} /\ e.wrUse = a.wrUse
<1>1. AIO_RD_IX(fd) \div 2 = fd /\ AIO_RD_IX(fd) % 2 = 0
  BY DEF AIO_RD_IX, Stdin, Sock
<1>2. e = [a EXCEPT !.numRdPosted = @ - 1, !.readFdSetPost = @ \ {fd}, !.rdUse = @ \ {fd}]
  BY <1>1 DEF Completed
<1> QED
  BY <1>2 DEF HasFields, AioFields

LEMMA CompletedWrite ==
    ASSUME NEW a, HasFields(a, AioFields),
           NEW e, e = Completed(a, AIO_WR_IX(Sock))
    PROVE  /\ HasFields(e, AioFields)
           /\ e.wrUse = a.wrUse \ {Sock} /\ e.rdUse = a.rdUse
<1>1. AIO_WR_IX(Sock) \div 2 = Sock /\ AIO_WR_IX(Sock) % 2 = 1
  BY DEF AIO_WR_IX, Sock
<1>2. e = [a EXCEPT !.numWrPosted = @ - 1, !.writeFdSetPost = @ \ {Sock}, !.wrUse = @ \ {Sock}]
  BY <1>1, 1 # 0 DEF Completed
<1> QED
  BY <1>2 DEF HasFields, AioFields

LEMMA PostedLemma ==
    ASSUME NEW a, HasFields(a, AioFields), NEW R, NEW W, NEW e, e = Posted(a, R, W)
    PROVE  /\ HasFields(e, AioFields)
           /\ e.wrUse = a.wrUse /\ e.rdUse = a.rdUse
BY DEF HasFields, AioFields, Posted

\* Events are only dispatched for operations that were started.
LEMMA EventLemma ==
    ASSUME Marks(cgi, aio)
    PROVE  /\ \A fd \in {Stdin, Sock} : AtEvent(AIO_RD_IX(fd)) => fd \in aio.rdUse
           /\ AtEvent(AIO_WR_IX(Sock)) => Sock \in aio.wrUse
<1> DEFINE E == Events(aio, from)
<1>1. E \subseteq {AIO_RD_IX(fd) : fd \in aio.rdUse} \cup {AIO_WR_IX(fd) : fd \in aio.wrUse}
  BY DEF Events
<1>2. aio.rdUse \subseteq {0, 3} /\ aio.wrUse \subseteq {3}
  BY DEF Marks, Stdin, Sock
<1>3. \A x \in E : x \in Nat
  BY <1>1, <1>2 DEF AIO_RD_IX, AIO_WR_IX
<1> HIDE DEF E
<1>4. E # {} => First(E) \in E
  <2> SUFFICES ASSUME E # {} PROVE First(E) \in E
    OBVIOUS
  <2>1. \E x \in E : \A y \in E : x <= y
    BY <1>3, LeastElement
  <2> QED
    BY <2>1 DEF First
<1>5. ASSUME NEW ix, AtEvent(ix)
      PROVE  ix \in E
  BY <1>4, <1>5 DEF AtEvent, E
<1>6. ASSUME NEW fd \in {Stdin, Sock}, AtEvent(AIO_RD_IX(fd))
      PROVE  fd \in aio.rdUse
  <2>1. AIO_RD_IX(fd) \in E
    BY <1>5, <1>6
  <2> QED
    BY <1>1, <1>2, <2>1 DEF AIO_RD_IX, AIO_WR_IX, Stdin, Sock
<1>7. ASSUME AtEvent(AIO_WR_IX(Sock))
      PROVE  Sock \in aio.wrUse
  <2>1. AIO_WR_IX(Sock) \in E
    BY <1>5, <1>7
  <2> QED
    BY <1>1, <1>2, <2>1 DEF AIO_RD_IX, AIO_WR_IX, Sock
<1> QED
  BY <1>6, <1>7

-----------------------------------------------------------------------------
(* The records that carry stdin *)

LEMMA FunctionIsSeq ==
    ASSUME NEW S, NEW n \in Nat, NEW f \in [1 .. n -> S]
    PROVE  f \in Seq(S) /\ Len(f) = n
OBVIOUS

LEMMA HeaderLemma ==
    ASSUME NEW n \in Nat, NEW h, h = MakeHeader("stdin", requestId, n, 0)
    PROVE  /\ h \in Seq(StdinHeader) /\ h \in Seq(StdinCell) /\ Len(h) = 4
           /\ \A k \in 1 .. 4 : h[k] = <<"hdr", k, "stdin", requestId, n, 0>>
<1>1. HeaderLen = 4
  BY CgiAssumption
<1>2. \A k \in 1 .. 4 : <<"hdr", k, "stdin", requestId, n, 0>> \in StdinHeader
  BY <1>1 DEF StdinHeader
<1>3. h = [k \in 1 .. 4 |-> <<"hdr", k, "stdin", requestId, n, 0>>]
  BY <1>1 DEF MakeHeader
<1>4. h \in Seq(StdinHeader) /\ Len(h) = 4
  <2>1. h \in [1 .. 4 -> StdinHeader]
    BY <1>2, <1>3
  <2> QED
    BY <2>1, FunctionIsSeq
<1>5. h \in Seq(StdinCell)
  BY <1>4 DEF StdinCell
<1> QED
  BY <1>3, <1>4, <1>5

\* Cells of stdin, and of headers.
LEMMA CellLemma ==
    /\ \A c \in InCell : Is(c, "in") /\ ~ Is(c, "hdr")
    /\ \A c \in StdinHeader : ~ Is(c, "in") /\ Is(c, "hdr") /\ c[5] \in Nat
    /\ \A c \in StdinCell : Is(c, "hdr") => c[5] \in Nat
<1>1. \A c \in InCell : c[1] = "in"
  BY DEF InCell
<1>2. \A c \in StdinHeader : c[1] = "hdr" /\ c[5] \in Nat
  BY DEF StdinHeader
<1> QED
  BY <1>1, <1>2 DEF StdinCell, Is

\* r is followed in q by a header and n cells of stdin.
Extends(q, r, n) ==
    /\ Len(q) = Len(r) + 4 + n
    /\ \A i \in 1 .. Len(r) : q[i] = r[i]
    /\ \A k \in 1 .. 4 : q[Len(r) + k] = <<"hdr", k, "stdin", requestId, n, 0>>
    /\ \A k \in 1 .. n : q[Len(r) + 4 + k] \in InCell

LEMMA ConcatExtends ==
    ASSUME NEW r \in Seq(StdinCell), NEW n \in Nat,
           NEW data \in Seq(InCell), Len(data) = n,
           NEW h \in Seq(StdinCell), Len(h) = 4,
           \A k \in 1 .. 4 : h[k] = <<"hdr", k, "stdin", requestId, n, 0>>
    PROVE  r \o (h \o data) \in Seq(StdinCell) /\ Extends(r \o (h \o data), r, n)
<1>1. data \in Seq(StdinCell)
  BY DEF StdinCell
<1> DEFINE t == h \o data
<1>2. /\ t \in Seq(StdinCell) /\ Len(t) = 4 + n
      /\ \A k \in 1 .. 4 : t[k] = h[k]
      /\ \A k \in 1 .. n : t[4 + k] = data[k]
  <2>1. /\ t \in Seq(StdinCell) /\ Len(t) = Len(h) + Len(data)
        /\ \A i \in 1 .. Len(h) + Len(data) : t[i] = IF i <= Len(h) THEN h[i] ELSE data[i - Len(h)]
    BY <1>1, ConcatProperties
  <2> HIDE DEF t
  <2>2. \A k \in 1 .. 4 : k \in 1 .. 4 + n /\ k <= 4
    OBVIOUS
  <2>3. \A k \in 1 .. n : 4 + k \in 1 .. 4 + n /\ ~ (4 + k <= 4) /\ (4 + k) - 4 = k
    OBVIOUS
  <2> QED
    BY <2>1, <2>2, <2>3
<1> HIDE DEF t
<1>3. \A k \in 1 .. n : data[k] \in InCell
  OBVIOUS
<1>4. \A k \in 1 .. n : t[4 + k] \in InCell
  BY <1>2, <1>3
<1> DEFINE q == r \o t
<1>5. /\ q \in Seq(StdinCell) /\ Len(q) = Len(r) + Len(t)
      /\ \A i \in 1 .. Len(r) + Len(t) : q[i] = IF i <= Len(r) THEN r[i] ELSE t[i - Len(r)]
  BY <1>2, ConcatProperties
<1>6. Len(r) \in Nat
  OBVIOUS
<1> HIDE DEF q
<1>7. \A i \in 1 .. Len(r) : q[i] = r[i]
  BY <1>2, <1>5, <1>6
<1>8. \A k \in 1 .. 4 + n : q[Len(r) + k] = t[k]
  <2> SUFFICES ASSUME NEW k \in 1 .. 4 + n
               PROVE  q[Len(r) + k] = t[k]
    OBVIOUS
  <2>1. Len(r) + k \in 1 .. Len(r) + Len(t) /\ ~ (Len(r) + k <= Len(r)) /\ Len(r) + k - Len(r) = k
    BY <1>2, <1>6
  <2> QED
    BY <1>5, <2>1
<1>9. \A k \in 1 .. 4 : k \in 1 .. 4 + n
  OBVIOUS
<1>10. \A k \in 1 .. n : 4 + k \in 1 .. 4 + n /\ Len(r) + (4 + k) = Len(r) + 4 + k
  BY <1>6
<1>11. \A k \in 1 .. 4 : q[Len(r) + k] = <<"hdr", k, "stdin", requestId, n, 0>>
  BY <1>2, <1>8, <1>9
<1>12. \A k \in 1 .. n : q[Len(r) + 4 + k] \in InCell
  BY <1>4, <1>8, <1>10
<1>13. Len(q) = Len(r) + 4 + n
  BY <1>2, <1>5, <1>6
<1> QED
  BY <1>5, <1>7, <1>11, <1>12, <1>13 DEF q, t, Extends

\* The records of q are those of r and one more.
LEMMA StartsLemma ==
    ASSUME NEW r \in Seq(StdinCell), NEW n \in Nat, NEW q, Extends(q, r, n)
    PROVE  Starts(q) = Starts(r) \cup {Len(r) + 1}
<1> DEFINE L == Len(r)
<1>0. L \in Nat
  OBVIOUS
<1> HIDE DEF L
<1>1. /\ Len(q) = L + 4 + n
      /\ \A i \in 1 .. L : q[i] = r[i]
      /\ \A k \in 1 .. 4 : q[L + k] = <<"hdr", k, "stdin", requestId, n, 0>>
      /\ \A k \in 1 .. n : q[L + 4 + k] \in InCell
  BY DEF Extends, L
<1>2. \A i : i \in Starts(r) <=> i \in 1 .. L /\ Is(r[i], "hdr") /\ r[i][2] = 1
  BY DEF Starts, L
<1>3. \A i : i \in Starts(q) <=> i \in 1 .. L + 4 + n /\ Is(q[i], "hdr") /\ q[i][2] = 1
  BY <1>1 DEF Starts
<1>4. ASSUME NEW i \in 1 .. L
      PROVE  i \in Starts(q) <=> i \in Starts(r)
  <2>1. i \in 1 .. L + 4 + n /\ q[i] = r[i]
    BY <1>0, <1>1
  <2> QED
    BY <1>2, <1>3, <2>1
<1>5. L + 1 \in Starts(q)
  <2>1. q[L + 1] = <<"hdr", 1, "stdin", requestId, n, 0>> /\ L + 1 \in 1 .. L + 4 + n
    BY <1>0, <1>1
  <2> QED
    BY <1>3, <2>1 DEF Is
<1>6. ASSUME NEW i \in L + 2 .. L + 4
      PROVE  i \notin Starts(q)
  <2>1. PICK k \in 2 .. 4 : i = L + k
    <3>1. i - L \in 2 .. 4 /\ i = L + (i - L)
      BY <1>0
    <3> QED
      BY <3>1
  <2>2. k \in 1 .. 4 /\ k # 1
    BY <2>1
  <2>3. q[i] = <<"hdr", k, "stdin", requestId, n, 0>>
    BY <1>1, <2>1, <2>2
  <2> QED
    BY <1>3, <2>2, <2>3
<1>7. ASSUME NEW i \in L + 5 .. L + 4 + n
      PROVE  i \notin Starts(q)
  <2>1. i - L - 4 \in 1 .. n /\ i = L + 4 + (i - L - 4)
    BY <1>0
  <2>2. q[i] \in InCell
    BY <1>1, <2>1
  <2> QED
    BY <1>3, <2>2, CellLemma
<1>8. \A i \in 1 .. L + 4 + n : \/ i \in 1 .. L \/ i = L + 1
                                \/ i \in L + 2 .. L + 4 \/ i \in L + 5 .. L + 4 + n
  BY <1>0
<1>9. \A i \in Starts(q) : i \in Starts(r) \cup {L + 1}
  BY <1>3, <1>4, <1>6, <1>7, <1>8
<1>10. \A i \in Starts(r) \cup {L + 1} : i \in Starts(q)
  BY <1>2, <1>4, <1>5
<1> QED
  BY <1>9, <1>10 DEF L

\* A sequence of records stays one.
LEMMA RecordsExtended ==
    ASSUME NEW r \in Seq(StdinCell), StdinRecords(r), ~ HasEof(r),
           NEW n \in Nat, NEW q, Extends(q, r, n)
    PROVE  StdinRecords(q) /\ (HasEof(q) => n = 0)
<1> DEFINE L == Len(r)
           Whole1(s, i) ==
             /\ \A k \in 1 .. HeaderLen :
                  s[i + k - 1] = MakeHeader("stdin", requestId, s[i][5], 0)[k]
             /\ \A j \in i + HeaderLen .. After(s, i) - 1 : Is(s[j], "in")
<1>0. L \in Nat /\ HeaderLen = 4
  BY CgiAssumption
<1>1. \A i \in Starts(r) : i \in 1 .. L /\ r[i][5] \in Nat \ {0}
  <2>1. \A i \in Starts(r) : i \in 1 .. L /\ r[i] \in StdinCell /\ Is(r[i], "hdr")
    BY DEF Starts
  <2> QED
    BY <2>1, CellLemma DEF HasEof
<1>2. Starts(q) = Starts(r) \cup {L + 1}
  BY StartsLemma
<1>3. r = <<>> => L + 1 = 1
  OBVIOUS
<1>4. \A i \in Starts(r) :
        (After(r, i) = L + 1 \/ After(r, i) \in Starts(r)) /\ Whole1(r, i)
  BY DEF StdinRecords
<1> HIDE DEF L
<1>5. /\ Len(q) = L + 4 + n
      /\ \A i \in 1 .. L : q[i] = r[i]
      /\ \A k \in 1 .. 4 : q[L + k] = <<"hdr", k, "stdin", requestId, n, 0>>
      /\ \A k \in 1 .. n : q[L + 4 + k] \in InCell
  BY DEF Extends, L
<1>6. q[L + 1][5] = n
  <2>1. q[L + 1] = <<"hdr", 1, "stdin", requestId, n, 0>>
    BY <1>5
  <2> QED
    BY <2>1
<1>7. \A i \in Starts(r) : q[i][5] = r[i][5]
  BY <1>1, <1>5
<1>8. HasEof(q) => n = 0
  BY <1>1, <1>2, <1>6, <1>7 DEF HasEof
<1>9. 1 \in Starts(q)
  BY <1>2, <1>3 DEF StdinRecords
<1>10. ASSUME NEW i \in Starts(r)
       PROVE  After(q, i) \in Starts(q) /\ Whole1(q, i)
  <2>1. After(q, i) = After(r, i) /\ After(r, i) = i + 4 + r[i][5]
    BY <1>0, <1>7 DEF After
  <2>2. After(r, i) <= L + 1
    BY <1>0, <1>1, <1>4
  <2>3. ASSUME NEW j \in i .. i + 3 + r[i][5]
        PROVE  q[j] = r[j]
    <3>1. j \in 1 .. L
      BY <1>0, <1>1, <2>1, <2>2
    <3> QED
      BY <1>5, <3>1
  <2>4. \A k \in 1 .. HeaderLen : i + k - 1 \in i .. i + 3 + r[i][5]
    BY <1>0, <1>1
  <2>5. \A j \in i + HeaderLen .. After(r, i) - 1 : j \in i .. i + 3 + r[i][5]
    BY <1>0, <1>1, <2>1
  <2> QED
    BY <1>2, <1>4, <1>7, <2>1, <2>3, <2>4, <2>5
<1>11. After(q, L + 1) = Len(q) + 1 /\ Whole1(q, L + 1)
  <2>1. After(q, L + 1) = L + 5 + n /\ Len(q) + 1 = L + 5 + n
    BY <1>0, <1>5, <1>6 DEF After
  <2>2. ASSUME NEW k \in 1 .. HeaderLen
        PROVE  q[L + 1 + k - 1] = MakeHeader("stdin", requestId, n, 0)[k]
    <3>1. L + 1 + k - 1 = L + k /\ k \in 1 .. 4
      BY <1>0
    <3>2. q[L + k] = <<"hdr", k, "stdin", requestId, n, 0>>
      BY <1>5, <3>1
    <3> QED
      BY <3>1, <3>2, HeaderLemma
  <2>3. ASSUME NEW j \in L + 1 + HeaderLen .. After(q, L + 1) - 1
        PROVE  Is(q[j], "in")
    <3>1. j - L - 4 \in 1 .. n /\ j = L + 4 + (j - L - 4)
      BY <1>0, <2>1
    <3>2. q[j] \in InCell
      BY <1>5, <3>1
    <3> QED
      BY <3>2, CellLemma
  <2> QED
    BY <1>6, <2>1, <2>2, <2>3
<1>12. \A i \in Starts(r) : q[i][5] # 0
  BY <1>1, <1>7
<1> QED
  BY <1>2, <1>8, <1>9, <1>10, <1>11, <1>12 DEF StdinRecords

LEMMA OnlyContent ==
    ASSUME NEW h \in Seq(StdinHeader), NEW data \in Seq(InCell)
    PROVE  h \o data \in Seq(StdinCell) /\ Only(h \o data, "in") = data
<1>1. h \in Seq(StdinCell) /\ data \in Seq(StdinCell)
  BY DEF StdinCell
<1>2. Only(h \o data, "in") = Only(h, "in") \o Only(data, "in")
  BY <1>1, OnlyConcat
<1>3. Only(h, "in") = <<>> /\ Only(data, "in") = data
  BY CellLemma, OnlyUniform
<1>4. <<>> \o data = data /\ h \o data \in Seq(StdinCell)
  BY <1>1
<1> QED
  BY <1>2, <1>3, <1>4

\* q carries data behind what r carries, in a record of its own.
Carries(q, r, data) ==
    /\ q \in Seq(StdinCell) /\ StdinRecords(q) /\ (HasEof(q) => Len(data) = 0)
    /\ Only(q, "in") = Only(r, "in") \o data

StdinRecord(data) == MakeHeader("stdin", requestId, Len(data), 0) \o data

\* One more record behind a sequence of records that has not been ended.
LEMMA RecordAdded ==
    ASSUME NEW r \in Seq(StdinCell), StdinRecords(r), ~ HasEof(r),
           NEW data \in Seq(InCell)
    PROVE  /\ Carries(r \o StdinRecord(data), r, data)
           /\ StdinRecord(data) \in Seq(StdinCell) /\ StdinRecord(data) # <<>>
<1> DEFINE n == Len(data)
           h == MakeHeader("stdin", requestId, n, 0)
           t == h \o data
<1>0. n \in Nat
  OBVIOUS
<1> HIDE DEF n
<1>1. /\ h \in Seq(StdinHeader) /\ h \in Seq(StdinCell) /\ Len(h) = 4
      /\ \A k \in 1 .. 4 : h[k] = <<"hdr", k, "stdin", requestId, n, 0>>
  BY <1>0, HeaderLemma
<1> HIDE DEF h
<1>2. r \o t \in Seq(StdinCell) /\ Extends(r \o t, r, n)
  BY <1>0, <1>1, ConcatExtends DEF n
<1>3. StdinRecords(r \o t) /\ (HasEof(r \o t) => n = 0)
  BY <1>0, <1>2, RecordsExtended
<1>4. t \in Seq(StdinCell) /\ Only(t, "in") = data
  BY <1>1, OnlyContent
<1>5. t # <<>>
  <2>1. Len(t) = Len(h) + n
    <3>1. data \in Seq(StdinCell)
      BY DEF StdinCell
    <3> QED
      BY <1>1, <3>1, ConcatProperties DEF n
  <2> QED
    BY <1>0, <1>1, <2>1
<1>6. t = StdinRecord(data)
  BY DEF StdinRecord, h, n
<1> HIDE DEF t
<1>7. Only(r \o t, "in") = Only(r, "in") \o Only(t, "in")
  <2>1. t \in Seq(StdinCell)
    BY <1>4
  <2> QED
    BY <2>1, OnlyConcat
<1> QED
  BY <1>2, <1>3, <1>4, <1>5, <1>6, <1>7 DEF n, Carries

\* A sequence is cut in two.
LEMMA CutLemma ==
    ASSUME NEW C, NEW s \in Seq(C), NEW n \in 0 .. Len(s)
    PROVE  /\ SubSeq(s, 1, n) \in Seq(C) /\ Len(SubSeq(s, 1, n)) = n
           /\ Drop(s, n) \in Seq(C) /\ Len(Drop(s, n)) = Len(s) - n
           /\ SubSeq(s, 1, n) \o Drop(s, n) = s
<1>1. SubSeq(s, 1, n) \in Seq(C) /\ Len(SubSeq(s, 1, n)) = n
  OBVIOUS
<1>2. Drop(s, n) \in Seq(C) /\ Len(Drop(s, n)) = Len(s) - n
  BY DEF Drop
<1>3. SubSeq(s, 1, n) \o SubSeq(s, n + 1, Len(s)) = SubSeq(s, 1, Len(s))
  <2>1. 1 \in 1 .. Len(s) + 1 /\ n \in 1 - 1 .. Len(s) /\ Len(s) \in n .. Len(s)
    OBVIOUS
  <2> QED
    BY <2>1, ConcatAdjacentSubSeq
<1> QED
  BY <1>1, <1>2, <1>3, SubSeqFull DEF Drop

\* What WebServerReadHandler adds: n bytes of the input in a record.
InputRecord(in, n) == MakeHeader("stdin", requestId, n, 0) \o SubSeq(in, 1, n)

Added(f, got, in, n) ==
    /\ f \in Seq(StdinCell) /\ f # <<>> /\ Drop(in, n) \in Seq(InCell)
    /\ StdinRecords(got \o f) /\ (HasEof(got \o f) => n = 0)
    /\ Only(got \o f, "in") \o Drop(in, n) = Only(got, "in") \o in

LEMMA InputAdded ==
    ASSUME NEW got \in Seq(StdinCell), StdinRecords(got), ~ HasEof(got),
           NEW in \in Seq(InCell), NEW n \in 0 .. Len(in)
    PROVE  Added(InputRecord(in, n), got, in, n)
<1> DEFINE data == SubSeq(in, 1, n)
           rest == Drop(in, n)
           t == StdinRecord(data)
<1>1. /\ data \in Seq(InCell) /\ Len(data) = n /\ rest \in Seq(InCell)
      /\ data \o rest = in
  BY CutLemma
<1>2. t = InputRecord(in, n)
  BY <1>1 DEF StdinRecord, InputRecord
<1> HIDE DEF data, rest
<1>3. Carries(got \o t, got, data) /\ t \in Seq(StdinCell) /\ t # <<>>
  BY <1>1, RecordAdded
<1> HIDE DEF t
<1>4. /\ StdinRecords(got \o t) /\ (HasEof(got \o t) => n = 0)
      /\ Only(got \o t, "in") = Only(got, "in") \o data
  BY <1>1, <1>3 DEF Carries
<1>5. (Only(got, "in") \o data) \o rest = Only(got, "in") \o (data \o rest)
  <2>1. Only(got, "in") \in Seq(StdinCell)
    BY OnlyTyped
  <2>2. data \in Seq(StdinCell) /\ rest \in Seq(StdinCell)
    BY <1>1 DEF StdinCell
  <2> QED
    BY <2>1, <2>2, ConcatAssociative
<1> QED
  BY <1>1, <1>2, <1>3, <1>4, <1>5 DEF rest, Added

\* What WriteStdinEof adds: the record that ends the stream.
LEMMA EofAdded ==
    ASSUME NEW got \in Seq(StdinCell), NEW f \in Seq(StdinCell),
           StdinRecords(got \o f), ~ HasEof(got \o f), NEW g
    PROVE  g = f \o MakeHeader("stdin", requestId, 0, 0) =>
           /\ g \in Seq(StdinCell) /\ g # <<>> /\ StdinRecords(got \o g)
           /\ Only(got \o g, "in") = Only(got \o f, "in")
<1> DEFINE h == MakeHeader("stdin", requestId, 0, 0)
           r == got \o f
           none == <<>>
<1>1. h \in Seq(StdinCell) /\ Len(h) = 4
  BY HeaderLemma
<1>2. r \in Seq(StdinCell) /\ StdinRecords(r) /\ ~ HasEof(r)
  OBVIOUS
<1>3. none \in Seq(InCell) /\ Len(none) = 0
  OBVIOUS
<1>4. StdinRecord(none) = h
  BY <1>1 DEF StdinRecord
<1> HIDE DEF h, r, none
<1>5. Carries(r \o h, r, none)
  BY <1>2, <1>3, <1>4, RecordAdded
<1>6. Only(r, "in") \o none = Only(r, "in")
  <2>1. Only(r, "in") \in Seq(StdinCell)
    BY <1>2, OnlyTyped
  <2> QED
    BY <2>1, ConcatEmptySeq DEF none
<1> DEFINE k == f \o h
<1>7. r \o h = got \o k
  BY <1>1, ConcatAssociative DEF r
<1>8. k \in Seq(StdinCell) /\ Len(k) = Len(f) + Len(h) /\ Len(f) \in Nat
  <2>1. h \in Seq(StdinCell)
    BY <1>1
  <2> QED
    BY <2>1, ConcatProperties, LenProperties
<1>9. k = f \o MakeHeader("stdin", requestId, 0, 0)
  BY DEF h
<1> HIDE DEF k
<1>10. k # <<>>
  BY <1>1, <1>8
<1>11. StdinRecords(got \o k) /\ Only(got \o k, "in") = Only(r, "in")
  BY <1>5, <1>6, <1>7 DEF Carries
<1> QED
  BY <1>8, <1>9, <1>10, <1>11 DEF r

-----------------------------------------------------------------------------
(* The steps *)

CgiInv == PendingInv /\ RelayInv

\* The variables of the loop in AppServerReadHandler.
ReadFields ==
    {"fromAS", "header", "headerLen", "contentLen", "paddingLen", "erBody",
     "readingEndRequestBody", "exitStatus", "exitStatusSet"}

\* d differs from c in those alone.
Kept(c, d) ==
    HasFields(d, CgiFields) /\ \A f \in CgiFields \ ReadFields : d[f] = c[f]

\* The fields the invariant is about.
LEMMA KeptFields ==
    ASSUME NEW c, NEW d, Kept(c, d)
    PROVE  /\ d.wsReadPending = c.wsReadPending /\ d.fcgiReadPending = c.fcgiReadPending
           /\ d.fcgiWritePending = c.fcgiWritePending
           /\ d.fromWS = c.fromWS /\ d.next = c.next /\ d.bytesToRead = c.bytesToRead
           /\ d.webServerReadHandlerEOF = c.webServerReadHandlerEOF
           /\ d.stdin_eof_sent = c.stdin_eof_sent
BY DEF Kept, CgiFields, PendingFields, ReadFields

LEMMA SameFields ==
    ASSUME NEW c, NEW d, Same(c, d)
    PROVE  /\ d.fromWS = c.fromWS /\ d.next = c.next /\ d.bytesToRead = c.bytesToRead
           /\ d.webServerReadHandlerEOF = c.webServerReadHandlerEOF
           /\ d.stdin_eof_sent = c.stdin_eof_sent
BY DEF Same, CgiFields, PendingFields

\* A handler that ends with ScheduleIo.
LEMMA ScheduledStep ==
    ASSUME NEW b, Sound(b), Become(ScheduleIo(b))
    PROVE  PendingInv' /\ Same(b.c, cgi')
<1> DEFINE e == ScheduleIo(b)
<1>1. Sound(e) /\ Scheduled(e.c) /\ Same(b.c, e.c) /\ e.c.fcgiReadPending
  BY ScheduleIoLemma
<1>2. cgi' = e.c /\ aio' = e.a
  BY DEF Become
<1> HIDE DEF e
<1> QED
  BY <1>1, <1>2 DEF PendingInv, Sound, CgiTyped, HasFields, Marks, Scheduled

LEMMA WebServerReadStep ==
    ASSUME CgiInv, NEW n \in 0 .. Smaller(BuffLen - HeaderLen, Len(web.stdin)),
           WebServerReadHandler(n)
    PROVE  CgiInv'
<1> DEFINE ix == AIO_RD_IX(Stdin)
           f == InputRecord(web.stdin, n)
           c == [cgi EXCEPT !.wsReadPending = FALSE, !.bytesToRead = @ - n,
                            !.fromWS = f, !.webServerReadHandlerEOF = (n = 0)]
           d == IF c.bytesToRead <= 0 THEN WriteStdinEof(c) ELSE c
           a == Completed(aio, ix)
           b == [c |-> d, a |-> a]
<1>1. /\ AtEvent(ix) /\ web' = [web EXCEPT !.stdin = Drop(@, n)]
      /\ Become(ScheduleIo(b)) /\ UNCHANGED app
  BY DEF WebServerReadHandler, InputRecord
<1>2. n \in 0 .. Len(web.stdin) /\ n \in Nat
  BY CgiAssumption DEF Smaller, CgiInv, RelayInv
<1>3. Stdin \in aio.rdUse
  BY <1>1, EventLemma DEF CgiInv, PendingInv
<1>4. /\ cgi.fromWS = <<>> /\ cgi.bytesToRead > 0 /\ cgi.bytesToRead \in Int
      /\ ~ cgi.webServerReadHandlerEOF /\ ~ cgi.fcgiWritePending /\ ~ cgi.stdin_eof_sent
  BY <1>3 DEF CgiInv, PendingInv, Marks, CgiTyped
<1>5. /\ app.got \in Seq(StdinCell) /\ StdinRecords(app.got) /\ ~ HasEof(app.got)
      /\ Only(app.got, "in") \o web.stdin = web.all /\ web.stdin \in Seq(InCell)
  <2>1. app.got \o <<>> = app.got
    BY DEF CgiInv, RelayInv
  <2>2. Relayed = app.got
    BY <1>4, <2>1 DEF Relayed
  <2>3. ~ HasEof(Relayed)
    <3>1. ~ (cgi.bytesToRead <= 0)
      BY <1>4
    <3> QED
      BY <1>4, <3>1 DEF CgiInv, RelayInv
  <2>4. /\ app.got \in Seq(StdinCell) /\ web.stdin \in Seq(InCell)
        /\ StdinRecords(Relayed) /\ Only(Relayed, "in") \o web.stdin = web.all
    BY DEF CgiInv, RelayInv, StdinRelayed
  <2> HIDE DEF f
  <2> QED
    BY <2>2, <2>3, <2>4
<1>6. /\ f \in Seq(StdinCell) /\ f # <<>> /\ Drop(web.stdin, n) \in Seq(InCell)
      /\ StdinRecords(app.got \o f) /\ (HasEof(app.got \o f) => n = 0)
      /\ Only(app.got \o f, "in") \o Drop(web.stdin, n) = web.all
  <2>1. Added(f, app.got, web.stdin, n)
    BY <1>2, <1>5, InputAdded DEF f
  <2> HIDE DEF f
  <2> QED
    BY <1>5, <2>1 DEF Added
<1> HIDE DEF f
<1>7. /\ HasFields(c, CgiFields)
      /\ c.fromWS = f /\ c.bytesToRead = cgi.bytesToRead - n /\ c.wsReadPending = FALSE
      /\ c.webServerReadHandlerEOF = (n = 0)
      /\ c.fcgiReadPending = cgi.fcgiReadPending /\ c.fcgiWritePending = cgi.fcgiWritePending
      /\ c.next = cgi.next /\ c.stdin_eof_sent = cgi.stdin_eof_sent
  BY DEF CgiInv, PendingInv, CgiTyped, HasFields, CgiFields, PendingFields
<1> HIDE DEF c
<1>8. /\ HasFields(d, CgiFields)
      /\ d.wsReadPending = FALSE /\ d.bytesToRead = cgi.bytesToRead - n
      /\ d.webServerReadHandlerEOF = (n = 0)
      /\ d.fcgiReadPending = cgi.fcgiReadPending /\ d.fcgiWritePending = cgi.fcgiWritePending
      /\ d.next = cgi.next
  <2>1. CASE c.bytesToRead <= 0
    <3>1. d = [c EXCEPT !.fromWS = @ \o MakeHeader("stdin", requestId, 0, 0), !.stdin_eof_sent = TRUE]
      BY <1>4, <1>7, <2>1 DEF WriteStdinEof
    <3> QED
      BY <1>7, <3>1 DEF HasFields, CgiFields, PendingFields
  <2>2. CASE ~ (c.bytesToRead <= 0)
    BY <1>7, <2>2
  <2> QED
    BY <2>1, <2>2
<1>9. /\ d.fromWS \in Seq(StdinCell) /\ d.fromWS # <<>> /\ StdinRecords(app.got \o d.fromWS)
      /\ Only(app.got \o d.fromWS, "in") \o Drop(web.stdin, n) = web.all
      /\ HasEof(app.got \o d.fromWS) => n = 0 \/ d.bytesToRead <= 0
      /\ d.stdin_eof_sent \in BOOLEAN /\ (d.stdin_eof_sent => d.bytesToRead <= 0)
  <2>1. CASE c.bytesToRead <= 0
    <3>1. d = [c EXCEPT !.fromWS = @ \o MakeHeader("stdin", requestId, 0, 0), !.stdin_eof_sent = TRUE]
      BY <1>4, <1>7, <2>1 DEF WriteStdinEof
    <3>2. d.fromWS = f \o MakeHeader("stdin", requestId, 0, 0) /\ d.stdin_eof_sent = TRUE
      BY <1>7, <3>1 DEF HasFields, CgiFields, PendingFields
    <3>3. n # 0
      BY <1>4, <1>7, <2>1
    <3>4. /\ d.fromWS \in Seq(StdinCell) /\ d.fromWS # <<>> /\ StdinRecords(app.got \o d.fromWS)
          /\ Only(app.got \o d.fromWS, "in") = Only(app.got \o f, "in")
      BY <1>5, <1>6, <3>2, <3>3, EofAdded
    <3> QED
      BY <1>6, <1>7, <1>8, <2>1, <3>2, <3>4
  <2>2. CASE ~ (c.bytesToRead <= 0)
    <3>1. d = c
      BY <2>2
    <3>2. d.fromWS = f /\ d.stdin_eof_sent = FALSE
      BY <1>4, <1>7, <3>1 DEF CgiInv, PendingInv, CgiTyped
    <3> QED
      BY <1>6, <3>2
  <2> QED
    BY <2>1, <2>2
<1> HIDE DEF d
<1>10. HasFields(a, AioFields) /\ a.rdUse = aio.rdUse \ {Stdin} /\ a.wrUse = aio.wrUse
  BY CompletedRead DEF CgiInv, PendingInv
<1> HIDE DEF a
<1>11. CgiTyped(d)
  <2>1. (n = 0) \in BOOLEAN /\ cgi.bytesToRead - n \in Int
    BY <1>2, <1>4
  <2>2. cgi.fcgiReadPending \in BOOLEAN /\ cgi.fcgiWritePending \in BOOLEAN /\ cgi.next \in Nat
    BY DEF CgiInv, PendingInv, CgiTyped
  <2>3. d.wsReadPending = FALSE
    BY <1>8
  <2> QED
    BY <1>8, <1>9, <2>1, <2>2, <2>3 DEF CgiTyped
<1>12. Marks(d, a)
  BY <1>4, <1>8, <1>9, <1>10 DEF CgiInv, PendingInv, Marks, Stdin, Sock
<1>13. b.c = d /\ b.a = a
  OBVIOUS
<1>14. Sound(b)
  BY <1>10, <1>11, <1>12, <1>13 DEF Sound
<1> HIDE DEF b
<1>15. PendingInv' /\ Same(d, cgi')
  BY <1>1, <1>13, <1>14, ScheduledStep
<1>16. RelayInv'
  <2>1. /\ cgi'.fromWS = d.fromWS /\ cgi'.bytesToRead = d.bytesToRead
        /\ cgi'.webServerReadHandlerEOF = d.webServerReadHandlerEOF
    BY <1>15, SameFields
  <2>2. /\ HasFields(web', {"stdin", "out", "err", "all"})
        /\ web'.stdin = Drop(web.stdin, n) /\ web'.all = web.all
    BY <1>1 DEF CgiInv, RelayInv, HasFields
  <2>3. Relayed' = app.got \o d.fromWS
    BY <1>1, <2>1 DEF Relayed
  <2> QED
    BY <1>1, <1>6, <1>8, <1>9, <2>1, <2>2, <2>3 DEF CgiInv, RelayInv, StdinRelayed
<1> QED
  BY <1>15, <1>16 DEF CgiInv

Associates(s, t, u) == (s \o t) \o u = s \o (t \o u)

LEMMA AssociativeLemma ==
    ASSUME NEW C, NEW s \in Seq(C), NEW t \in Seq(C), NEW u \in Seq(C)
    PROVE  Associates(s, t, u)
BY ConcatAssociative DEF Associates

LEMMA AppServerWriteStep ==
    ASSUME CgiInv, NEW n \in 1 .. Len(cgi.fromWS), AppServerWriteHandler(n)
    PROVE  CgiInv'
<1> DEFINE ix == AIO_WR_IX(Sock)
           left == Drop(cgi.fromWS, n)
           c == [cgi EXCEPT !.fcgiWritePending = FALSE, !.fromWS = left,
                            !.next = IF n = Len(cgi.fromWS) THEN 0 ELSE @ + n]
           a == Completed(aio, ix)
           b == [c |-> c, a |-> a]
           done == SubSeq(cgi.fromWS, 1, n)
<1>1. /\ AtEvent(ix) /\ app' = [app EXCEPT !.got = @ \o done]
      /\ Become(ScheduleIo(b)) /\ UNCHANGED web
  BY DEF AppServerWriteHandler
<1>2. cgi.fromWS \in Seq(StdinCell) /\ n \in 0 .. Len(cgi.fromWS) /\ n \in Nat
  BY DEF CgiInv, PendingInv, CgiTyped
<1>3. /\ done \in Seq(StdinCell) /\ left \in Seq(StdinCell)
      /\ Len(left) = Len(cgi.fromWS) - n /\ done \o left = cgi.fromWS
  BY <1>2, CutLemma
<1>4. left = <<>> => n = Len(cgi.fromWS)
  BY <1>2, <1>3
<1>5. ~ cgi.wsReadPending
  <2>1. cgi.fromWS # <<>>
    BY <1>2
  <2> QED
    BY <2>1 DEF CgiInv, PendingInv, Marks
<1> HIDE DEF done, left
<1>6. /\ HasFields(c, CgiFields)
      /\ c.fromWS = left /\ c.fcgiWritePending = FALSE
      /\ c.next = IF n = Len(cgi.fromWS) THEN 0 ELSE cgi.next + n
      /\ c.fcgiReadPending = cgi.fcgiReadPending /\ c.wsReadPending = cgi.wsReadPending
      /\ c.bytesToRead = cgi.bytesToRead /\ c.stdin_eof_sent = cgi.stdin_eof_sent
      /\ c.webServerReadHandlerEOF = cgi.webServerReadHandlerEOF
  BY DEF CgiInv, PendingInv, CgiTyped, HasFields, CgiFields, PendingFields
<1> HIDE DEF c
<1>7. HasFields(a, AioFields) /\ a.wrUse = aio.wrUse \ {Sock} /\ a.rdUse = aio.rdUse
  BY CompletedWrite DEF CgiInv, PendingInv
<1> HIDE DEF a
<1>8. CgiTyped(c)
  <2>1. CgiTyped(cgi) /\ FALSE \in BOOLEAN
    BY DEF CgiInv, PendingInv
  <2>2. c.next \in Nat
    BY <1>2, <1>6, <2>1 DEF CgiTyped
  <2>3. c.fromWS \in Seq(StdinCell)
    BY <1>3, <1>6
  <2> QED
    BY <1>6, <2>1, <2>2, <2>3 DEF CgiTyped
<1>9. Marks(c, a)
  BY <1>4, <1>5, <1>6, <1>7 DEF CgiInv, PendingInv, Marks, Stdin, Sock
<1>10. b.c = c /\ b.a = a
  OBVIOUS
<1>11. Sound(b)
  BY <1>7, <1>8, <1>9, <1>10 DEF Sound
<1> HIDE DEF b
<1>12. PendingInv' /\ Same(c, cgi')
  BY <1>1, <1>10, <1>11, ScheduledStep
<1>13. RelayInv'
  <2>1. /\ cgi'.fromWS = left /\ cgi'.bytesToRead = cgi.bytesToRead
        /\ cgi'.webServerReadHandlerEOF = cgi.webServerReadHandlerEOF
    BY <1>6, <1>12, SameFields
  <2>2. /\ HasFields(app', {"answer", "sends", "got", "closed", "died"})
        /\ app'.got = app.got \o done
    BY <1>1 DEF CgiInv, RelayInv, HasFields
  <2>3. app.got \in Seq(StdinCell)
    BY DEF CgiInv, RelayInv
  <2>4. app'.got \in Seq(StdinCell)
    BY <1>3, <2>2, <2>3, ConcatProperties
  <2>5. (app.got \o done) \o left = app.got \o (done \o left)
    <3>1. Associates(app.got, done, left)
      BY <1>3, <2>3, AssociativeLemma
    <3> QED
      BY <3>1 DEF Associates
  <2>6. Relayed' = Relayed
    BY <1>3, <2>1, <2>2, <2>5 DEF Relayed
  <2> QED
    BY <1>1, <2>1, <2>2, <2>4, <2>6 DEF CgiInv, RelayInv, StdinRelayed
<1> QED
  BY <1>12, <1>13 DEF CgiInv

\* Steps that leave alone what is relayed to the application.
LEMMA QuietStep ==
    ASSUME CgiInv, Kept(cgi, cgi'),
           HasFields(aio', AioFields), aio'.rdUse = aio.rdUse, aio'.wrUse = aio.wrUse,
           pc' \in {"loop", "dispatch"} => pc \in {"loop", "dispatch"},
           HasFields(web', {"stdin", "out", "err", "all"}),
           web'.stdin = web.stdin, web'.all = web.all,
           HasFields(app', {"answer", "sends", "got", "closed", "died"}), app'.got = app.got
    PROVE  CgiInv'
<1>1. /\ cgi'.wsReadPending = cgi.wsReadPending /\ cgi'.fcgiReadPending = cgi.fcgiReadPending
      /\ cgi'.fcgiWritePending = cgi.fcgiWritePending
      /\ cgi'.fromWS = cgi.fromWS /\ cgi'.next = cgi.next
      /\ cgi'.bytesToRead = cgi.bytesToRead
      /\ cgi'.webServerReadHandlerEOF = cgi.webServerReadHandlerEOF
      /\ cgi'.stdin_eof_sent = cgi.stdin_eof_sent
  BY KeptFields
<1>2. CgiTyped(cgi)'
  BY <1>1 DEF CgiInv, PendingInv, CgiTyped, Kept, HasFields
<1>3. Marks(cgi, aio)' /\ Scheduled(cgi)'
  BY <1>1 DEF CgiInv, PendingInv, Marks, Scheduled
<1>4. HasFields(aio, AioFields)'
  BY DEF HasFields
<1>5. PendingInv'
  BY <1>1, <1>2, <1>3, <1>4 DEF CgiInv, PendingInv
<1>6. Relayed' = Relayed
  BY <1>1 DEF Relayed
<1>7. RelayInv'
  BY <1>1, <1>6 DEF CgiInv, RelayInv, StdinRelayed, HasFields
<1> QED
  BY <1>5, <1>7 DEF CgiInv

\* Nothing but the place in the program, or the application's side.
LEMMA UnchangedKept ==
    ASSUME CgiInv
    PROVE  Kept(cgi, cgi) /\ HasFields(aio, AioFields)
BY DEF CgiInv, PendingInv, CgiTyped, Kept

LEMMA EndOfContentKept ==
    ASSUME NEW c, HasFields(c, CgiFields)
    PROVE  Kept(c, EndOfContent(c))
BY DEF EndOfContent, Kept, HasFields, CgiFields, PendingFields, ReadFields

LEMMA KeptTransitive ==
    ASSUME NEW c, NEW d, NEW e, Kept(c, d), Kept(d, e)
    PROVE  Kept(c, e)
BY DEF Kept

\* The iterations of AppServerReadHandler.
LEMMA ReadStep ==
    ASSUME CgiInv, ReadHeader \/ ReadOutput \/ ReadEndRequest \/ ReadOther
    PROVE  CgiInv'
<1>0. HasFields(cgi, CgiFields) /\ Kept(cgi, cgi) /\ HasFields(aio, AioFields)
  BY UnchangedKept DEF CgiInv, PendingInv, CgiTyped
<1>1. UNCHANGED <<aio, app>> /\ (pc' = pc \/ pc' = "exited")
  BY DEF ReadHeader, ReadOutput, ReadEndRequest, ReadOther, Exit
<1>2. /\ HasFields(web', {"stdin", "out", "err", "all"})
      /\ web'.stdin = web.stdin /\ web'.all = web.all
  <2>1. CASE ReadOutput
    BY <2>1 DEF ReadOutput, CgiInv, RelayInv, HasFields
  <2>2. CASE ReadHeader \/ ReadEndRequest \/ ReadOther
    <3>1. web' = web
      BY <2>2 DEF ReadHeader, ReadEndRequest, ReadOther
    <3> QED
      BY <3>1 DEF CgiInv, RelayInv
  <2> QED
    BY <2>1, <2>2
<1>3. Kept(cgi, cgi')
  <2>1. CASE cgi' = cgi
    BY <1>0, <2>1
  <2>2. CASE ReadHeader /\ cgi' # cgi
    <3> DEFINE n == GetPtr(HeaderLen - cgi.headerLen)
               h == IF cgi.headerLen = 0 THEN Overlay(cgi.header, n) ELSE cgi.header
               c == [cgi EXCEPT !.header = h, !.headerLen = @ + n, !.fromAS = Drop(@, n)]
    <3>1. \/ cgi' = c
          \/ cgi' = [c EXCEPT !.contentLen = h[4][5], !.paddingLen = h[4][6]]
      BY <2>2 DEF ReadHeader, Exit
    <3> HIDE DEF n, h
    <3>2. Kept(cgi, c)
      BY <1>0 DEF Kept, HasFields, CgiFields, PendingFields, ReadFields
    <3> HIDE DEF c
    <3>3. Kept(cgi, [c EXCEPT !.contentLen = h[4][5], !.paddingLen = h[4][6]])
      BY <3>2 DEF Kept, HasFields, CgiFields, PendingFields, ReadFields
    <3> QED
      BY <3>1, <3>2, <3>3
  <2>3. CASE ReadOutput
    <3> DEFINE n == GetPtr(cgi.contentLen)
               c == [cgi EXCEPT !.contentLen = @ - n, !.fromAS = Drop(@, n)]
    <3>1. cgi' = EndOfContent(c)
      BY <2>3 DEF ReadOutput
    <3> HIDE DEF n
    <3>2. Kept(cgi, c)
      BY <1>0 DEF Kept, HasFields, CgiFields, PendingFields, ReadFields
    <3> HIDE DEF c
    <3>3. Kept(c, EndOfContent(c))
      BY <3>2, EndOfContentKept DEF Kept
    <3> QED
      BY <3>1, <3>2, <3>3, KeptTransitive
  <2>4. CASE ReadEndRequest /\ cgi' # cgi
    <3> DEFINE n == GetPtr(cgi.contentLen)
               body == IF cgi.contentLen = BodyLen THEN Overlay(cgi.erBody, n) ELSE cgi.erBody
               status == 256 * body[1][3] + body[2][3]
               c == [cgi EXCEPT !.erBody = body, !.contentLen = @ - n, !.fromAS = Drop(@, n)]
               d == [c EXCEPT !.readingEndRequestBody = FALSE, !.exitStatusSet = TRUE,
                              !.exitStatus = status]
    <3>1. \/ cgi' = [c EXCEPT !.readingEndRequestBody = TRUE]
          \/ cgi' = EndOfContent(d)
      BY <2>4 DEF ReadEndRequest, Exit
    <3> HIDE DEF n, body, status
    <3>2. Kept(cgi, c)
      BY <1>0 DEF Kept, HasFields, CgiFields, PendingFields, ReadFields
    <3> HIDE DEF c
    <3>3. Kept(cgi, [c EXCEPT !.readingEndRequestBody = TRUE])
      BY <3>2 DEF Kept, HasFields, CgiFields, PendingFields, ReadFields
    <3>4. Kept(cgi, d)
      BY <3>2 DEF Kept, HasFields, CgiFields, PendingFields, ReadFields
    <3> HIDE DEF d
    <3>5. Kept(d, EndOfContent(d))
      BY <3>4, EndOfContentKept DEF Kept
    <3> QED
      BY <3>1, <3>3, <3>4, <3>5, KeptTransitive
  <2>5. CASE ReadOther
    BY <2>1, <2>5 DEF ReadOther, Exit
  <2> QED
    BY <2>1, <2>2, <2>3, <2>4, <2>5
<1>4. HasFields(app', {"answer", "sends", "got", "closed", "died"}) /\ app'.got = app.got
  BY <1>1 DEF CgiInv, RelayInv
<1> QED
  BY <1>0, <1>1, <1>2, <1>3, <1>4, QuietStep

\* AppServerReadHandler is called: the operation is done.
LEMMA AppServerReadStep ==
    ASSUME CgiInv, NEW n, AppServerReadHandler(n)
    PROVE  CgiInv'
<1> DEFINE c == [cgi EXCEPT !.fcgiReadPending = FALSE, !.fromAS = SubSeq(app.sends, 1, n)]
           a == Completed(aio, AIO_RD_IX(Sock))
<1>1. /\ cgi' = c /\ aio' = a /\ pc' = "read" /\ web' = web
      /\ app' = [app EXCEPT !.sends = Drop(@, n)]
  BY DEF AppServerReadHandler
<1>2. HasFields(a, AioFields) /\ a.rdUse = aio.rdUse \ {Sock} /\ a.wrUse = aio.wrUse
  BY CompletedRead DEF CgiInv, PendingInv
<1>3. /\ HasFields(c, CgiFields) /\ c.fcgiReadPending = FALSE
      /\ c.wsReadPending = cgi.wsReadPending /\ c.fcgiWritePending = cgi.fcgiWritePending
      /\ c.fromWS = cgi.fromWS /\ c.next = cgi.next /\ c.bytesToRead = cgi.bytesToRead
      /\ c.webServerReadHandlerEOF = cgi.webServerReadHandlerEOF
      /\ c.stdin_eof_sent = cgi.stdin_eof_sent
  BY DEF CgiInv, PendingInv, CgiTyped, HasFields, CgiFields, PendingFields
<1> HIDE DEF a, c
<1>4. CgiTyped(c) /\ Marks(c, a) /\ Scheduled(c)
  <2>1. CgiTyped(c) /\ Scheduled(c)
    BY <1>3 DEF CgiInv, PendingInv, CgiTyped, Scheduled
  <2>2. Marks(c, a)
    BY <1>2, <1>3 DEF CgiInv, PendingInv, Marks, Stdin, Sock
  <2> QED
    BY <2>1, <2>2
<1>5. PendingInv'
  BY <1>1, <1>2, <1>4 DEF PendingInv, CgiTyped, HasFields, Marks, Scheduled
<1>6. /\ HasFields(app', {"answer", "sends", "got", "closed", "died"})
      /\ app'.got = app.got
  BY <1>1 DEF CgiInv, RelayInv, HasFields
<1>7. Relayed' = Relayed
  BY <1>1, <1>3, <1>6 DEF Relayed
<1>8. RelayInv'
  BY <1>1, <1>3, <1>6, <1>7 DEF CgiInv, RelayInv, StdinRelayed, HasFields
<1> QED
  BY <1>5, <1>8 DEF CgiInv

LEMMA AppServerReadReturns ==
    ASSUME CgiInv, AppServerReadHandlerReturns
    PROVE  CgiInv'
<1> DEFINE b == [c |-> cgi, a |-> aio]
<1>1. b.c = cgi /\ b.a = aio
  OBVIOUS
<1>2. Become(ScheduleIo(b)) /\ UNCHANGED <<web, app>>
  BY DEF AppServerReadHandlerReturns
<1> HIDE DEF b
<1>3. Sound(b)
  BY <1>1 DEF Sound, CgiInv, PendingInv
<1>4. PendingInv' /\ Same(cgi, cgi')
  BY <1>1, <1>2, <1>3, ScheduledStep
<1>5. /\ cgi'.fromWS = cgi.fromWS /\ cgi'.bytesToRead = cgi.bytesToRead
      /\ cgi'.webServerReadHandlerEOF = cgi.webServerReadHandlerEOF
  BY <1>4, SameFields
<1>6. Relayed' = Relayed
  BY <1>2, <1>5 DEF Relayed
<1>7. RelayInv'
  BY <1>2, <1>5, <1>6 DEF CgiInv, RelayInv, StdinRelayed
<1> QED
  BY <1>4, <1>7 DEF CgiInv

\* Waiting, returning and exiting, and what the application does by itself.
LEMMA OtherStep ==
    ASSUME CgiInv,
           \/ \E R \in SUBSET {Stdin, Sock}, W \in SUBSET {Sock} : Select(R, W)
           \/ WriteFails \/ AppServerEof \/ DoIoReturns \/ MainReturns
           \/ AppCloses \/ AppDies \/ Failure
           \/ UNCHANGED vars
    PROVE  CgiInv'
<1>1. cgi' = cgi /\ web' = web
  BY DEF Select, WriteFails, AppServerEof, DoIoReturns, MainReturns, AppCloses, AppDies,
         Failure, SelectFails, StdinFails, ConnectionFails, OutputFails, Exit, vars
<1>2. pc' \in {"loop", "dispatch"} => pc \in {"loop", "dispatch"}
  BY DEF Select, WriteFails, AppServerEof, DoIoReturns, MainReturns, AppCloses, AppDies,
         Failure, SelectFails, StdinFails, ConnectionFails, OutputFails, Exit, vars
<1>3. HasFields(aio', AioFields) /\ aio'.rdUse = aio.rdUse /\ aio'.wrUse = aio.wrUse
  <2>1. CASE aio' = aio
    BY <2>1 DEF CgiInv, PendingInv
  <2>2. ASSUME NEW R, NEW W, Select(R, W)
        PROVE  HasFields(aio', AioFields) /\ aio'.rdUse = aio.rdUse /\ aio'.wrUse = aio.wrUse
    <3>1. aio' = Posted(aio, SelectReads(aio, R), SelectWrites(aio, W))
      BY <2>2 DEF Select
    <3> QED
      BY <3>1, PostedLemma DEF CgiInv, PendingInv
  <2> QED
    BY <2>1, <2>2 DEF WriteFails, AppServerEof, DoIoReturns, MainReturns, AppCloses, AppDies,
         Failure, SelectFails, StdinFails, ConnectionFails, OutputFails, Exit, vars
<1>4. HasFields(app', {"answer", "sends", "got", "closed", "died"}) /\ app'.got = app.got
  <2>1. CASE app' = app
    BY <2>1 DEF CgiInv, RelayInv
  <2>2. CASE AppCloses
    BY <2>2 DEF AppCloses, CgiInv, RelayInv, HasFields
  <2>3. CASE AppDies
    <3>1. PICK n : app' = [app EXCEPT !.sends = SubSeq(@, 1, n), !.closed = TRUE, !.died = TRUE]
      BY <2>3 DEF AppDies
    <3> QED
      BY <3>1 DEF CgiInv, RelayInv, HasFields
  <2> QED
    BY <2>1, <2>2, <2>3 DEF Select, WriteFails, AppServerEof, DoIoReturns, MainReturns,
         Failure, SelectFails, StdinFails, ConnectionFails, OutputFails, Exit, vars
<1>5. Kept(cgi, cgi')
  BY <1>1, UnchangedKept
<1>6. HasFields(web', {"stdin", "out", "err", "all"})
  BY <1>1 DEF CgiInv, RelayInv
<1> QED
  BY <1>1, <1>2, <1>3, <1>4, <1>5, <1>6, QuietStep

LEMMA CgiNext == CgiInv /\ [Next]_vars => CgiInv'
<1> SUFFICES ASSUME CgiInv, [Next]_vars PROVE CgiInv'
  OBVIOUS
<1> QED
  BY WebServerReadStep, AppServerWriteStep, ReadStep, AppServerReadStep, AppServerReadReturns,
     OtherStep DEF Next, Loop

\* main enters the loop.
LEMMA CgiInit == Init => CgiInv
<1> SUFFICES ASSUME Init PROVE CgiInv
  OBVIOUS
<1>1. PICK length \in Lengths :
        LET c == Started(length)
            b == ScheduleIo([c |-> IF length <= 0 THEN WriteStdinEof(c) ELSE c, a |-> OS_LibInit])
        IN  cgi = b.c /\ aio = b.a
  BY DEF Init
<1>2. length \in Nat
  BY CgiAssumption
<1> DEFINE none == <<>>
           s == Started(length)
           c == IF length <= 0 THEN WriteStdinEof(s) ELSE s
           a == OS_LibInit
           b == [c |-> c, a |-> a]
           e == ScheduleIo(b)
<1>3. cgi = e.c /\ aio = e.a
  BY <1>1
<1>4. /\ HasFields(s, CgiFields)
      /\ s.bytesToRead = length /\ s.fromWS = none /\ s.next = 0
      /\ s.webServerReadHandlerEOF = FALSE /\ s.stdin_eof_sent = FALSE
      /\ s.wsReadPending = FALSE /\ s.fcgiReadPending = FALSE /\ s.fcgiWritePending = FALSE
  BY DEF Started, HasFields, CgiFields, PendingFields
<1>5. none \in Seq(StdinCell) /\ none \in Seq(InCell) /\ none \o none = none
  OBVIOUS
<1> HIDE DEF s
<1>6. /\ HasFields(c, CgiFields)
      /\ c.bytesToRead = length /\ c.next = 0
      /\ c.webServerReadHandlerEOF = FALSE
      /\ c.wsReadPending = FALSE /\ c.fcgiReadPending = FALSE /\ c.fcgiWritePending = FALSE
  BY <1>4 DEF WriteStdinEof, HasFields, CgiFields, PendingFields
<1>7. StdinRecords(none) /\ ~ HasEof(none)
  <2>1. Starts(none) = {}
    BY DEF Starts
  <2> QED
    BY <2>1 DEF StdinRecords, HasEof
<1>8. /\ c.fromWS \in Seq(StdinCell) /\ StdinRecords(none \o c.fromWS)
      /\ Only(none \o c.fromWS, "in") = none
      /\ HasEof(none \o c.fromWS) => c.bytesToRead <= 0
      /\ c.stdin_eof_sent \in BOOLEAN /\ (c.stdin_eof_sent => c.bytesToRead <= 0)
  <2>1. CASE length <= 0
    <3>1. c = [s EXCEPT !.fromWS = @ \o MakeHeader("stdin", requestId, 0, 0), !.stdin_eof_sent = TRUE]
      BY <1>4, <2>1 DEF WriteStdinEof
    <3>2. /\ c.fromWS = none \o MakeHeader("stdin", requestId, 0, 0)
          /\ c.stdin_eof_sent = TRUE
      <4> DEFINE x == s.fromWS \o MakeHeader("stdin", requestId, 0, 0)
      <4>1. c = [s EXCEPT !.fromWS = x, !.stdin_eof_sent = TRUE]
        BY <3>1
      <4>2. x = none \o MakeHeader("stdin", requestId, 0, 0)
        BY <1>4
      <4> HIDE DEF x, c, none
      <4>3. c.fromWS = x /\ c.stdin_eof_sent = TRUE
        BY <1>4, <4>1 DEF HasFields, CgiFields, PendingFields
      <4> QED
        BY <4>2, <4>3
    <3> HIDE DEF none, c
    <3>3. /\ c.fromWS \in Seq(StdinCell) /\ StdinRecords(none \o c.fromWS)
          /\ Only(none \o c.fromWS, "in") = Only(none \o none, "in")
      BY <1>5, <1>7, <3>2, EofAdded
    <3>4. Only(none \o none, "in") = none
      BY <1>5, OnlyEmpty DEF none
    <3> QED
      BY <1>2, <1>6, <2>1, <3>2, <3>3, <3>4
  <2>2. CASE ~ (length <= 0)
    <3>1. c = s
      BY <2>2
    <3>2. c.fromWS = none /\ c.stdin_eof_sent = FALSE
      BY <1>4, <3>1
    <3> HIDE DEF none, c
    <3> QED
      BY <1>5, <1>7, <3>2, OnlyEmpty DEF none
  <2> QED
    BY <2>1, <2>2
<1> HIDE DEF c
<1>9. HasFields(a, AioFields) /\ a.rdUse = {} /\ a.wrUse = {}
  BY DEF OS_LibInit, HasFields, AioFields
<1> HIDE DEF a
<1>10. CgiTyped(c) /\ Marks(c, a)
  <2>1. CgiTyped(c)
    <3>1. FALSE \in BOOLEAN /\ length \in Int /\ 0 \in Nat
      BY <1>2
    <3>2. c.fromWS \in Seq(StdinCell) /\ c.stdin_eof_sent \in BOOLEAN
      BY <1>8
    <3> QED
      BY <1>6, <3>1, <3>2 DEF CgiTyped
  <2>2. Marks(c, a)
    BY <1>6, <1>8, <1>9 DEF Marks
  <2> QED
    BY <2>1, <2>2
<1>11. b.c = c /\ b.a = a
  OBVIOUS
<1>12. Sound(b)
  BY <1>9, <1>10, <1>11 DEF Sound
<1> HIDE DEF b
<1>13. Sound(e) /\ Scheduled(e.c) /\ Same(c, e.c) /\ e.c.fcgiReadPending
  BY <1>11, <1>12, ScheduleIoLemma
<1> HIDE DEF e
<1>14. PendingInv
  BY <1>3, <1>13 DEF PendingInv, Sound
<1>15. PICK in \in Inputs : web = [stdin |-> in, out |-> <<>>, err |-> <<>>, all |-> in]
  BY DEF Init
<1>16. in \in Seq(InCell)
  <2>1. PICK n \in StdinLens : in = [i \in 1 .. n |-> <<"in", i>>]
    BY DEF Inputs
  <2>2. n \in Nat
    BY CgiAssumption
  <2>3. in \in [1 .. n -> InCell]
    BY <2>1, <2>2 DEF InCell
  <2> QED
    BY <2>2, <2>3, FunctionIsSeq
<1>17. /\ HasFields(web, {"stdin", "out", "err", "all"})
       /\ web.stdin = in /\ web.all = in
  BY <1>15 DEF HasFields
<1>18. HasFields(app, {"answer", "sends", "got", "closed", "died"}) /\ app.got = none
  BY DEF Init, HasFields
<1>19. cgi.fromWS = c.fromWS /\ cgi.bytesToRead = c.bytesToRead
  BY <1>3, <1>13, SameFields
<1>20. Relayed = none \o c.fromWS
  BY <1>18, <1>19 DEF Relayed
<1>21. none \o in = in
  BY <1>16
<1> HIDE DEF none
<1>22. RelayInv
  BY <1>5, <1>8, <1>16, <1>17, <1>18, <1>19, <1>20, <1>21 DEF RelayInv, StdinRelayed
<1> QED
  BY <1>14, <1>22 DEF CgiInv

\* The invariant holds whatever the constants.
LEMMA CgiInvariant == Spec => []CgiInv
<1>1. CgiInv /\ [Next]_vars => CgiInv'
  BY CgiNext
<1> QED
  BY <1>1, CgiInit, PTL DEF Spec

(***************************************************************************)
(* The asserts of WebServerReadHandler, AppServerWriteHandler and OS_Async *)
(* hold: the three marks of ScheduleIo are the table of the asynchronous   *)
(* I/O, and the one buffer is never read into while it is written, for any *)
(* CONTENT_LENGTH, any input and any application, also one that sends      *)
(* records cut anywhere, answers early, or dies.                           *)
(***************************************************************************)
THEOREM PendingAlwaysMatches == Spec => []PendingMatchesTable
<1>1. CgiInv => PendingMatchesTable
  <2> SUFFICES ASSUME CgiInv, pc \in {"loop", "dispatch"}
               PROVE  /\ cgi.fcgiReadPending /\ aio.rdUse \ {Stdin} = {Sock}
                      /\ (cgi.wsReadPending <=> Stdin \in aio.rdUse)
                      /\ (cgi.fcgiWritePending <=> Sock \in aio.wrUse)
                      /\ (cgi.fcgiWritePending <=> cgi.fromWS # <<>>)
                      /\ (cgi.wsReadPending => cgi.fromWS = <<>> /\ cgi.next = 0)
    BY DEF PendingMatchesTable
  <2>1. Marks(cgi, aio) /\ Scheduled(cgi) /\ cgi.fcgiReadPending
    BY DEF CgiInv, PendingInv
  <2> QED
    BY <2>1 DEF Marks, Scheduled, Stdin, Sock
<1> QED
  BY <1>1, CgiInvariant, PTL

(***************************************************************************)
(* Stdin reaches the application whole, once, in order and in well formed  *)
(* records, and is ended at most once, however reads and writes are cut    *)
(* and whatever the Web server sends for the CONTENT_LENGTH it announced.  *)
(***************************************************************************)
THEOREM StdinAlwaysRelayed == Spec => []StdinRelayed
<1>1. CgiInv => StdinRelayed
  BY DEF CgiInv, RelayInv
<1> QED
  BY <1>1, CgiInvariant, PTL

-----------------------------------------------------------------------------
(* The cells of a position in a sequence, and the records of an answer *)

\* cells of s behind p, n of them, all or none of the kind.
LEMMA OnlyAdvance ==
    ASSUME NEW C, NEW s \in Seq(C), NEW kind, NEW p \in Nat, NEW n \in Nat, p + n <= Len(s)
    PROVE  /\ (\A j \in p + 1 .. p + n : Is(s[j], kind)) =>
                Only(SubSeq(s, 1, p + n), kind)
                  = Only(SubSeq(s, 1, p), kind) \o SubSeq(s, p + 1, p + n)
           /\ (\A j \in p + 1 .. p + n : ~ Is(s[j], kind)) =>
                Only(SubSeq(s, 1, p + n), kind) = Only(SubSeq(s, 1, p), kind)
<1> DEFINE u == SubSeq(s, 1, p)
           v == SubSeq(s, p + 1, p + n)
           w == SubSeq(s, 1, p + n)
           D == {v[j] : j \in 1 .. n}
<1>1. u \in Seq(C) /\ v \in Seq(C) /\ w \in Seq(C) /\ Len(v) = n
  OBVIOUS
<1>2. w = u \o v
  <2>1. Len(s) \in Nat
    OBVIOUS
  <2>2. 1 \in 1 .. Len(s) + 1 /\ p \in 1 - 1 .. Len(s) /\ p + n \in p .. Len(s)
    BY <2>1
  <2> QED
    BY <2>2, ConcatAdjacentSubSeq
<1>3. \A j \in 1 .. n : v[j] = s[p + j]
  OBVIOUS
<1>4. Only(u, kind) \in Seq(C)
  BY <1>1, OnlyTyped
<1> HIDE DEF u, v, w
<1>5. Only(w, kind) = Only(u, kind) \o Only(v, kind)
  BY <1>1, <1>2, OnlyConcat
<1>6. v \in Seq(D)
  <2>1. v \in [1 .. n -> D]
    BY <1>1
  <2> QED
    BY <2>1, FunctionIsSeq
<1>7. \A j \in 1 .. n : p + j \in p + 1 .. p + n
  OBVIOUS
<1>8. ASSUME \A j \in p + 1 .. p + n : Is(s[j], kind)
      PROVE  Only(v, kind) = v
  <2>1. \A c \in D : Is(c, kind)
    BY <1>3, <1>7, <1>8
  <2> HIDE DEF D
  <2> QED
    BY <1>6, <2>1, OnlyUniform
<1>9. ASSUME \A j \in p + 1 .. p + n : ~ Is(s[j], kind)
      PROVE  Only(v, kind) = <<>>
  <2>1. \A c \in D : ~ Is(c, kind)
    BY <1>3, <1>7, <1>9
  <2> HIDE DEF D
  <2> QED
    BY <1>6, <2>1, OnlyUniform
<1>10. Only(u, kind) \o <<>> = Only(u, kind)
  BY <1>4
<1> QED
  BY <1>5, <1>8, <1>9, <1>10 DEF u, v, w

\* The n cells behind p are added to those of the kind.
Taken(s, p, n, kind) ==
    Only(SubSeq(s, 1, p + n), kind) = Only(SubSeq(s, 1, p), kind) \o SubSeq(s, p + 1, p + n)

LEMMA OnlyTakes ==
    ASSUME NEW C, NEW s \in Seq(C), NEW kind, NEW p \in Nat, NEW n \in Nat, p + n <= Len(s),
           \A j \in p + 1 .. p + n : Is(s[j], kind)
    PROVE  Taken(s, p, n, kind)
BY OnlyAdvance DEF Taken

LEMMA OnlySkips ==
    ASSUME NEW C, NEW s \in Seq(C), NEW kind, NEW p \in Nat, NEW n \in Nat, p + n <= Len(s),
           \A j \in p + 1 .. p + n : ~ Is(s[j], kind)
    PROVE  Only(SubSeq(s, 1, p + n), kind) = Only(SubSeq(s, 1, p), kind)
BY OnlyAdvance

\* The cells of the record of s at i.
Record(s, i) ==
    /\ i \in 1 .. Len(s) /\ s[i][5] \in Nat /\ s[i][6] \in Nat /\ s[i][3] \in AnswerTypes
    /\ PadFrom(s, i) = i + 4 + s[i][5] /\ NextFrom(s, i) = i + 4 + s[i][5] + s[i][6]
    /\ NextFrom(s, i) <= Len(s) + 1
    /\ NextFrom(s, i) = Len(s) + 1 \/ NextFrom(s, i) \in Starts(s)
    /\ \A k \in 1 .. 4 : s[i + k - 1] = <<"hdr", k, s[i][3], s[i][4], s[i][5], s[i][6]>>
    /\ \A j \in i .. i + 3 : s[j][1] = "hdr" /\ s[j][3] = s[i][3] /\ s[j][4] = s[i][4]
    /\ \A j \in i + 4 .. PadFrom(s, i) - 1 : s[j][1] = ContentOf(s[i][3])
    /\ \A j \in PadFrom(s, i) .. NextFrom(s, i) - 1 : s[j][1] = "pad"
    /\ s[i][3] = "end" => /\ s[i][5] = 3 /\ NextFrom(s, i) = Len(s) + 1
                          /\ \A k \in 1 .. 3 : s[i + 3 + k][2] = k

\* A well-formed answer has such a record wherever a header starts.
LEMMA RecordLemma ==
    ASSUME NEW s, WellFormed(s), NEW i \in Starts(s)
    PROVE  Record(s, i)
<1>1. HeaderLen = 4 /\ BodyLen = 3
  BY CgiAssumption
<1>2. i \in 1 .. Len(s) /\ s[i][1] = "hdr" /\ s[i] \in AnswerCell
  BY DEF Starts, Is, WellFormed
<1>3. s[i] \in {"hdr"} \X (1 .. HeaderLen) \X AnswerTypes \X Nat \X Nat \X Nat
  BY <1>2 DEF AnswerCell
<1>4. s[i][5] \in Nat /\ s[i][6] \in Nat /\ s[i][3] \in AnswerTypes
  BY <1>3
<1>5. PadFrom(s, i) = i + 4 + s[i][5] /\ NextFrom(s, i) = i + 4 + s[i][5] + s[i][6]
  BY <1>1, <1>2, <1>4 DEF PadFrom, NextFrom
<1>6. Len(s) \in Nat
  BY DEF WellFormed
<1>7. NextFrom(s, i) = Len(s) + 1 \/ NextFrom(s, i) \in Starts(s)
  BY DEF WellFormed
<1>8. NextFrom(s, i) <= Len(s) + 1
  BY <1>6, <1>7 DEF Starts
<1>9. \A k \in 1 .. 4 : s[i + k - 1] = <<"hdr", k, s[i][3], s[i][4], s[i][5], s[i][6]>>
  BY <1>1 DEF WellFormed, MakeHeader
<1>10. \A j \in i .. i + 3 : s[j][1] = "hdr" /\ s[j][3] = s[i][3] /\ s[j][4] = s[i][4]
  <2> SUFFICES ASSUME NEW j \in i .. i + 3
               PROVE  s[j][1] = "hdr" /\ s[j][3] = s[i][3] /\ s[j][4] = s[i][4]
    OBVIOUS
  <2>1. PICK k \in 1 .. 4 : j = i + k - 1
    <3>1. j - i + 1 \in 1 .. 4 /\ j = i + (j - i + 1) - 1
      BY <1>2
    <3> QED
      BY <3>1
  <2> QED
    BY <1>9, <2>1
<1>11. \A j \in i + 4 .. PadFrom(s, i) - 1 : s[j][1] = ContentOf(s[i][3])
  BY <1>1 DEF WellFormed, Is
<1>12. \A j \in PadFrom(s, i) .. NextFrom(s, i) - 1 : s[j][1] = "pad"
  BY DEF WellFormed, Is
<1>13. ASSUME s[i][3] = "end"
       PROVE  /\ s[i][5] = 3 /\ NextFrom(s, i) = Len(s) + 1
              /\ \A k \in 1 .. 3 : s[i + 3 + k][2] = k
  <2>1. \A k \in 1 .. 3 : s[i + 4 + k - 1][2] = k
    BY <1>1, <1>13 DEF WellFormed
  <2>2. \A k \in 1 .. 3 : i + 4 + k - 1 = i + 3 + k
    BY <1>2
  <2> QED
    BY <1>1, <1>13, <2>1, <2>2 DEF WellFormed
<1> QED
  BY <1>2, <1>4, <1>5, <1>7, <1>8, <1>9, <1>10, <1>11, <1>12, <1>13 DEF Record

-----------------------------------------------------------------------------
(* The answer *)

\* What the application may send, except for records of which a read gets a
\* part of the header or of the body.
GoodAnswers == ~ CutRecords /\ \A s \in Answers : WellFormed(s)

\* The first p cells of the answer have been parsed, the others are in fromAS
\* or still to be read, or were lost when the application died.
Parsed(p) ==
    LET a == app.answer
        here == Len(cgi.fromAS)
    IN  /\ p \in Nat /\ p + here + Len(app.sends) <= Len(a)
        /\ ~ app.died => p + here + Len(app.sends) = Len(a)
        /\ \A j \in 1 .. here : cgi.fromAS[j] = a[p + j]
        /\ \A j \in 1 .. Len(app.sends) : app.sends[j] = a[p + here + j]
        /\ web.out = Only(SubSeq(a, 1, p), "out")
        /\ web.err = Only(SubSeq(a, 1, p), "err")

NothingLeft == cgi.fromAS = <<>> /\ app.sends = <<>>

\* The header of the record at i is being read.  It is read at once, unless
\* the application died inside it.
InHeader(i, p) ==
    /\ cgi.headerLen \in 0 .. 3 /\ p = i - 1 + cgi.headerLen
    /\ i \in Starts(app.answer) \/ i = Len(app.answer) + 1
    /\ cgi.headerLen > 0 => NothingLeft
    /\ ~ cgi.readingEndRequestBody

\* What is left of its content and padding is being read.
InBody(i, p) ==
    LET a == app.answer
    IN  /\ cgi.headerLen = 4 /\ i \in Starts(a)
        /\ \A k \in 1 .. 4 : cgi.header[k] = a[i + k - 1]
        /\ a[i][4] = requestId
        /\ cgi.contentLen \in 0 .. a[i][5] /\ cgi.paddingLen \in 0 .. a[i][6]
        /\ p = NextFrom(a, i) - 1 - cgi.contentLen - cgi.paddingLen
        /\ cgi.contentLen > 0 => cgi.paddingLen = a[i][6]
        /\ IF a[i][3] = "end"
             THEN \/ cgi.contentLen = 3 /\ ~ cgi.readingEndRequestBody
                  \/ cgi.contentLen > 0 /\ NothingLeft
             ELSE ~ cgi.readingEndRequestBody

\* The records before the one at i are such as the program accepts, and none
\* of them ended the request.
Accepted(a, i) ==
    /\ \A j \in 1 .. i - 1 : a[j][1] = "hdr" => a[j][3] # "other" /\ a[j][4] = requestId
    /\ Only(SubSeq(a, 1, i - 1), "body") = <<>>

\* The place of cell p in the records.
Parsing(p) == \E i \in Nat \ {0} : Accepted(app.answer, i) /\ (InHeader(i, p) \/ InBody(i, p))

\* What a status says.
Told ==
    /\ AppCompletes /\ cgi.exitStatus = AppStatus
    /\ web.out = Only(app.answer, "out") /\ web.err = Only(app.answer, "err")

\* Why the program exited.
Reasons ==
    pc = "exited" =>
      /\ code[1] = "status" => cgi.exitStatusSet /\ code[2] = cgi.exitStatus
      /\ AppCompletes /\ ~ app.died /\ ~ IgnoresInput =>
           code \in LocalFailures \cup {<<"status", AppStatus>>}

\* Where the loop of OS_DoIo is while the answer is read: nothing is read from
\* the application between a status and the exit.
Placed ==
    /\ from \in Nat
    /\ pc \in {"loop", "dispatch"} => cgi.fromAS = <<>>
    /\ pc = "read" => from > AIO_RD_IX(Sock)
    /\ pc = "dispatch" /\ cgi.exitStatusSet => from > AIO_RD_IX(Sock)

\* The types of what the parser works on.
AnswerTyped ==
    /\ app.answer \in Answers
    /\ cgi.fromAS \in Seq(AnswerCell) /\ app.sends \in Seq(AnswerCell) /\ Whole(app.sends)
    /\ Len(cgi.header) = 4 /\ Len(cgi.erBody) = 3

\* The inductive invariant: some position p in the answer explains the buffers,
\* the output and, until a status is set, the state of the parser.
AnswerInv ==
    /\ AnswerTyped
    /\ \E p \in Nat : Parsed(p) /\ (pc # "exited" /\ ~ cgi.exitStatusSet => Parsing(p))
    /\ cgi.exitStatusSet => Told /\ cgi.fromAS = <<>>
    /\ Placed
    /\ ~ IgnoresInput /\ app.closed /\ ~ app.died => AppGotEof
    /\ Reasons

\* The fields of the loop in AppServerReadHandler.
SameRead(c, d) == \A f \in ReadFields : d[f] = c[f]

\* The fields that are the same.
LEMMA SameReadFields ==
    ASSUME NEW c, NEW d, SameRead(c, d)
    PROVE  /\ d.fromAS = c.fromAS /\ d.header = c.header /\ d.headerLen = c.headerLen
           /\ d.contentLen = c.contentLen /\ d.paddingLen = c.paddingLen
           /\ d.erBody = c.erBody /\ d.readingEndRequestBody = c.readingEndRequestBody
           /\ d.exitStatus = c.exitStatus /\ d.exitStatusSet = c.exitStatusSet
BY DEF SameRead, ReadFields

\* ScheduleIo leaves them alone.
LEMMA ScheduleReads ==
    ASSUME NEW b, HasFields(b.c, CgiFields)
    PROVE  SameRead(b.c, ScheduleIo(b).c)
<1> DEFINE x == ScheduleWrite(b)
           y == ScheduleRead(x)
           z == ScheduleStdin(y)
<1>1. SameRead(b.c, x.c) /\ HasFields(x.c, CgiFields)
  BY DEF ScheduleWrite, SameRead, ReadFields, HasFields, CgiFields, PendingFields
<1> HIDE DEF x
<1>2. SameRead(x.c, y.c) /\ HasFields(y.c, CgiFields)
  BY <1>1 DEF ScheduleRead, SameRead, ReadFields, HasFields, CgiFields, PendingFields
<1> HIDE DEF y
<1>3. SameRead(y.c, z.c)
  BY <1>2 DEF ScheduleStdin, SameRead, ReadFields, HasFields, CgiFields, PendingFields
<1> HIDE DEF z
<1>4. SameRead(b.c, z.c)
  BY <1>1, <1>2, <1>3 DEF SameRead
<1> QED
  BY <1>4 DEF ScheduleIo, x, y, z

\* A step that concerns neither the answer nor its parser.
LEMMA BesideStep ==
    ASSUME AnswerInv, SameRead(cgi, cgi'),
           web'.out = web.out, web'.err = web.err,
           app'.answer = app.answer, app'.sends = app.sends, app'.died = app.died,
           Placed', Reasons', pc = "exited" => pc' = "exited",
           (~ IgnoresInput /\ app.closed /\ ~ app.died => AppGotEof)'
    PROVE  AnswerInv'
<1>1. /\ cgi'.fromAS = cgi.fromAS /\ cgi'.header = cgi.header /\ cgi'.headerLen = cgi.headerLen
      /\ cgi'.contentLen = cgi.contentLen /\ cgi'.paddingLen = cgi.paddingLen
      /\ cgi'.erBody = cgi.erBody /\ cgi'.readingEndRequestBody = cgi.readingEndRequestBody
      /\ cgi'.exitStatus = cgi.exitStatus /\ cgi'.exitStatusSet = cgi.exitStatusSet
  BY SameReadFields
<1>2. AnswerTyped'
  BY <1>1 DEF AnswerInv, AnswerTyped, Whole
<1>3. ASSUME NEW p, Parsed(p) PROVE Parsed(p)'
  BY <1>1, <1>3 DEF Parsed
<1>4. ASSUME NEW p, Parsing(p) PROVE Parsing(p)'
  <2>1. NothingLeft' <=> NothingLeft
    BY <1>1 DEF NothingLeft
  <2>2. PICK i \in Nat \ {0} : Accepted(app.answer, i) /\ (InHeader(i, p) \/ InBody(i, p))
    BY <1>4 DEF Parsing
  <2>3. InHeader(i, p) => InHeader(i, p)'
    BY <1>1, <2>1 DEF InHeader
  <2>4. InBody(i, p) => InBody(i, p)'
    BY <1>1, <2>1 DEF InBody
  <2>5. Accepted(app'.answer, i) /\ (InHeader(i, p)' \/ InBody(i, p)')
    BY <2>2, <2>3, <2>4
  <2> QED
    BY <2>5 DEF Parsing
<1>5. (\E p \in Nat : Parsed(p) /\ (pc # "exited" /\ ~ cgi.exitStatusSet => Parsing(p)))'
  <2>1. PICK p \in Nat : Parsed(p) /\ (pc # "exited" /\ ~ cgi.exitStatusSet => Parsing(p))
    BY DEF AnswerInv
  <2>2. Parsed(p)' /\ (pc' # "exited" /\ ~ cgi'.exitStatusSet => Parsing(p)')
    BY <1>1, <1>3, <1>4, <2>1
  <2> QED
    BY <2>2
<1>6. (cgi.exitStatusSet => Told /\ cgi.fromAS = <<>>)'
  BY <1>1 DEF AnswerInv, Told, AppCompletes, AppStatus
<1> QED
  BY <1>2, <1>5, <1>6 DEF AnswerInv

\* The answer is one of the well-formed ones.
LEMMA GoodLength ==
    ASSUME AnswerInv, GoodAnswers
    PROVE  WellFormed(app.answer) /\ app.answer \in Seq(AnswerCell) /\ Len(app.answer) \in Nat
<1>1. WellFormed(app.answer)
  BY DEF AnswerInv, AnswerTyped, GoodAnswers
<1>2. app.answer \in Seq(AnswerCell)
  BY <1>1 DEF WellFormed
<1> QED
  BY <1>1, <1>2

\* What an event says about where the loop of OS_DoIo is.
LEMMA EventBehind ==
    ASSUME Marks(cgi, aio), NEW ix, AtEvent(ix)
    PROVE  ix >= from /\ pc = "dispatch"
<1> DEFINE E == Events(aio, from)
<1>1. E \subseteq {AIO_RD_IX(fd) : fd \in aio.rdUse} \cup {AIO_WR_IX(fd) : fd \in aio.wrUse}
  BY DEF Events
<1>2. aio.rdUse \subseteq {0, 3} /\ aio.wrUse \subseteq {3}
  BY DEF Marks, Stdin, Sock
<1>3. \A x \in E : x \in Nat
  BY <1>1, <1>2 DEF AIO_RD_IX, AIO_WR_IX
<1>4. \A x \in E : x >= from
  BY DEF Events
<1> HIDE DEF E
<1>5. E # {} => First(E) \in E
  <2> SUFFICES ASSUME E # {} PROVE First(E) \in E
    OBVIOUS
  <2>1. \E x \in E : \A y \in E : x <= y
    BY <1>3, LeastElement
  <2> QED
    BY <2>1 DEF First
<1>6. E # {} /\ First(E) = ix /\ pc = "dispatch"
  BY DEF AtEvent, E
<1> QED
  BY <1>4, <1>5, <1>6

\* At a read from the application no end of the request has been seen.
LEMMA ReadNotEnded ==
    ASSUME CgiInv, AnswerInv, AtEvent(AIO_RD_IX(Sock))
    PROVE  ~ cgi.exitStatusSet /\ pc = "dispatch" /\ cgi.fromAS = <<>>
<1>1. AIO_RD_IX(Sock) >= from /\ pc = "dispatch"
  BY EventBehind DEF CgiInv, PendingInv
<1> QED
  BY <1>1 DEF AnswerInv, Placed, AIO_RD_IX, Sock

-----------------------------------------------------------------------------
(* What does not concern the answer *)

\* What the program does besides reading the answer.
LEMMA WebServerReadBeside ==
    ASSUME CgiInv, AnswerInv, NEW n, WebServerReadHandler(n)
    PROVE  AnswerInv'
<1> DEFINE c == [cgi EXCEPT !.wsReadPending = FALSE, !.bytesToRead = @ - n,
                         !.fromWS = MakeHeader("stdin", requestId, n, 0) \o SubSeq(web.stdin, 1, n),
                         !.webServerReadHandlerEOF = (n = 0)]
           d == IF c.bytesToRead <= 0 THEN WriteStdinEof(c) ELSE c
           b == [c |-> d, a |-> Completed(aio, AIO_RD_IX(Stdin))]
           e == ScheduleIo(b)
<1>1. /\ AtEvent(AIO_RD_IX(Stdin)) /\ cgi' = e.c /\ from' = AIO_RD_IX(Stdin) + 1
      /\ web' = [web EXCEPT !.stdin = Drop(@, n)] /\ UNCHANGED <<pc, app, code>>
  BY DEF WebServerReadHandler, Become
<1>2. HasFields(cgi, CgiFields)
  BY DEF CgiInv, PendingInv, CgiTyped
<1>3. SameRead(cgi, c) /\ HasFields(c, CgiFields)
  BY <1>2 DEF SameRead, ReadFields, CgiFields, PendingFields, HasFields
<1> HIDE DEF c
<1>4. SameRead(c, d) /\ HasFields(d, CgiFields)
  BY <1>3 DEF SameRead, ReadFields, CgiFields, PendingFields, HasFields, WriteStdinEof
<1>5. b.c = d
  OBVIOUS
<1> HIDE DEF d, b
<1>6. SameRead(d, e.c)
  BY <1>4, <1>5, ScheduleReads
<1> HIDE DEF e
<1>7. SameRead(cgi, cgi')
  BY <1>1, <1>3, <1>4, <1>6 DEF SameRead
<1>8. web'.out = web.out /\ web'.err = web.err
  BY <1>1 DEF CgiInv, RelayInv, HasFields
<1>9. AIO_RD_IX(Stdin) >= from /\ pc = "dispatch"
  BY <1>1, EventBehind DEF CgiInv, PendingInv
<1>10. ~ cgi.exitStatusSet /\ cgi.fromAS = <<>>
  BY <1>9 DEF AnswerInv, Placed, AIO_RD_IX, Stdin, Sock
<1>11. cgi'.exitStatusSet = cgi.exitStatusSet /\ cgi'.fromAS = cgi.fromAS
  BY <1>7, SameReadFields
<1>12. Placed' /\ Reasons' /\ pc' = pc
  BY <1>1, <1>9, <1>10, <1>11 DEF Placed, Reasons, AIO_RD_IX, Stdin
<1>13. (~ IgnoresInput /\ app.closed /\ ~ app.died => AppGotEof)'
  BY <1>1 DEF AnswerInv, AppGotEof
<1> QED
  BY <1>1, <1>7, <1>8, <1>12, <1>13, BesideStep

\* OS_Write has written n cells.
LEMMA AppServerWriteBeside ==
    ASSUME CgiInv, AnswerInv, NEW n, AppServerWriteHandler(n)
    PROVE  AnswerInv'
<1> DEFINE m == IF n = Len(cgi.fromWS) THEN 0 ELSE cgi.next + n
           c == [cgi EXCEPT !.fcgiWritePending = FALSE, !.fromWS = Drop(@, n), !.next = m]
           b == [c |-> c, a |-> Completed(aio, AIO_WR_IX(Sock))]
           e == ScheduleIo(b)
<1>1. /\ AtEvent(AIO_WR_IX(Sock)) /\ from' = AIO_WR_IX(Sock) + 1 /\ ~ app.closed
      /\ app' = [app EXCEPT !.got = @ \o SubSeq(cgi.fromWS, 1, n)] /\ UNCHANGED <<pc, web, code>>
  BY DEF AppServerWriteHandler
<1>2. HasFields(cgi, CgiFields)
  BY DEF CgiInv, PendingInv, CgiTyped
<1>3. cgi' = e.c
  <2>1. [cgi EXCEPT !.fcgiWritePending = FALSE, !.fromWS = Drop(@, n),
                    !.next = IF n = Len(cgi.fromWS) THEN 0 ELSE @ + n] = c
    OBVIOUS
  <2> QED
    BY <2>1 DEF AppServerWriteHandler, Become
<1> HIDE DEF m
<1>4. SameRead(cgi, c) /\ HasFields(c, CgiFields)
  BY <1>2 DEF SameRead, ReadFields, CgiFields, PendingFields, HasFields
<1>5. b.c = c
  OBVIOUS
<1> HIDE DEF c, b
<1>6. SameRead(c, e.c)
  BY <1>4, <1>5, ScheduleReads
<1> HIDE DEF e
<1>7. SameRead(cgi, cgi')
  BY <1>3, <1>4, <1>6 DEF SameRead
<1>8. /\ app'.answer = app.answer /\ app'.sends = app.sends /\ app'.died = app.died
      /\ app'.closed = app.closed
  BY <1>1 DEF CgiInv, RelayInv, HasFields
<1>9. pc = "dispatch"
  BY <1>1, EventBehind DEF CgiInv, PendingInv
<1>10. cgi'.exitStatusSet = cgi.exitStatusSet /\ cgi'.fromAS = cgi.fromAS
  BY <1>7, SameReadFields
<1>11. Placed'
  BY <1>1, <1>9, <1>10 DEF AnswerInv, Placed, AIO_RD_IX, AIO_WR_IX, Sock
<1>12. Reasons' /\ pc' = pc
  BY <1>1, <1>9 DEF Reasons
<1> QED
  BY <1>1, <1>7, <1>8, <1>11, <1>12, BesideStep

\* The loop of AppServerReadHandler has consumed fromAS.
LEMMA ReturnsBeside ==
    ASSUME CgiInv, AnswerInv, AppServerReadHandlerReturns
    PROVE  AnswerInv'
<1> DEFINE b == [c |-> cgi, a |-> aio]
           e == ScheduleIo(b)
<1>1. /\ pc = "read" /\ cgi.fromAS = <<>> /\ cgi' = e.c
      /\ pc' = "dispatch" /\ UNCHANGED <<from, web, app, code>>
  BY DEF AppServerReadHandlerReturns, Become
<1>2. HasFields(cgi, CgiFields) /\ b.c = cgi
  BY DEF CgiInv, PendingInv, CgiTyped
<1> HIDE DEF b
<1>3. SameRead(cgi, e.c)
  BY <1>2, ScheduleReads
<1> HIDE DEF e
<1>4. SameRead(cgi, cgi')
  BY <1>1, <1>3
<1>5. cgi'.exitStatusSet = cgi.exitStatusSet /\ cgi'.fromAS = cgi.fromAS
  BY <1>4, SameReadFields
<1>6. Placed' /\ Reasons'
  BY <1>1, <1>5 DEF AnswerInv, Placed, Reasons
<1>7. (~ IgnoresInput /\ app.closed /\ ~ app.died => AppGotEof)'
  BY <1>1 DEF AnswerInv, AppGotEof
<1> QED
  BY <1>1, <1>4, <1>6, <1>7, BesideStep

\* The variables of the program are unchanged.
LEMMA ReadsKept ==
    ASSUME cgi' = cgi
    PROVE  SameRead(cgi, cgi')
BY DEF SameRead

\* OS_DoIo and main, as long as the program goes on.
LEMMA LoopBeside ==
    ASSUME CgiInv, AnswerInv,
           \/ \E R \in SUBSET {Stdin, Sock}, W \in SUBSET {Sock} : Select(R, W)
           \/ DoIoReturns \/ UNCHANGED vars
    PROVE  AnswerInv'
<1>1. cgi' = cgi /\ UNCHANGED <<web, app, code>> /\ (pc = "exited" => pc' = "exited")
  BY DEF Select, DoIoReturns, vars
<1>2. Placed'
  BY <1>1 DEF Select, DoIoReturns, vars, AnswerInv, Placed
<1>3. Reasons'
  BY <1>1 DEF Select, DoIoReturns, vars, AnswerInv, Reasons, AppCompletes, AppStatus
<1>4. (~ IgnoresInput /\ app.closed /\ ~ app.died => AppGotEof)'
  BY <1>1 DEF AnswerInv, AppGotEof
<1> QED
  BY <1>1, <1>2, <1>3, <1>4, ReadsKept, BesideStep

\* An exit leaves everything else as it is.
LEMMA ExitStep ==
    ASSUME AnswerInv, NEW how, Exit(how), UNCHANGED <<web, app>>, from' \in Nat, Reasons'
    PROVE  AnswerInv'
<1>1. cgi' = cgi /\ pc' = "exited" /\ Placed'
  BY DEF Exit, Placed
<1>2. (~ IgnoresInput /\ app.closed /\ ~ app.died => AppGotEof)'
  BY DEF AnswerInv, AppGotEof
<1> QED
  BY <1>1, <1>2, ReadsKept, BesideStep

\* main exits with the status that was set.
LEMMA MainReturnsStep ==
    ASSUME AnswerInv, MainReturns
    PROVE  AnswerInv'
<1>1. /\ cgi.exitStatusSet /\ Exit(<<"status", cgi.exitStatus>>)
      /\ UNCHANGED <<from, web, app>>
  BY DEF MainReturns
<1>2. cgi' = cgi /\ code' = <<"status", cgi.exitStatus>>
  BY <1>1 DEF Exit
<1>3. Told
  BY <1>1 DEF AnswerInv
<1>4. Reasons'
  BY <1>1, <1>2, <1>3 DEF Reasons, Told, AppStatus
<1>5. from' \in Nat
  BY <1>1 DEF AnswerInv, Placed
<1> QED
  BY <1>1, <1>4, <1>5, ExitStep

\* An error, for which the application is to blame.
LEMMA ErrorStep ==
    ASSUME AnswerInv, NEW how, Exit(how), how[1] # "status", UNCHANGED <<from, web, app>>,
           AppCompletes /\ ~ app.died => IgnoresInput
    PROVE  AnswerInv'
<1>1. cgi' = cgi /\ code' = how /\ app' = app
  BY DEF Exit
<1>2. Reasons'
  BY <1>1 DEF Reasons, AppCompletes
<1>3. from' \in Nat
  BY DEF AnswerInv, Placed
<1> QED
  BY <1>2, <1>3, ExitStep

\* A call of the program fails.
LEMMA FailureStep ==
    ASSUME AnswerInv, Failure
    PROVE  AnswerInv'
<1>1. PICK call \in {"select", "stdin", "connection", "output"} :
         Exit(OS_Errno(call)) /\ UNCHANGED <<from, web, app>>
  BY DEF Failure, SelectFails, StdinFails, ConnectionFails, OutputFails
<1>2. code' = OS_Errno(call) /\ code'[1] = "errno" /\ code' \in LocalFailures
  BY <1>1 DEF Exit, OS_Errno, LocalFailures
<1>3. Reasons'
  BY <1>2 DEF Reasons, LocalFailures, OS_Errno
<1>4. from' \in Nat
  BY <1>1 DEF AnswerInv, Placed
<1> QED
  BY <1>1, <1>3, <1>4, ExitStep

\* A write fails: the application has closed the connection, and it has not
\* done so after the end of stdin, since that was still to be written.
LEMMA WriteFailsStep ==
    ASSUME CgiInv, AnswerInv, WriteFails
    PROVE  AnswerInv'
<1>1. AtEvent(AIO_WR_IX(Sock)) /\ app.closed /\ Exit(OS_Errno("EPIPE")) /\ UNCHANGED <<from, web, app>>
  BY DEF WriteFails
<1>2. ~ AppGotEof
  <2> SUFFICES ASSUME AppGotEof PROVE FALSE
    OBVIOUS
  <2> DEFINE g == app.got
             f == cgi.fromWS
             r == g \o f
             i == Len(g) - 3
  <2>1. f # <<>>
    <3>1. Sock \in aio.wrUse
      BY <1>1, EventLemma DEF CgiInv, PendingInv
    <3> QED
      BY <3>1 DEF CgiInv, PendingInv, Marks
  <2>2. g \in Seq(StdinCell) /\ f \in Seq(StdinCell) /\ StdinRecords(r)
    BY DEF CgiInv, PendingInv, RelayInv, CgiTyped, StdinRelayed, Relayed
  <2>3. Len(g) >= 4 /\ SubSeq(g, Len(g) - 4 + 1, Len(g)) = MakeHeader("stdin", requestId, 0, 0)
    BY CgiAssumption DEF AppGotEof
  <2> HIDE DEF g, f
  <2>4. /\ Len(r) = Len(g) + Len(f) /\ Len(g) \in Nat /\ Len(f) \in Nat /\ Len(f) > 0
        /\ i \in 1 .. Len(r) /\ r[i] = g[i]
    BY <2>1, <2>2, <2>3
  <2>5. g[i] = <<"hdr", 1, "stdin", requestId, 0, 0>>
    <3> DEFINE x == SubSeq(g, Len(g) - 4 + 1, Len(g))
    <3>1. x[1] = g[i]
      BY <2>2, <2>3
    <3>2. x[1] = MakeHeader("stdin", requestId, 0, 0)[1]
      BY <2>3
    <3> HIDE DEF x
    <3> QED
      BY <3>1, <3>2, CgiAssumption DEF MakeHeader
  <2>6. i \in Starts(r) /\ r[i][5] = 0
    BY <2>4, <2>5 DEF Starts, Is
  <2> HIDE DEF r
  <2>7. After(r, i) = Len(r) + 1
    BY <2>2, <2>6 DEF StdinRecords
  <2> QED
    BY <2>4, <2>6, <2>7, CgiAssumption DEF After
<1>3. AppCompletes /\ ~ app.died => IgnoresInput
  BY <1>1, <1>2 DEF AnswerInv
<1>4. OS_Errno("EPIPE")[1] # "status"
  BY DEF OS_Errno
<1> QED
  BY <1>1, <1>3, <1>4, ErrorStep

\* The application closes the connection, having got the end of stdin.
LEMMA AppClosesStep ==
    ASSUME CgiInv, AnswerInv, AppCloses
    PROVE  AnswerInv'
<1>1. /\ (AppGotEof \/ IgnoresInput) /\ app' = [app EXCEPT !.closed = TRUE]
      /\ UNCHANGED <<cgi, pc, from, web, code>>
  BY DEF AppCloses
<1>2. /\ app'.answer = app.answer /\ app'.sends = app.sends /\ app'.died = app.died
      /\ app'.got = app.got
  BY <1>1 DEF CgiInv, RelayInv, HasFields
<1>3. Placed' /\ Reasons'
  BY <1>1, <1>2 DEF AnswerInv, Placed, Reasons, AppCompletes, AppStatus
<1>4. (~ IgnoresInput /\ app.closed /\ ~ app.died => AppGotEof)'
  BY <1>1, <1>2 DEF AppGotEof
<1> QED
  BY <1>1, <1>2, <1>3, <1>4, ReadsKept, BesideStep

\* The application dies: what it has still to send is cut, which leaves a
\* beginning of what was to come.
LEMMA AppDiesStep ==
    ASSUME CgiInv, AnswerInv, GoodAnswers, AppDies
    PROVE  AnswerInv'
<1>1. PICK n \in 0 .. Len(app.sends) :
         app' = [app EXCEPT !.sends = SubSeq(@, 1, n), !.closed = TRUE, !.died = TRUE]
  BY DEF AppDies
<1>2. UNCHANGED <<cgi, pc, from, web, code>>
  BY DEF AppDies
<1>3. /\ app'.answer = app.answer /\ app'.sends = SubSeq(app.sends, 1, n) /\ app'.died = TRUE
  BY <1>1 DEF CgiInv, RelayInv, HasFields
<1> DEFINE s == app.sends
           t == SubSeq(app.sends, 1, n)
<1>4. s \in Seq(AnswerCell) /\ Whole(s)
  BY DEF AnswerInv, AnswerTyped
<1>5. /\ t \in Seq(AnswerCell) /\ Len(t) = n /\ Len(t) <= Len(s) /\ Len(s) \in Nat
      /\ \A j \in 1 .. Len(t) : t[j] = s[j]
  BY <1>4
<1>6. app'.sends = t
  BY <1>3
<1> HIDE DEF s, t
<1>7. Whole(t)
  BY <1>4, <1>5 DEF Whole
<1>8. AnswerTyped'
  BY <1>2, <1>3, <1>5, <1>6, <1>7 DEF AnswerInv, AnswerTyped, Whole
<1>9. ASSUME NEW p \in Nat, Parsed(p) PROVE Parsed(p)'
  <2> DEFINE here == Len(cgi.fromAS)
             a == app.answer
  <2>1. here \in Nat
    BY DEF AnswerInv, AnswerTyped
  <2>2. p + here + Len(s) <= Len(a) /\ \A j \in 1 .. Len(s) : s[j] = a[p + here + j]
    BY <1>9 DEF Parsed, s
  <2>3. Len(a) \in Nat
    BY GoodLength
  <2> HIDE DEF here, a
  <2>4. p + here + Len(t) <= Len(a) /\ \A j \in 1 .. Len(t) : t[j] = a[p + here + j]
    <3>1. \A j \in 1 .. Len(t) : j \in 1 .. Len(s)
      BY <1>5
    <3> QED
      BY <1>5, <2>1, <2>2, <2>3, <3>1
  <2> QED
    BY <1>2, <1>3, <1>6, <1>9, <2>4 DEF Parsed, here, a
<1>10. ASSUME NEW p, Parsing(p) PROVE Parsing(p)'
  <2>1. NothingLeft => NothingLeft'
    BY <1>2, <1>5, <1>6 DEF NothingLeft, s
  <2>2. PICK i \in Nat \ {0} : Accepted(app.answer, i) /\ (InHeader(i, p) \/ InBody(i, p))
    BY <1>10 DEF Parsing
  <2>3. InHeader(i, p) => InHeader(i, p)'
    BY <1>2, <1>3, <2>1 DEF InHeader
  <2>4. InBody(i, p) => InBody(i, p)'
    BY <1>2, <1>3, <2>1 DEF InBody
  <2>5. Accepted(app'.answer, i) /\ (InHeader(i, p)' \/ InBody(i, p)')
    BY <1>3, <2>2, <2>3, <2>4
  <2> QED
    BY <2>5 DEF Parsing
<1>11. (\E p \in Nat : Parsed(p) /\ (pc # "exited" /\ ~ cgi.exitStatusSet => Parsing(p)))'
  <2>1. PICK p \in Nat : Parsed(p) /\ (pc # "exited" /\ ~ cgi.exitStatusSet => Parsing(p))
    BY DEF AnswerInv
  <2>2. Parsed(p)' /\ (pc' # "exited" /\ ~ cgi'.exitStatusSet => Parsing(p)')
    BY <1>2, <1>9, <1>10, <2>1
  <2> QED
    BY <2>2
<1>12. (cgi.exitStatusSet => Told /\ cgi.fromAS = <<>>)'
  BY <1>2, <1>3 DEF AnswerInv, Told, AppCompletes, AppStatus
<1>13. Placed' /\ Reasons'
  BY <1>2, <1>3 DEF AnswerInv, Placed, Reasons
<1>14. (~ IgnoresInput /\ app.closed /\ ~ app.died => AppGotEof)'
  BY <1>3
<1> QED
  BY <1>8, <1>11, <1>12, <1>13, <1>14 DEF AnswerInv

-----------------------------------------------------------------------------
(* The loop of AppServerReadHandler *)

\* What is left of a sequence without its first n elements.
LEMMA DropLemma ==
    ASSUME NEW C, NEW s \in Seq(C), NEW n \in 0 .. Len(s)
    PROVE  /\ Drop(s, n) \in Seq(C) /\ Len(Drop(s, n)) = Len(s) - n
           /\ \A j \in 1 .. Len(s) - n : Drop(s, n)[j] = s[n + j]
<1>1. Drop(s, n) = SubSeq(s, n + 1, Len(s))
  BY DEF Drop
<1> DEFINE t == SubSeq(s, n + 1, Len(s))
<1>2. /\ t \in Seq(C) /\ Len(t) = Len(s) - n
      /\ \A j \in 1 .. Len(s) - n : t[j] = s[n + j]
  OBVIOUS
<1> HIDE DEF t
<1> QED
  BY <1>1, <1>2 DEF t

\* Two parts are dropped like one.
LEMMA DropTwice ==
    ASSUME NEW C, NEW s \in Seq(C), NEW n \in 0 .. Len(s), NEW m \in 0 .. Len(s) - n
    PROVE  Drop(Drop(s, n), m) = Drop(s, n + m)
<1> DEFINE t == Drop(s, n)
           u == Drop(t, m)
           v == Drop(s, n + m)
<1>1. /\ t \in Seq(C) /\ Len(t) = Len(s) - n
      /\ \A j \in 1 .. Len(s) - n : t[j] = s[n + j]
  BY DropLemma
<1> HIDE DEF t
<1>2. m \in 0 .. Len(t) /\ n + m \in 0 .. Len(s) /\ Len(s) \in Nat
  BY <1>1
<1>3. /\ u \in Seq(C) /\ Len(u) = Len(t) - m
      /\ \A j \in 1 .. Len(t) - m : u[j] = t[m + j]
  BY <1>1, <1>2, DropLemma
<1>4. /\ v \in Seq(C) /\ Len(v) = Len(s) - (n + m)
      /\ \A j \in 1 .. Len(s) - (n + m) : v[j] = s[n + m + j]
  BY <1>2, DropLemma
<1> HIDE DEF u, v
<1>5. \A j \in 1 .. Len(s) - (n + m) :
         /\ j \in 1 .. Len(t) - m /\ m + j \in 1 .. Len(s) - n
         /\ n + (m + j) = n + m + j
  BY <1>1, <1>2
<1>6. \A j \in 1 .. Len(s) - (n + m) : u[j] = v[j]
  BY <1>1, <1>3, <1>4, <1>5
<1>7. Len(u) = Len(v)
  BY <1>1, <1>2, <1>3, <1>4
<1>8. \A j \in 1 .. Len(u) : u[j] = v[j]
  BY <1>1, <1>2, <1>3, <1>4, <1>6, <1>7
<1>9. u = v
  BY <1>3, <1>4, <1>7, <1>8, SeqEqual
<1> QED
  BY <1>9 DEF t, u, v

\* k more cells are parsed.
LEMMA ParsedMore ==
    ASSUME AnswerInv, GoodAnswers, NEW p \in Nat, Parsed(p),
           NEW k \in 0 .. Len(cgi.fromAS), cgi'.fromAS = Drop(cgi.fromAS, k), app' = app,
           web'.out = Only(SubSeq(app.answer, 1, p + k), "out"),
           web'.err = Only(SubSeq(app.answer, 1, p + k), "err")
    PROVE  /\ Parsed(p + k)' /\ cgi'.fromAS \in Seq(AnswerCell)
           /\ Len(cgi'.fromAS) = Len(cgi.fromAS) - k
<1> DEFINE f == cgi.fromAS
           g == Drop(f, k)
           a == app.answer
           s == app.sends
<1>1. f \in Seq(AnswerCell) /\ s \in Seq(AnswerCell) /\ Len(a) \in Nat
  BY GoodLength DEF AnswerInv, AnswerTyped
<1>2. /\ g \in Seq(AnswerCell) /\ Len(g) = Len(f) - k
      /\ \A j \in 1 .. Len(f) - k : g[j] = f[k + j]
  BY <1>1, DropLemma
<1>3. Len(f) \in Nat /\ Len(s) \in Nat /\ k \in 0 .. Len(f)
  BY <1>1
<1>4. /\ p + Len(f) + Len(s) <= Len(a)
      /\ ~ app.died => p + Len(f) + Len(s) = Len(a)
      /\ \A j \in 1 .. Len(f) : f[j] = a[p + j]
      /\ \A j \in 1 .. Len(s) : s[j] = a[p + Len(f) + j]
  BY DEF Parsed
<1>5. cgi'.fromAS = g
  OBVIOUS
<1> HIDE DEF f, g
<1>6. p + k \in Nat /\ (p + k) + Len(g) = p + Len(f)
  BY <1>2, <1>3
<1>7. \A j \in 1 .. Len(g) : g[j] = a[(p + k) + j]
  <2> SUFFICES ASSUME NEW j \in 1 .. Len(g) PROVE g[j] = a[(p + k) + j]
    OBVIOUS
  <2>1. j \in 1 .. Len(f) - k /\ k + j \in 1 .. Len(f) /\ p + (k + j) = (p + k) + j
    BY <1>2, <1>3
  <2> QED
    BY <1>2, <1>4, <2>1
<1>8. \A j \in 1 .. Len(s) : s[j] = a[(p + k) + Len(g) + j]
  BY <1>4, <1>6
<1>9. Parsed(p + k)'
  BY <1>4, <1>5, <1>6, <1>7, <1>8 DEF Parsed
<1> QED
  BY <1>2, <1>5, <1>9 DEF f

\* An iteration of the loop that does not end the program or the request.
LEMMA GoesOn ==
    ASSUME AnswerInv, pc = "read", UNCHANGED <<pc, from, app, code>>,
           ~ cgi'.exitStatusSet, cgi'.fromAS \in Seq(AnswerCell),
           Len(cgi'.header) = 4, Len(cgi'.erBody) = 3,
           NEW q \in Nat, Parsed(q)', Parsing(q)'
    PROVE  AnswerInv'
<1>1. AnswerTyped'
  BY DEF AnswerInv, AnswerTyped, Whole
<1>2. Placed' /\ Reasons'
  BY DEF AnswerInv, Placed, Reasons
<1>3. (~ IgnoresInput /\ app.closed /\ ~ app.died => AppGotEof)'
  BY DEF AnswerInv, AppGotEof
<1> QED
  BY <1>1, <1>2, <1>3 DEF AnswerInv

\* What InBody and InHeader say when the loop of AppServerReadHandler goes on.
LEMMA Reading ==
    ASSUME AnswerInv, pc = "read", cgi.fromAS # <<>>
    PROVE  /\ ~ cgi.exitStatusSet /\ Len(cgi.fromAS) \in Nat \ {0}
           /\ \E p \in Nat : Parsed(p) /\ Parsing(p)
<1>1. ~ cgi.exitStatusSet /\ cgi.fromAS \in Seq(AnswerCell)
  BY DEF AnswerInv, AnswerTyped
<1>2. \E p \in Nat : Parsed(p) /\ Parsing(p)
  BY <1>1 DEF AnswerInv
<1> QED
  BY <1>1, <1>2

\* n cells got replace the first ones of s.
LEMMA OverlayLemma ==
    ASSUME NEW s, Len(s) \in Nat, NEW n
    PROVE  /\ Len(Overlay(s, n)) = Len(s)
           /\ \A k \in 1 .. Len(s) :
                Overlay(s, n)[k] = IF k <= n THEN cgi.fromAS[k] ELSE s[k]
<1> DEFINE m == Len(s)
           F(i) == IF i <= n THEN cgi.fromAS[i] ELSE s[i]
           f == [i \in 1 .. m |-> F(i)]
           D == {F(i) : i \in 1 .. m}
<1>1. Overlay(s, n) = f
  BY DEF Overlay
<1>2. f \in [1 .. m -> D] /\ \A k \in 1 .. m : f[k] = F(k)
  OBVIOUS
<1>3. m \in Nat
  OBVIOUS
<1> HIDE DEF f, D, m
<1>4. Len(f) = m
  BY <1>2, <1>3, FunctionIsSeq
<1> QED
  BY <1>1, <1>2, <1>4 DEF m

\* A record that the program accepts and that does not end the request.
LEMMA AcceptedNext ==
    ASSUME NEW a, a \in Seq(AnswerCell), NEW i \in Nat \ {0}, Record(a, i), Accepted(a, i),
           a[i][3] \in {"stdout", "stderr"}, a[i][4] = requestId
    PROVE  Accepted(a, NextFrom(a, i)) /\ NextFrom(a, i) \in Nat \ {0}
<1> DEFINE c == a[i][5]
           d == a[i][6]
           m == NextFrom(a, i)
<1>1. /\ c \in Nat /\ d \in Nat /\ m = i + 4 + c + d /\ PadFrom(a, i) = i + 4 + c
      /\ m <= Len(a) + 1
  BY DEF Record
<1>2. \A j \in i .. m - 1 : \/ a[j][1] = "hdr" /\ a[j][3] = a[i][3] /\ a[j][4] = requestId
                            \/ a[j][1] \in {"out", "err", "pad"}
  <2> SUFFICES ASSUME NEW j \in i .. m - 1
               PROVE  \/ a[j][1] = "hdr" /\ a[j][3] = a[i][3] /\ a[j][4] = requestId
                      \/ a[j][1] \in {"out", "err", "pad"}
    OBVIOUS
  <2> HIDE DEF c, d, m
  <2>1. j \in i .. i + 3 \/ j \in i + 4 .. i + 4 + c - 1 \/ j \in i + 4 + c .. m - 1
    BY <1>1
  <2>2. CASE j \in i .. i + 3
    BY <2>2 DEF Record
  <2>3. CASE j \in i + 4 .. i + 4 + c - 1
    <3>1. a[j][1] = ContentOf(a[i][3])
      BY <1>1, <2>3 DEF Record
    <3> QED
      BY <3>1 DEF ContentOf
  <2>4. CASE j \in i + 4 + c .. m - 1
    BY <1>1, <2>4 DEF Record, m
  <2> QED
    BY <2>1, <2>2, <2>3, <2>4
<1> HIDE DEF c, d, m
<1>3. ASSUME NEW j \in 1 .. m - 1, a[j][1] = "hdr"
      PROVE  a[j][3] # "other" /\ a[j][4] = requestId
  <2>1. j \in 1 .. i - 1 \/ j \in i .. m - 1
    BY <1>1
  <2> QED
    BY <1>2, <1>3, <2>1 DEF Accepted
<1>4. Only(SubSeq(a, 1, m - 1), "body") = <<>>
  <2>1. m - 1 = (i - 1) + (4 + c + d) /\ i - 1 \in Nat /\ 4 + c + d \in Nat
        /\ (i - 1) + (4 + c + d) <= Len(a)
    BY <1>1
  <2>2. \A j \in (i - 1) + 1 .. (i - 1) + (4 + c + d) : ~ Is(a[j], "body")
    <3> SUFFICES ASSUME NEW j \in (i - 1) + 1 .. (i - 1) + (4 + c + d) PROVE ~ Is(a[j], "body")
      OBVIOUS
    <3>1. j \in i .. m - 1
      BY <1>1
    <3> QED
      BY <1>2, <3>1 DEF Is
  <2> DEFINE k == 4 + c + d
             o == i - 1
  <2>3. m - 1 = o + k /\ o \in Nat /\ k \in Nat /\ o + k <= Len(a)
        /\ \A j \in o + 1 .. o + k : ~ Is(a[j], "body")
    BY <2>1, <2>2
  <2>4. Only(SubSeq(a, 1, o), "body") = <<>>
    BY DEF Accepted
  <2> HIDE DEF o, k
  <2>5. Only(SubSeq(a, 1, o + k), "body") = Only(SubSeq(a, 1, o), "body")
    BY <2>3, OnlySkips
  <2> QED
    BY <2>3, <2>4, <2>5
<1>5. m \in Nat \ {0}
  BY <1>1
<1> QED
  BY <1>3, <1>4, <1>5 DEF Accepted, m

\* OS_Read has got n cells.
LEMMA ReadCallStep ==
    ASSUME CgiInv, AnswerInv, GoodAnswers, NEW n \in 1 .. Smaller(BuffLen, Len(app.sends)),
           AppServerReadHandler(n)
    PROVE  AnswerInv'
<1> DEFINE s == app.sends
           f == SubSeq(s, 1, n)
           g == Drop(s, n)
           a == app.answer
<1>1. /\ AtEvent(AIO_RD_IX(Sock)) /\ Whole(g) /\ from' = AIO_RD_IX(Sock) + 1 /\ pc' = "read"
      /\ cgi' = [cgi EXCEPT !.fcgiReadPending = FALSE, !.fromAS = f]
      /\ app' = [app EXCEPT !.sends = g] /\ UNCHANGED <<web, code>>
  BY DEF AppServerReadHandler
<1>2. ~ cgi.exitStatusSet /\ pc = "dispatch" /\ cgi.fromAS = <<>>
  BY <1>1, ReadNotEnded
<1>3. s \in Seq(AnswerCell) /\ n \in 1 .. Len(s) /\ Len(s) \in Nat /\ Len(a) \in Nat
  <2>1. s \in Seq(AnswerCell) /\ Len(a) \in Nat
    BY GoodLength DEF AnswerInv, AnswerTyped
  <2> QED
    BY <2>1, CgiAssumption DEF Smaller
<1>4. /\ f \in Seq(AnswerCell) /\ Len(f) = n
      /\ \A j \in 1 .. n : f[j] = s[j]
  BY <1>3
<1>5. /\ g \in Seq(AnswerCell) /\ Len(g) = Len(s) - n
      /\ \A j \in 1 .. Len(s) - n : g[j] = s[n + j]
  <2> HIDE DEF s
  <2>1. n \in 0 .. Len(s)
    BY <1>3
  <2> QED
    BY <1>3, <2>1, DropLemma
<1>6. HasFields(cgi, CgiFields) /\ HasFields(app, {"answer", "sends", "got", "closed", "died"})
  BY DEF CgiInv, PendingInv, CgiTyped, RelayInv
<1> HIDE DEF f, g
<1>7. /\ cgi'.fromAS = f /\ cgi'.header = cgi.header /\ cgi'.headerLen = cgi.headerLen
      /\ cgi'.contentLen = cgi.contentLen /\ cgi'.paddingLen = cgi.paddingLen
      /\ cgi'.erBody = cgi.erBody /\ cgi'.readingEndRequestBody = cgi.readingEndRequestBody
      /\ cgi'.exitStatusSet = cgi.exitStatusSet
  BY <1>1, <1>6 DEF HasFields, CgiFields, PendingFields
<1>8. /\ app'.answer = a /\ app'.sends = g /\ app'.died = app.died /\ app'.got = app.got
      /\ app'.closed = app.closed
  BY <1>1, <1>6 DEF HasFields
<1>9. PICK p \in Nat : Parsed(p) /\ Parsing(p)
  BY <1>2 DEF AnswerInv
<1>10. Parsed(p)'
  <2>1. /\ p + 0 + Len(s) <= Len(a) /\ (~ app.died => p + 0 + Len(s) = Len(a))
        /\ \A j \in 1 .. Len(s) : s[j] = a[p + 0 + j]
        /\ web.out = Only(SubSeq(a, 1, p), "out") /\ web.err = Only(SubSeq(a, 1, p), "err")
    BY <1>2, <1>9 DEF Parsed
  <2> HIDE DEF a, s
  <2>2. p + n + Len(g) = p + 0 + Len(s)
    BY <1>3, <1>5
  <2>3. \A j \in 1 .. n : f[j] = a[p + j]
    <3>1. \A j \in 1 .. n : j \in 1 .. Len(s) /\ p + 0 + j = p + j
      BY <1>3
    <3>2. \A j \in 1 .. n : s[j] = a[p + j]
      BY <2>1, <3>1
    <3> QED
      BY <1>4, <3>2 DEF s
  <2>4. \A j \in 1 .. Len(g) : g[j] = a[p + n + j]
    <3> SUFFICES ASSUME NEW j \in 1 .. Len(g) PROVE g[j] = a[p + n + j]
      OBVIOUS
    <3>1. j \in 1 .. Len(s) - n /\ n + j \in 1 .. Len(s) /\ p + 0 + (n + j) = p + n + j
      BY <1>3, <1>5
    <3> QED
      BY <1>5, <2>1, <3>1
  <2> QED
    BY <1>1, <1>4, <1>7, <1>8, <2>1, <2>2, <2>3, <2>4 DEF Parsed
<1>11. Parsing(p)'
  <2>1. PICK i \in Nat \ {0} : Accepted(a, i) /\ (InHeader(i, p) \/ InBody(i, p))
    BY <1>9 DEF Parsing
  <2>2. ~ NothingLeft
    BY <1>3 DEF NothingLeft
  <2>3. InHeader(i, p) => InHeader(i, p)'
    BY <1>7, <1>8, <2>2 DEF InHeader
  <2>4. InBody(i, p) => InBody(i, p)'
    BY <1>7, <1>8, <2>2 DEF InBody
  <2>5. Accepted(app'.answer, i) /\ (InHeader(i, p)' \/ InBody(i, p)')
    BY <1>8, <2>1, <2>3, <2>4
  <2> QED
    BY <2>5 DEF Parsing
<1>12. AnswerTyped'
  BY <1>1, <1>4, <1>5, <1>7, <1>8 DEF AnswerInv, AnswerTyped, Whole
<1>13. Placed' /\ Reasons'
  BY <1>1 DEF Placed, Reasons, AIO_RD_IX, Sock
<1>14. (~ IgnoresInput /\ app.closed /\ ~ app.died => AppGotEof)'
  BY <1>8 DEF AnswerInv, AppGotEof
<1> QED
  BY <1>2, <1>7, <1>10, <1>11, <1>12, <1>13, <1>14 DEF AnswerInv

\* Behind the first cell of a header or a body there is no more to read.
LEMMA ReadAtOnce ==
    ASSUME AnswerInv, GoodAnswers, NEW p \in Nat, Parsed(p),
           NEW x, x = app.answer[p + Len(cgi.fromAS) + 1],
           x[1] \in {"hdr", "body"}, x[2] # 1
    PROVE  app.sends = <<>>
<1> SUFFICES ASSUME app.sends # <<>> PROVE FALSE
  OBVIOUS
<1>1. app.sends \in Seq(AnswerCell) /\ Whole(app.sends)
  BY DEF AnswerInv, AnswerTyped
<1>2. 1 \in 1 .. Len(app.sends)
  BY <1>1
<1>3. app.sends[1] = x
  BY <1>2 DEF Parsed
<1> QED
  BY <1>1, <1>3 DEF Whole, GoodAnswers

\* GetPtr gets n cells of a header.  It gets all four, unless the application
\* died behind them; then the type and the request id are those of the record.
LEMMA ReadHeaderStep ==
    ASSUME CgiInv, AnswerInv, GoodAnswers, ReadHeader, NEW n, n = GetPtr(4)
    PROVE  AnswerInv'
<1> DEFINE f == cgi.fromAS
           a == app.answer
           h == Overlay(cgi.header, n)
           g == Drop(f, n)
           c == [cgi EXCEPT !.header = h, !.headerLen = n, !.fromAS = g]
           d == [c EXCEPT !.contentLen = h[4][5], !.paddingLen = h[4][6]]
<1>1. /\ pc = "read" /\ f # <<>> /\ cgi.headerLen < 4 /\ UNCHANGED <<from, web, app>>
  BY CgiAssumption DEF ReadHeader
<1>2. ~ cgi.exitStatusSet /\ Len(f) \in Nat \ {0}
  BY <1>1, Reading
<1>3. PICK p \in Nat : Parsed(p) /\ Parsing(p)
  BY <1>1, Reading
<1>4. PICK i \in Nat \ {0} : Accepted(a, i) /\ (InHeader(i, p) \/ InBody(i, p))
  BY <1>3 DEF Parsing
<1>5. InHeader(i, p)
  BY <1>1, <1>4 DEF InBody
<1>6. cgi.headerLen = 0 /\ p = i - 1 /\ ~ cgi.readingEndRequestBody
  BY <1>1, <1>5 DEF InHeader, NothingLeft
<1>7. /\ a \in Seq(AnswerCell) /\ Len(a) \in Nat /\ WellFormed(a)
      /\ p + Len(f) <= Len(a) /\ \A j \in 1 .. Len(f) : f[j] = a[p + j]
  <2>1. app.sends \in Seq(AnswerCell)
    BY DEF AnswerInv, AnswerTyped
  <2>2. a \in Seq(AnswerCell) /\ Len(a) \in Nat /\ WellFormed(a)
    BY GoodLength
  <2>3. p + Len(f) + Len(app.sends) <= Len(a) /\ \A j \in 1 .. Len(f) : f[j] = a[p + j]
    BY <1>3 DEF Parsed
  <2>4. Len(app.sends) \in Nat
    BY <2>1
  <2>5. p + Len(f) <= Len(a)
    <3> DEFINE u == Len(f)
               v == Len(a)
               w == Len(app.sends)
    <3>1. u \in Nat /\ v \in Nat /\ w \in Nat /\ p + u + w <= v
      BY <1>2, <2>2, <2>3, <2>4
    <3> HIDE DEF u, v, w
    <3>2. p + u <= v
      BY <3>1
    <3> QED
      BY <3>2 DEF u, v
  <2> HIDE DEF f, a
  <2> QED
    BY <2>2, <2>3, <2>5
<1>8. i \in Starts(a)
  <2>1. i # Len(a) + 1
    BY <1>2, <1>6, <1>7
  <2> QED
    BY <1>5, <2>1 DEF InHeader
<1>9. Record(a, i)
  BY <1>7, <1>8, RecordLemma
<1>10. n \in 1 .. 4 /\ n <= Len(f) /\ (n < 4 => n = Len(f)) /\ n \in 0 .. Len(f)
  <2>1. n = IF 4 <= Len(f) THEN 4 ELSE Len(f)
    BY DEF GetPtr, Smaller
  <2> HIDE DEF f
  <2> QED
    BY <1>2, <2>1
<1>11. Len(h) = 4 /\ \A k \in 1 .. n : h[k] = a[i + k - 1]
  <2>1. Len(cgi.header) = 4
    BY DEF AnswerInv, AnswerTyped
  <2>2. Len(h) = 4 /\ \A k \in 1 .. 4 : h[k] = IF k <= n THEN f[k] ELSE cgi.header[k]
    <3> DEFINE s == cgi.header
    <3>1. Len(s) = 4 /\ 4 \in Nat
      BY <2>1
    <3> HIDE DEF s
    <3>2. /\ Len(Overlay(s, n)) = 4
          /\ \A k \in 1 .. 4 : Overlay(s, n)[k] = IF k <= n THEN cgi.fromAS[k] ELSE s[k]
      BY <3>1, OverlayLemma
    <3> QED
      BY <3>2 DEF s
  <2> HIDE DEF h, f, a
  <2>3. \A k \in 1 .. n : k \in 1 .. Len(f) /\ k \in 1 .. 4 /\ k <= n /\ p + k = i + k - 1
    BY <1>2, <1>6, <1>10
  <2> QED
    BY <1>7, <2>2, <2>3
<1>12. \/ n < 4 /\ cgi' = c /\ UNCHANGED <<aio, pc, code>>
       \/ n = 4 /\ (h[1][1] # "hdr" \/ h[1][2] # 1) /\ Exit(FCGX_UNSUPPORTED_VERSION)
       \/ n = 4 /\ h[3][4] # requestId /\ Exit(FCGX_PROTOCOL_ERROR)
       \/ n = 4 /\ h[3][4] = requestId /\ cgi' = d /\ UNCHANGED <<aio, pc, code>>
  <2>1. HeaderLen - cgi.headerLen = 4 /\ HeaderLen = 4
    BY <1>6, CgiAssumption
  <2> DEFINE b == [cgi EXCEPT !.header = h, !.headerLen = @ + n, !.fromAS = Drop(@, n)]
  <2>2. b = c
    <3>1. cgi.headerLen + n = n
      BY <1>6, <1>10
    <3> HIDE DEF h
    <3> QED
      BY <3>1
  <2>3. c.headerLen = n
    BY DEF CgiInv, PendingInv, CgiTyped, HasFields, CgiFields
  <2>4. /\ IF b.headerLen < HeaderLen
             THEN cgi' = b /\ UNCHANGED <<aio, pc, code>>
           ELSE IF h[1][1] # "hdr" \/ h[1][2] # 1
             THEN Exit(FCGX_UNSUPPORTED_VERSION)
           ELSE IF h[3][4] # requestId
             THEN Exit(FCGX_PROTOCOL_ERROR)
           ELSE cgi' = [b EXCEPT !.contentLen = h[4][5], !.paddingLen = h[4][6]]
                /\ UNCHANGED <<aio, pc, code>>
    BY <1>6, <2>1 DEF ReadHeader
  <2> HIDE DEF b, c, h
  <2> QED
    BY <1>10, <2>1, <2>2, <2>3, <2>4
<1>13. HasFields(cgi, CgiFields)
  BY DEF CgiInv, PendingInv, CgiTyped
<1>14. ASSUME NEW j \in 1 .. n
       PROVE  a[p + j][1] = "hdr"
  <2>1. p + j \in i .. i + 3
    BY <1>6, <1>10
  <2> QED
    BY <1>9, <2>1 DEF Record
<1>15. ASSUME cgi'.fromAS = g
       PROVE  /\ Parsed(p + n)' /\ cgi'.fromAS \in Seq(AnswerCell)
              /\ Len(cgi'.fromAS) = Len(f) - n
  <2>1. \A j \in p + 1 .. p + n : a[j][1] = "hdr"
    <3> SUFFICES ASSUME NEW j \in p + 1 .. p + n PROVE a[j][1] = "hdr"
      OBVIOUS
    <3>1. j - p \in 1 .. n /\ p + (j - p) = j
      BY <1>10
    <3> QED
      BY <1>14, <3>1
  <2> HIDE DEF a, f
  <2>2. p + n <= Len(a) /\ n \in Nat
    BY <1>2, <1>7, <1>10
  <2>3. \A kind \in {"out", "err"} : \A j \in p + 1 .. p + n : ~ Is(a[j], kind)
    BY <2>1 DEF Is
  <2>4. \A kind \in {"out", "err"} :
          Only(SubSeq(a, 1, p + n), kind) = Only(SubSeq(a, 1, p), kind)
    <3> SUFFICES ASSUME NEW kind \in {"out", "err"}
                 PROVE  Only(SubSeq(a, 1, p + n), kind) = Only(SubSeq(a, 1, p), kind)
      OBVIOUS
    <3>1. \A j \in p + 1 .. p + n : ~ Is(a[j], kind)
      BY <2>3
    <3>2. a \in Seq(AnswerCell)
      BY <1>7
    <3> QED
      BY <2>2, <3>1, <3>2, OnlySkips
  <2>5. /\ web'.out = Only(SubSeq(a, 1, p + n), "out")
        /\ web'.err = Only(SubSeq(a, 1, p + n), "err")
    BY <1>1, <1>3, <2>4 DEF Parsed, a
  <2> QED
    BY <1>1, <1>3, <1>10, <1>15, <2>5, ParsedMore DEF a, f
<1> HIDE DEF h, g
<1>16. CASE n < 4 /\ cgi' = c /\ UNCHANGED <<aio, pc, code>>
  <2>1. /\ cgi'.header = h /\ cgi'.headerLen = n /\ cgi'.fromAS = g
        /\ cgi'.erBody = cgi.erBody /\ cgi'.readingEndRequestBody = cgi.readingEndRequestBody
        /\ cgi'.exitStatusSet = cgi.exitStatusSet
    BY <1>13, <1>16 DEF HasFields, CgiFields, PendingFields
  <2>2. /\ Parsed(p + n)' /\ cgi'.fromAS \in Seq(AnswerCell) /\ Len(cgi'.fromAS) = Len(f) - n
    BY <1>15, <2>1
  <2>3. cgi'.fromAS = <<>>
    BY <1>2, <1>10, <1>16, <2>2
  <2>4. app.sends = <<>>
    <3>1. n + 1 \in 1 .. 4 /\ i + (n + 1) - 1 = p + Len(f) + 1
      BY <1>2, <1>6, <1>10, <1>16
    <3>2. a[p + Len(f) + 1] = <<"hdr", n + 1, a[i][3], a[i][4], a[i][5], a[i][6]>>
      BY <1>9, <3>1 DEF Record
    <3>3. n + 1 # 1
      BY <1>10
    <3> QED
      BY <1>3, <3>2, <3>3, ReadAtOnce
  <2>5. InHeader(i, p + n)'
    <3>1. NothingLeft'
      BY <1>1, <2>3, <2>4 DEF NothingLeft
    <3>2. n \in 0 .. 3 /\ p + n = i - 1 + n
      BY <1>6, <1>10, <1>16
    <3> QED
      BY <1>1, <1>6, <1>8, <2>1, <3>1, <3>2 DEF InHeader
  <2>6. Parsing(p + n)' /\ p + n \in Nat
    BY <1>1, <1>4, <1>10, <2>5 DEF Parsing
  <2>7. Len(cgi.erBody) = 3
    BY DEF AnswerInv, AnswerTyped
  <2> QED
    BY <1>1, <1>2, <1>11, <1>16, <2>1, <2>2, <2>6, <2>7, GoesOn
<1>17. CASE n = 4
  <2>1. \A k \in 1 .. 4 : h[k] = <<"hdr", k, a[i][3], a[i][4], a[i][5], a[i][6]>>
    BY <1>9, <1>11, <1>17 DEF Record
  <2>2. /\ h[1][1] = "hdr" /\ h[1][2] = 1 /\ h[3][4] = a[i][4]
        /\ h[4][5] = a[i][5] /\ h[4][6] = a[i][6]
    BY <2>1
  <2>3. ASSUME h[3][4] # requestId, Exit(FCGX_PROTOCOL_ERROR)
        PROVE  AnswerInv'
    <3>1. ~ AppCompletes
      <4>1. i \in 1 .. Len(a) /\ a[i][1] = "hdr" /\ a[i][4] # requestId
        BY <1>8, <2>2, <2>3 DEF Starts, Is
      <4> QED
        BY <4>1 DEF AppCompletes, Is
    <3>2. FCGX_PROTOCOL_ERROR[1] # "status"
      BY DEF FCGX_PROTOCOL_ERROR
    <3> QED
      BY <1>1, <2>3, <3>1, <3>2, ErrorStep
  <2>4. ASSUME h[3][4] = requestId, cgi' = d, UNCHANGED <<aio, pc, code>>
        PROVE  AnswerInv'
    <3>1. /\ cgi'.header = h /\ cgi'.headerLen = 4 /\ cgi'.fromAS = g
          /\ cgi'.contentLen = a[i][5] /\ cgi'.paddingLen = a[i][6]
          /\ cgi'.erBody = cgi.erBody /\ cgi'.readingEndRequestBody = cgi.readingEndRequestBody
          /\ cgi'.exitStatusSet = cgi.exitStatusSet
      BY <1>13, <1>17, <2>2, <2>4 DEF HasFields, CgiFields, PendingFields
    <3>2. Parsed(p + n)' /\ cgi'.fromAS \in Seq(AnswerCell)
      BY <1>15, <3>1
    <3>3. /\ a[i][5] \in Nat /\ a[i][6] \in Nat /\ (a[i][3] = "end" => a[i][5] = 3)
          /\ p + n = NextFrom(a, i) - 1 - a[i][5] - a[i][6]
      <4> DEFINE x == NextFrom(a, i)
                 u == a[i][5]
                 v == a[i][6]
      <4>1. u \in Nat /\ v \in Nat /\ x = i + 4 + u + v /\ (a[i][3] = "end" => u = 3)
        BY <1>9 DEF Record
      <4>2. p + n = x - 1 - u - v
        <5> HIDE DEF x, u, v
        <5> QED
          BY <1>6, <1>17, <4>1
      <4> QED
        BY <4>1, <4>2
    <3>4. \A k \in 1 .. 4 : h[k] = a[i + k - 1]
      BY <1>11, <1>17
    <3>5. InBody(i, p + n)'
      <4>1. a[i][5] \in 0 .. a[i][5] /\ a[i][6] \in 0 .. a[i][6] /\ a[i][4] = requestId
        BY <2>2, <2>4, <3>3
      <4> QED
        BY <1>1, <1>6, <1>8, <3>1, <3>3, <3>4, <4>1 DEF InBody
    <3>6. Parsing(p + n)' /\ p + n \in Nat
      BY <1>1, <1>4, <1>10, <3>5 DEF Parsing
    <3>7. Len(cgi.erBody) = 3
      BY DEF AnswerInv, AnswerTyped
    <3> QED
      BY <1>1, <1>2, <1>11, <2>4, <3>1, <3>2, <3>6, <3>7, GoesOn
  <2> QED
    BY <1>12, <1>17, <2>2, <2>3, <2>4
<1> QED
  BY <1>10, <1>12, <1>16, <1>17

\* What EndOfContent does behind the content.
PaddingOf(c) == IF c.contentLen # 0 THEN 0 ELSE Smaller(c.paddingLen, Len(c.fromAS))

\* c and e are the variables before and after EndOfContent, which skips m cells.
EndsContent(c, e, m) ==
    /\ e.header = c.header /\ e.contentLen = c.contentLen /\ e.erBody = c.erBody
    /\ e.readingEndRequestBody = c.readingEndRequestBody
    /\ e.exitStatus = c.exitStatus /\ e.exitStatusSet = c.exitStatusSet
    /\ c.contentLen # 0 => /\ e.fromAS = c.fromAS /\ e.paddingLen = c.paddingLen
                           /\ e.headerLen = c.headerLen
    /\ c.contentLen = 0 =>
         /\ e.fromAS = Drop(c.fromAS, m) /\ e.paddingLen = c.paddingLen - m
         /\ e.headerLen = IF c.paddingLen = m THEN 0 ELSE c.headerLen

LEMMA EndOfContentFields ==
    ASSUME NEW c, HasFields(c, CgiFields)
    PROVE  EndsContent(c, EndOfContent(c), PaddingOf(c))
<1> DEFINE e == EndOfContent(c)
           m == PaddingOf(c)
<1>1. CASE c.contentLen # 0
  <2>1. e = c
    BY <1>1 DEF EndOfContent
  <2> HIDE DEF e, m
  <2> QED
    BY <1>1, <2>1 DEF EndsContent, e, m
<1>2. CASE c.contentLen = 0
  <2> DEFINE l == IF c.paddingLen = m THEN 0 ELSE c.headerLen
             g == Drop(c.fromAS, m)
             q == c.paddingLen - m
  <2>1. e = [c EXCEPT !.paddingLen = q, !.fromAS = g, !.headerLen = l]
    <3>1. m = Smaller(c.paddingLen, Len(c.fromAS))
      BY <1>2 DEF PaddingOf
    <3> HIDE DEF m
    <3> QED
      BY <1>2, <3>1 DEF EndOfContent
  <2> HIDE DEF l, g, q, e, m
  <2>2. /\ e.fromAS = g /\ e.paddingLen = q /\ e.headerLen = l
        /\ e.header = c.header /\ e.contentLen = c.contentLen /\ e.erBody = c.erBody
        /\ e.readingEndRequestBody = c.readingEndRequestBody
        /\ e.exitStatus = c.exitStatus /\ e.exitStatusSet = c.exitStatusSet
    BY <2>1 DEF HasFields, CgiFields, PendingFields
  <2> QED
    BY <1>2, <2>2 DEF l, g, q, EndsContent, e, m
<1> QED
  BY <1>1, <1>2

\* The loop of AppServerReadHandler with a whole header.
LEMMA InRecordLemma ==
    ASSUME AnswerInv, GoodAnswers, NEW types, InRecord(types)
    PROVE  /\ pc = "read" /\ ~ cgi.exitStatusSet /\ Len(cgi.fromAS) \in Nat \ {0}
           /\ \E p \in Nat, i \in Nat \ {0} :
                /\ Parsed(p) /\ Accepted(app.answer, i) /\ InBody(i, p)
                /\ Record(app.answer, i) /\ app.answer[i][3] \in types
<1>1. pc = "read" /\ cgi.fromAS # <<>> /\ cgi.headerLen = 4 /\ cgi.header[2][3] \in types
  BY CgiAssumption DEF InRecord
<1>2. ~ cgi.exitStatusSet /\ Len(cgi.fromAS) \in Nat \ {0}
  BY <1>1, Reading
<1>3. PICK p \in Nat : Parsed(p) /\ Parsing(p)
  BY <1>1, Reading
<1>4. PICK i \in Nat \ {0} : Accepted(app.answer, i) /\ (InHeader(i, p) \/ InBody(i, p))
  BY <1>3 DEF Parsing
<1>5. InBody(i, p)
  BY <1>1, <1>4 DEF InHeader
<1>6. Record(app.answer, i)
  BY <1>5, GoodLength, RecordLemma DEF InBody
<1>7. app.answer[i][3] \in types
  <2> DEFINE a == app.answer
             x == cgi.header[2]
  <2>1. x = a[i + 2 - 1] /\ a[i + 2 - 1] = <<"hdr", 2, a[i][3], a[i][4], a[i][5], a[i][6]>>
    BY <1>5, <1>6 DEF InBody, Record
  <2>2. x[3] \in types
    BY <1>1
  <2> HIDE DEF a, x
  <2>3. x[3] = a[i][3]
    BY <2>1
  <2> QED
    BY <2>2, <2>3 DEF a
<1> QED
  BY <1>1, <1>2, <1>3, <1>4, <1>5, <1>6, <1>7

\* The lengths of what an iteration takes: n cells of content, m of padding.
Takes(n, m, cl, pl, l) ==
    /\ n \in Nat /\ m \in Nat /\ n <= cl /\ m <= pl /\ n + m <= l
    /\ n < cl => m = 0
    /\ n < cl => n = l
    /\ n = cl /\ m < pl => n + m = l

LEMMA TakesLemma ==
    ASSUME NEW cl \in Nat, NEW pl \in Nat, NEW l \in Nat,
           NEW n, n = Smaller(cl, l), NEW m, m = IF cl - n # 0 THEN 0 ELSE Smaller(pl, l - n)
    PROVE  Takes(n, m, cl, pl, l)
BY DEF Smaller, Takes

\* What these cells are.
TakesCells(a, i, p, n, m) ==
    /\ \A j \in p + 1 .. p + n : a[j][1] = ContentOf(a[i][3])
    /\ \A j \in p + n + 1 .. p + n + m : a[j][1] = "pad"
    /\ p + n + m < NextFrom(a, i)

LEMMA TakesRecord ==
    ASSUME NEW a, NEW i \in Nat \ {0}, Record(a, i), NEW cl \in 0 .. a[i][5], NEW pl \in 0 .. a[i][6],
           cl > 0 => pl = a[i][6], NEW p \in Nat, p = NextFrom(a, i) - 1 - cl - pl,
           NEW n, NEW m, NEW l, Takes(n, m, cl, pl, l)
    PROVE  TakesCells(a, i, p, n, m)
<1> DEFINE c == a[i][5]
           d == a[i][6]
           x == NextFrom(a, i)
           y == PadFrom(a, i)
<1>1. /\ c \in Nat /\ d \in Nat /\ y = i + 4 + c /\ x = i + 4 + c + d
      /\ cl \in 0 .. c /\ pl \in 0 .. d /\ (cl > 0 => pl = d) /\ p = x - 1 - cl - pl
  BY DEF Record
<1> HIDE DEF c, d, x, y
<1>2. ASSUME NEW j \in p + 1 .. p + n
      PROVE  j \in i + 4 .. y - 1
  BY <1>1, <1>2 DEF Takes
<1>3. ASSUME NEW j \in p + n + 1 .. p + n + m
      PROVE  j \in y .. x - 1
  BY <1>1, <1>3 DEF Takes
<1>4. p + n + m < x
  BY <1>1 DEF Takes
<1> QED
  BY <1>2, <1>3, <1>4 DEF Record, TakesCells, x, y

\* Where the program is in the record after them.
TakesAfter(p, n, m, cl, pl, x, c, d, z) ==
    /\ p + n + m <= z /\ p + (n + m) = p + n + m /\ p + (n + m) \in Nat
    /\ cl - n = 0 /\ pl = m => p + (n + m) = x - 1 + 0
    /\ cl - n \in 0 .. c /\ pl - m \in 0 .. d
    /\ p + (n + m) = x - 1 - (cl - n) - (pl - m)
    /\ cl - n > 0 => pl - m = d

LEMMA TakesPlace ==
    ASSUME NEW n, NEW m, NEW cl \in Nat, NEW pl \in Nat, NEW l \in Nat, Takes(n, m, cl, pl, l),
           NEW i \in Nat \ {0}, NEW c \in Nat, NEW d \in Nat, NEW z \in Nat, NEW x, x = i + 4 + c + d,
           x <= z + 1, cl <= c, pl <= d, cl > 0 => pl = d, NEW p, p = x - 1 - cl - pl
    PROVE  TakesAfter(p, n, m, cl, pl, x, c, d, z)
<1>1. n \in Nat /\ m \in Nat /\ n <= cl /\ m <= pl /\ (n < cl => m = 0)
  BY DEF Takes
<1>2. p + n + m <= z /\ p + (n + m) = p + n + m /\ p + (n + m) \in Nat
  BY <1>1
<1>3. cl - n = 0 /\ pl = m => p + (n + m) = x - 1 + 0
  BY <1>1
<1>4. cl - n \in 0 .. c /\ pl - m \in 0 .. d
  BY <1>1
<1>5. p + (n + m) = x - 1 - (cl - n) - (pl - m)
  BY <1>1
<1>6. cl - n > 0 => pl - m = d
  BY <1>1
<1> QED
  BY <1>2, <1>3, <1>4, <1>5, <1>6 DEF TakesAfter

\* What the cells add to the output of a kind.
Output(a, p, n, m, content, kind) ==
    Only(SubSeq(a, 1, p + (n + m)), kind) =
        IF kind = content THEN Only(SubSeq(a, 1, p), kind) \o SubSeq(a, p + 1, p + n)
        ELSE Only(SubSeq(a, 1, p), kind)

LEMMA TakesOnly ==
    ASSUME NEW a, a \in Seq(AnswerCell), NEW p \in Nat, NEW n \in Nat, NEW m \in Nat,
           p + n + m <= Len(a), NEW content, content # "pad",
           \A j \in p + 1 .. p + n : a[j][1] = content,
           \A j \in p + n + 1 .. p + n + m : a[j][1] = "pad",
           NEW kind, kind # "pad"
    PROVE  Output(a, p, n, m, content, kind)
<1>1. p + n \in Nat /\ (p + n) + m = p + (n + m) /\ p + n <= Len(a) /\ (p + n) + m <= Len(a)
  <2>1. Len(a) \in Nat
    OBVIOUS
  <2> QED
    BY <2>1
<1>2. \A j \in (p + n) + 1 .. (p + n) + m : ~ Is(a[j], kind)
  BY DEF Is
<1>3. Only(SubSeq(a, 1, p + (n + m)), kind) = Only(SubSeq(a, 1, p + n), kind)
  <2> DEFINE q == p + n
             r == p + (n + m)
  <2>1. q \in Nat /\ q + m = r /\ q + m <= Len(a) /\ \A j \in q + 1 .. q + m : ~ Is(a[j], kind)
    BY <1>1, <1>2
  <2> HIDE DEF q, r
  <2>2. Only(SubSeq(a, 1, q + m), kind) = Only(SubSeq(a, 1, q), kind)
    BY <2>1, OnlySkips
  <2>3. Only(SubSeq(a, 1, r), kind) = Only(SubSeq(a, 1, q), kind)
    BY <2>1, <2>2
  <2> QED
    BY <2>3 DEF q, r
<1>4. CASE kind = content
  <2>1. \A j \in p + 1 .. p + n : Is(a[j], kind)
    BY <1>4 DEF Is
  <2>2. Taken(a, p, n, kind)
    BY <1>1, <2>1, OnlyTakes
  <2> QED
    BY <1>3, <1>4, <2>2 DEF Taken, Output
<1>5. CASE kind # content
  <2>1. \A j \in p + 1 .. p + n : ~ Is(a[j], kind)
    BY <1>5 DEF Is
  <2>2. Only(SubSeq(a, 1, p + n), kind) = Only(SubSeq(a, 1, p), kind)
    BY <1>1, <2>1, OnlySkips
  <2> QED
    BY <1>3, <1>5, <2>2 DEF Output
<1> QED
  BY <1>4, <1>5

\* The cells got are those of the answer.
Got(f, a, p, n) == SubSeq(f, 1, n) = SubSeq(a, p + 1, p + n)

LEMMA GotCells ==
    ASSUME NEW f \in Seq(AnswerCell), NEW a, a \in Seq(AnswerCell), NEW p \in Nat,
           NEW n \in 0 .. Len(f), p + Len(f) <= Len(a), \A j \in 1 .. Len(f) : f[j] = a[p + j]
    PROVE  Got(f, a, p, n)
<1> DEFINE u == SubSeq(f, 1, n)
           v == SubSeq(a, p + 1, p + n)
<1>1. Len(f) \in Nat /\ Len(a) \in Nat
  OBVIOUS
<1>2. u \in Seq(AnswerCell) /\ Len(u) = n /\ \A j \in 1 .. n : u[j] = f[j]
  OBVIOUS
<1>3. v \in Seq(AnswerCell) /\ Len(v) = n /\ \A j \in 1 .. n : v[j] = a[p + j]
  <2>1. p + n <= Len(a)
    BY <1>1
  <2> QED
    BY <1>1, <2>1
<1> HIDE DEF u, v
<1>4. \A j \in 1 .. n : u[j] = v[j]
  <2>1. \A j \in 1 .. n : j \in 1 .. Len(f)
    BY <1>1
  <2> QED
    BY <1>2, <1>3, <2>1
<1>5. u = v
  BY <1>2, <1>3, <1>4, SeqEqual
<1> QED
  BY <1>5 DEF u, v, Got

\* n cells of content are written to stdout or stderr and m cells of padding
\* skipped.
LEMMA ReadOutputStep ==
    ASSUME CgiInv, AnswerInv, GoodAnswers, ReadOutput,
           NEW n, n = GetPtr(cgi.contentLen),
           NEW m, m = IF cgi.contentLen - n # 0 THEN 0
                      ELSE Smaller(cgi.paddingLen, Len(cgi.fromAS) - n)
    PROVE  AnswerInv'
<1> DEFINE f == cgi.fromAS
           a == app.answer
           cl == cgi.contentLen
           pl == cgi.paddingLen
           g == Drop(f, n)
           c == [cgi EXCEPT !.contentLen = cl - n, !.fromAS = g]
           got == SubSeq(f, 1, n)
<1>1. /\ pc = "read" /\ ~ cgi.exitStatusSet /\ Len(f) \in Nat \ {0}
      /\ \E p \in Nat, i \in Nat \ {0} :
           /\ Parsed(p) /\ Accepted(a, i) /\ InBody(i, p)
           /\ Record(a, i) /\ a[i][3] \in {"stdout", "stderr"}
  BY InRecordLemma DEF ReadOutput
<1>2. PICK p \in Nat, i \in Nat \ {0} :
           /\ Parsed(p) /\ Accepted(a, i) /\ InBody(i, p)
           /\ Record(a, i) /\ a[i][3] \in {"stdout", "stderr"}
  BY <1>1
<1>3. /\ cgi.headerLen = 4 /\ i \in Starts(a)
      /\ \A k \in 1 .. 4 : cgi.header[k] = a[i + k - 1]
      /\ a[i][4] = requestId
      /\ cl \in 0 .. a[i][5] /\ pl \in 0 .. a[i][6]
      /\ p = NextFrom(a, i) - 1 - cl - pl
      /\ cl > 0 => pl = a[i][6]
      /\ ~ cgi.readingEndRequestBody
  BY <1>2 DEF InBody
<1>4. a \in Seq(AnswerCell) /\ Len(a) \in Nat /\ f \in Seq(AnswerCell)
  BY GoodLength DEF AnswerInv, AnswerTyped
<1> DEFINE c0 == a[i][5]
           d0 == a[i][6]
           x == NextFrom(a, i)
           z == Len(a)
           l == Len(f)
           content == ContentOf(a[i][3])
<1>5. /\ c0 \in Nat /\ d0 \in Nat /\ x = i + 4 + c0 + d0 /\ x <= z + 1 /\ z \in Nat
      /\ cl \in 0 .. c0 /\ pl \in 0 .. d0 /\ (cl > 0 => pl = d0) /\ p = x - 1 - cl - pl
      /\ l \in Nat
  BY <1>1, <1>2, <1>3, <1>4 DEF Record
<1>6. n = Smaller(cl, l) /\ m = IF cl - n # 0 THEN 0 ELSE Smaller(pl, l - n)
  BY DEF GetPtr
<1> HIDE DEF c0, d0, x, z, l, cl, pl, content
<1>7. Takes(n, m, cl, pl, l)
  <2>1. cl \in Nat /\ pl \in Nat /\ l \in Nat
    BY <1>5
  <2> QED
    BY <1>6, <2>1, TakesLemma
<1>8. /\ n \in Nat /\ m \in Nat /\ n + m \in 0 .. l /\ n \in 0 .. l
      /\ m \in 0 .. l - n /\ n \in 0 .. cl /\ m \in 0 .. pl /\ n + 0 = n
      /\ (n < cl => m = 0)
  BY <1>5, <1>7 DEF Takes
<1>24. TakesCells(a, i, p, n, m)
  <2>1. /\ cl \in 0 .. a[i][5] /\ pl \in 0 .. a[i][6] /\ (cl > 0 => pl = a[i][6])
        /\ p = NextFrom(a, i) - 1 - cl - pl
    BY <1>5 DEF c0, d0, x
  <2> HIDE DEF a
  <2> QED
    BY <1>2, <1>7, <2>1, TakesRecord
<1>25. /\ \A j \in p + 1 .. p + n : a[j][1] = content
       /\ \A j \in p + n + 1 .. p + n + m : a[j][1] = "pad"
       /\ p + n + m < x
  BY <1>24 DEF TakesCells, content, x
<1>9. /\ HasFields(c, CgiFields)
      /\ c.contentLen = cl - n /\ c.fromAS = g /\ c.header = cgi.header
      /\ c.headerLen = 4 /\ c.paddingLen = pl /\ c.erBody = cgi.erBody
      /\ c.readingEndRequestBody = cgi.readingEndRequestBody
      /\ c.exitStatusSet = cgi.exitStatusSet
  <2>1. HasFields(cgi, CgiFields)
    BY DEF CgiInv, PendingInv, CgiTyped
  <2>2. cgi.headerLen = 4
    BY <1>3
  <2> DEFINE v == cl - n
  <2> HIDE DEF g, v
  <2>3. /\ HasFields(c, CgiFields)
        /\ c.contentLen = v /\ c.fromAS = g /\ c.header = cgi.header
        /\ c.headerLen = 4 /\ c.paddingLen = cgi.paddingLen /\ c.erBody = cgi.erBody
        /\ c.readingEndRequestBody = cgi.readingEndRequestBody
        /\ c.exitStatusSet = cgi.exitStatusSet
    BY <2>1, <2>2 DEF HasFields, CgiFields, PendingFields, v
  <2> HIDE DEF c
  <2> QED
    BY <2>3 DEF v, pl
<1>10. /\ cgi' = EndOfContent(c) /\ UNCHANGED <<aio, pc, from, app, code>>
       /\ web' = IF cgi.header[2][3] = "stdout" THEN [web EXCEPT !.out = @ \o got]
                 ELSE [web EXCEPT !.err = @ \o got]
  BY DEF ReadOutput, cl
<1>11. g \in Seq(AnswerCell) /\ Len(g) = l - n /\ Drop(g, m) = Drop(f, n + m)
  <2>1. n \in 0 .. Len(f) /\ m \in 0 .. Len(f) - n
    BY <1>8 DEF l
  <2> HIDE DEF f
  <2>2. Drop(f, n) \in Seq(AnswerCell) /\ Len(Drop(f, n)) = Len(f) - n
    BY <1>4, <2>1, DropLemma
  <2>3. Drop(Drop(f, n), m) = Drop(f, n + m)
    BY <1>4, <2>1, DropTwice
  <2> QED
    BY <2>2, <2>3 DEF l
<1> HIDE DEF c, g
<1>13. /\ cgi'.header = cgi.header /\ cgi'.contentLen = cl - n /\ cgi'.erBody = cgi.erBody
       /\ cgi'.readingEndRequestBody = cgi.readingEndRequestBody
       /\ cgi'.exitStatusSet = cgi.exitStatusSet
       /\ cgi'.fromAS = Drop(f, n + m) /\ cgi'.paddingLen = pl - m
       /\ cgi'.headerLen = IF cl - n = 0 /\ pl = m THEN 0 ELSE 4
  <2>1. m = PaddingOf(c)
    BY <1>6, <1>9, <1>11 DEF PaddingOf
  <2>2. EndsContent(c, cgi', m)
    BY <1>9, <1>10, <2>1, EndOfContentFields
  <2>3. CASE cl - n # 0
    <3>1. m = 0 /\ pl - m = pl /\ Drop(f, n + m) = g
      BY <1>5, <1>6, <1>8, <2>3 DEF g
    <3> QED
      BY <1>9, <2>2, <2>3, <3>1 DEF EndsContent
  <2>4. CASE cl - n = 0
    BY <1>9, <1>11, <2>2, <2>4 DEF EndsContent
  <2> QED
    BY <2>3, <2>4
<1>26. TakesAfter(p, n, m, cl, pl, x, c0, d0, z)
  <2>1. /\ cl \in Nat /\ pl \in Nat /\ c0 \in Nat /\ d0 \in Nat /\ z \in Nat /\ l \in Nat
        /\ cl <= c0 /\ pl <= d0 /\ i \in Nat \ {0}
    BY <1>5
  <2> QED
    BY <1>5, <1>7, <2>1, TakesPlace
<1>14. p + n + m <= z /\ p + (n + m) = p + n + m /\ p + (n + m) \in Nat
  BY <1>26 DEF TakesAfter
<1>15. got = SubSeq(a, p + 1, p + n)
  <2> DEFINE w == Len(app.sends)
  <2>1. w \in Nat
    BY DEF AnswerInv, AnswerTyped
  <2>2. p + l + w <= z /\ \A j \in 1 .. Len(f) : f[j] = a[p + j]
    BY <1>2 DEF Parsed, l, z
  <2> HIDE DEF w, f, a
  <2>3. p + l <= z
    BY <1>5, <2>1, <2>2
  <2>4. p + Len(f) <= Len(a) /\ n \in 0 .. Len(f)
    BY <1>8, <2>3 DEF l, z
  <2>5. Got(f, a, p, n)
    BY <1>4, <2>2, <2>4, GotCells
  <2> QED
    BY <2>5 DEF Got
<1> DEFINE Out == Only(SubSeq(a, 1, p + (n + m)), "out")
           Err == Only(SubSeq(a, 1, p + (n + m)), "err")
<1>16. /\ content = IF a[i][3] = "stdout" THEN "out" ELSE "err"
       /\ content # "pad"
  BY <1>2 DEF ContentOf, content
<1>17. ASSUME NEW kind \in {"out", "err"}
       PROVE  Output(a, p, n, m, content, kind)
  <2>1. kind # "pad" /\ p + n + m <= Len(a)
    BY <1>14 DEF z
  <2> HIDE DEF a
  <2> QED
    BY <1>4, <1>8, <1>25, <1>16, <2>1, TakesOnly
<1>18. cgi.header[2][3] = a[i][3]
  <2> DEFINE h == cgi.header[2]
  <2>1. h = a[i + 2 - 1]
    BY <1>3
  <2> HIDE DEF h, a
  <2>2. a[i + 2 - 1] = <<"hdr", 2, a[i][3], a[i][4], a[i][5], a[i][6]>>
    BY <1>2 DEF Record
  <2>3. h[3] = a[i][3]
    BY <2>1, <2>2
  <2> QED
    BY <2>3 DEF h
<1>19. web'.out = Out /\ web'.err = Err
  <2>1. /\ web.out = Only(SubSeq(a, 1, p), "out") /\ web.err = Only(SubSeq(a, 1, p), "err")
    BY <1>2 DEF Parsed
  <2>2. HasFields(web, {"stdin", "out", "err", "all"})
    BY DEF CgiInv, RelayInv
  <2> DEFINE O == Only(SubSeq(a, 1, p), "out")
             E == Only(SubSeq(a, 1, p), "err")
             P == SubSeq(a, p + 1, p + n)
  <2>3. /\ Out = IF "out" = content THEN O \o P ELSE O
        /\ Err = IF "err" = content THEN E \o P ELSE E
    BY <1>17 DEF Output
  <2>4. got = P /\ web.out = O /\ web.err = E
    BY <1>15, <2>1
  <2> HIDE DEF O, E, P, Out, Err, got, content, a
  <2>5. CASE a[i][3] = "stdout"
    <3> DEFINE W == O \o P
    <3>1. web' = [web EXCEPT !.out = W]
      BY <1>10, <1>18, <2>4, <2>5
    <3>2. Out = W /\ Err = E
      BY <1>16, <2>3, <2>5
    <3> HIDE DEF W
    <3> QED
      BY <2>2, <2>4, <3>1, <3>2 DEF HasFields
  <2>6. CASE a[i][3] # "stdout"
    <3> DEFINE W == E \o P
    <3>1. web' = [web EXCEPT !.err = W]
      BY <1>10, <1>18, <2>4, <2>6
    <3>2. Out = O /\ Err = W
      BY <1>16, <2>3, <2>6
    <3> HIDE DEF W
    <3> QED
      BY <2>2, <2>4, <3>1, <3>2 DEF HasFields
  <2> QED
    BY <2>5, <2>6
<1>20. Parsed(p + (n + m))' /\ cgi'.fromAS \in Seq(AnswerCell)
  <2>1. app' = app
    BY <1>10
  <2> HIDE DEF got
  <2> QED
    BY <1>2, <1>8, <1>13, <1>19, <2>1, ParsedMore DEF l
<1>21. Parsing(p + (n + m))'
  <2>0. app' = app
    BY <1>10
  <2>1. CASE cl - n = 0 /\ pl = m
    <3>1. Accepted(a, x) /\ x \in Nat \ {0}
      BY <1>2, <1>3, <1>4, AcceptedNext DEF x
    <3>2. p + (n + m) = x - 1 + 0 /\ 0 \in 0 .. 3
      BY <1>26, <2>1 DEF TakesAfter
    <3>3. x \in Starts(a) \/ x = Len(a) + 1
      BY <1>2 DEF Record, x
    <3>4. cgi'.headerLen = 0 /\ ~ cgi'.readingEndRequestBody
      BY <1>3, <1>13, <2>1
    <3>5. PICK u \in Nat \ {0} : /\ Accepted(a, u) /\ (u \in Starts(a) \/ u = Len(a) + 1)
                                 /\ p + (n + m) = u - 1 + 0
      BY <3>1, <3>2, <3>3
    <3>6. InHeader(u, p + (n + m))'
      BY <2>0, <3>2, <3>4, <3>5 DEF InHeader
    <3> QED
      BY <2>0, <3>5, <3>6 DEF Parsing
  <2>2. CASE ~ (cl - n = 0 /\ pl = m)
    <3>1. /\ cl - n \in 0 .. c0 /\ pl - m \in 0 .. d0 /\ p + (n + m) = x - 1 - (cl - n) - (pl - m)
          /\ (cl - n > 0 => pl - m = d0)
      BY <1>26 DEF TakesAfter
    <3>2. cgi'.headerLen = 4 /\ ~ cgi'.readingEndRequestBody
      BY <1>3, <1>13, <2>2
    <3>3. a[i][3] # "end"
      BY <1>2
    <3> HIDE DEF f
    <3>4. InBody(i, p + (n + m))'
      BY <1>3, <1>13, <2>0, <3>1, <3>2, <3>3 DEF InBody, x, c0, d0
    <3> QED
      BY <1>2, <2>0, <3>4 DEF Parsing
  <2> QED
    BY <2>1, <2>2
<1>22. Len(cgi'.header) = 4 /\ Len(cgi'.erBody) = 3
  BY <1>13 DEF AnswerInv, AnswerTyped
<1>23. ~ cgi'.exitStatusSet
  BY <1>1, <1>13
<1> QED
  BY <1>1, <1>10, <1>14, <1>20, <1>21, <1>22, <1>23, GoesOn

-----------------------------------------------------------------------------
(* The end of the request *)

\* What is known of an answer whose record at i ends the request: its body is
\* behind cell p, and only there.
Ended(a, p) ==
    /\ Len(Only(a, "body")) = 3 /\ \A k \in 1 .. 3 : Only(a, "body")[k] = a[p + k]
    /\ \A j \in 1 .. Len(a) : a[j][1] = "hdr" => a[j][3] # "other" /\ a[j][4] = requestId
    /\ \A kind \in {"out", "err"}, q \in p .. Len(a) :
         Only(SubSeq(a, 1, q), kind) = Only(SubSeq(a, 1, p), kind)

\* A sequence is its own longest beginning.
LEMMA WholeSubSeq ==
    ASSUME NEW C, NEW s \in Seq(C)
    PROVE  SubSeq(s, 1, Len(s)) = s
<1> DEFINE t == SubSeq(s, 1, Len(s))
<1>1. t \in Seq(C) /\ Len(t) = Len(s) /\ \A j \in 1 .. Len(s) : t[j] = s[j]
  OBVIOUS
<1> HIDE DEF t
<1>2. t = s
  BY <1>1, SeqEqual
<1> QED
  BY <1>2 DEF t

\* An FCGI_END_REQUEST at i with d cells of padding ends the z cells.
EndsAnswer(i, d, z) == z = i + 6 + d

LEMMA LastPlace ==
    ASSUME NEW i \in Nat, NEW d \in Nat, NEW z \in Nat, z + 1 = i + 4 + 3 + d
    PROVE  EndsAnswer(i, d, z)
BY DEF EndsAnswer

LEMMA EndRecord ==
    ASSUME NEW a, a \in Seq(AnswerCell), NEW i \in Nat \ {0}, Record(a, i), Accepted(a, i),
           a[i][3] = "end", a[i][4] = requestId
    PROVE  Ended(a, i + 3)
<1> DEFINE d == a[i][6]
           z == Len(a)
           p == i + 3
<1>1. /\ d \in Nat /\ a[i][5] = 3 /\ NextFrom(a, i) = z + 1 /\ NextFrom(a, i) = i + 4 + 3 + d
      /\ PadFrom(a, i) = i + 4 + 3 /\ z \in Nat
  BY DEF Record
<1>2. p \in Nat /\ p = i + 3 /\ z = i + 6 + d /\ i \in Nat \ {0}
  <2> DEFINE x == NextFrom(a, i)
  <2>1. x = z + 1 /\ x = i + 4 + 3 + d /\ z \in Nat /\ d \in Nat
    BY <1>1
  <2> HIDE DEF d, z, x
  <2>2. z + 1 = i + 4 + 3 + d
    BY <2>1
  <2>3. EndsAnswer(i, d, z)
    BY <2>1, <2>2, LastPlace
  <2>4. z = i + 6 + d
    BY <2>3 DEF EndsAnswer
  <2>5. p \in Nat /\ p = i + 3
    OBVIOUS
  <2> QED
    BY <2>4, <2>5
<1>3. \A j \in i .. i + 3 : a[j][1] = "hdr" /\ a[j][3] = "end" /\ a[j][4] = requestId
  BY DEF Record
<1>4. \A j \in i + 4 .. i + 6 : a[j][1] = "body"
  <2>1. \A j \in i + 4 .. i + 6 : j \in i + 4 .. PadFrom(a, i) - 1
    BY <1>1
  <2>2. ContentOf(a[i][3]) = "body"
    BY DEF ContentOf
  <2> QED
    BY <2>1, <2>2 DEF Record
<1>5. \A j \in i + 7 .. z : a[j][1] = "pad"
  <2>1. \A j \in i + 7 .. z : j \in PadFrom(a, i) .. NextFrom(a, i) - 1
    BY <1>1
  <2> QED
    BY <2>1 DEF Record
<1> HIDE DEF d, z, p
<1>6. ASSUME NEW j \in 1 .. z, a[j][1] = "hdr"
      PROVE  a[j][3] # "other" /\ a[j][4] = requestId
  <2>1. j \in 1 .. i - 1 \/ j \in i .. i + 3 \/ j \in i + 4 .. i + 6 \/ j \in i + 7 .. z
    BY <1>2
  <2> QED
    BY <1>3, <1>4, <1>5, <1>6, <2>1 DEF Accepted
<1>7. ASSUME NEW kind \in {"out", "err"}, NEW q \in p .. z
      PROVE  Only(SubSeq(a, 1, q), kind) = Only(SubSeq(a, 1, p), kind)
  <2> DEFINE k == q - p
  <2>1. k \in Nat /\ p + k = q /\ q <= z
    BY <1>1, <1>2
  <2>2. \A j \in p + 1 .. q : j \in i + 4 .. i + 6 \/ j \in i + 7 .. z
    BY <1>1, <1>2
  <2>3. \A j \in p + 1 .. q : ~ Is(a[j], kind)
    BY <1>4, <1>5, <2>2 DEF Is
  <2>4. p + k <= Len(a) /\ \A j \in p + 1 .. p + k : ~ Is(a[j], kind)
    BY <2>1, <2>3 DEF z
  <2> HIDE DEF k
  <2>5. Only(SubSeq(a, 1, p + k), kind) = Only(SubSeq(a, 1, p), kind)
    BY <1>2, <2>1, <2>4, OnlySkips
  <2> QED
    BY <2>1, <2>5
<1>8. Only(SubSeq(a, 1, p), "body") = <<>>
  <2> DEFINE o == i - 1
  <2>1. o \in Nat /\ o + 4 = p /\ p <= z
    BY <1>1, <1>2
  <2>2. \A j \in o + 1 .. o + 4 : j \in i .. i + 3
    OBVIOUS
  <2>3. o + 4 <= Len(a) /\ \A j \in o + 1 .. o + 4 : ~ Is(a[j], "body")
    BY <1>3, <2>1, <2>2 DEF Is, z
  <2>4. Only(SubSeq(a, 1, o), "body") = <<>>
    BY DEF Accepted
  <2> HIDE DEF o
  <2>5. Only(SubSeq(a, 1, o + 4), "body") = Only(SubSeq(a, 1, o), "body")
    BY <2>1, <2>3, OnlySkips
  <2> QED
    BY <2>1, <2>4, <2>5
<1> DEFINE b == SubSeq(a, p + 1, p + 3)
<1>9. b \in Seq(AnswerCell) /\ Len(b) = 3 /\ \A k \in 1 .. 3 : b[k] = a[p + k]
  <2>1. p + 3 <= Len(a)
    BY <1>1, <1>2 DEF z
  <2> QED
    BY <1>2, <2>1
<1>10. Only(SubSeq(a, 1, p + 3), "body") = b
  <2>1. \A j \in p + 1 .. p + 3 : j \in i + 4 .. i + 6
    BY <1>2
  <2>2. p + 3 <= Len(a) /\ \A j \in p + 1 .. p + 3 : Is(a[j], "body")
    BY <1>1, <1>2, <1>4, <2>1 DEF Is, z
  <2>3. Taken(a, p, 3, "body")
    BY <1>2, <2>2, OnlyTakes
  <2>4. Only(SubSeq(a, 1, p + 3), "body") = <<>> \o b
    BY <1>8, <2>3 DEF Taken
  <2> HIDE DEF b
  <2>5. <<>> \o b = b
    BY <1>9
  <2> QED
    BY <2>4, <2>5
<1> HIDE DEF b
<1>11. Only(a, "body") = b
  <2> DEFINE o == p + 3
  <2>1. o \in Nat /\ o + d = Len(a) /\ d \in Nat /\ o + d <= Len(a)
    BY <1>1, <1>2 DEF z
  <2>2. \A j \in o + 1 .. o + d : j \in i + 7 .. z
    BY <1>1, <1>2
  <2>3. \A j \in o + 1 .. o + d : ~ Is(a[j], "body")
    BY <1>5, <2>2 DEF Is
  <2>4. Only(SubSeq(a, 1, o), "body") = b
    BY <1>10
  <2> HIDE DEF o
  <2>5. Only(SubSeq(a, 1, o + d), "body") = Only(SubSeq(a, 1, o), "body")
    BY <2>1, <2>3, OnlySkips
  <2>6. SubSeq(a, 1, Len(a)) = a
    BY WholeSubSeq
  <2> QED
    BY <2>1, <2>4, <2>5, <2>6
<1>12. Ended(a, p)
  BY <1>6, <1>7, <1>9, <1>11 DEF Ended, z
<1> QED
  BY <1>12 DEF p

\* The program has read the status of a completed request.
LEMMA CompletedStep ==
    ASSUME CgiInv, AnswerInv, GoodAnswers, pc = "read", UNCHANGED <<web, app, pc, from, code>>,
           NEW p \in Nat, Parsed(p), Ended(app.answer, p),
           app.answer[p + 3][3] = 0,
           cgi'.exitStatusSet, cgi'.exitStatus = 256 * app.answer[p + 1][3] + app.answer[p + 2][3],
           NEW l, l = Len(cgi.fromAS), cgi'.fromAS = Drop(cgi.fromAS, l),
           Len(cgi'.header) = 4, Len(cgi'.erBody) = 3
    PROVE  AnswerInv'
<1> DEFINE a == app.answer
<1>1. a \in Seq(AnswerCell) /\ Len(a) \in Nat
  BY GoodLength
<1>2. l \in Nat /\ p + l \in p .. Len(a) /\ l \in 0 .. Len(cgi.fromAS) /\ p + l \in Nat
  <2> DEFINE w == Len(app.sends)
             z == Len(a)
  <2>1. w \in Nat /\ l \in Nat /\ z \in Nat
    BY <1>1 DEF AnswerInv, AnswerTyped
  <2>2. p + l + w <= z
    BY DEF Parsed
  <2> HIDE DEF w, z
  <2>3. l \in Nat /\ p + l \in p .. z /\ l \in 0 .. l /\ p + l \in Nat
    BY <2>1, <2>2
  <2> QED
    BY <2>3 DEF z
<1>3. /\ web.out = Only(SubSeq(a, 1, p), "out") /\ web.err = Only(SubSeq(a, 1, p), "err")
  BY DEF Parsed
<1>4. \A u \in p .. Len(a) : /\ web.out = Only(SubSeq(a, 1, u), "out")
                             /\ web.err = Only(SubSeq(a, 1, u), "err")
  BY <1>3 DEF Ended
<1>5. /\ Parsed(p + l)' /\ cgi'.fromAS \in Seq(AnswerCell) /\ Len(cgi'.fromAS) = l - l
  <2>1. /\ web'.out = Only(SubSeq(app.answer, 1, p + l), "out")
        /\ web'.err = Only(SubSeq(app.answer, 1, p + l), "err")
    BY <1>2, <1>4
  <2> QED
    BY <1>2, <2>1, ParsedMore
<1>6. cgi'.fromAS = <<>>
  <2>1. Len(cgi'.fromAS) = 0
    BY <1>2, <1>5
  <2> QED
    BY <1>5, <2>1
<1>7. web.out = Only(a, "out") /\ web.err = Only(a, "err")
  <2>1. SubSeq(a, 1, Len(a)) = a
    BY <1>1, WholeSubSeq
  <2>2. Len(a) \in p .. Len(a)
    BY <1>1, <1>2
  <2> QED
    BY <1>4, <2>1, <2>2
<1>8. Told'
  <2>1. /\ Len(Only(a, "body")) = 3 /\ \A k \in 1 .. 3 : Only(a, "body")[k] = a[p + k]
        /\ \A j \in 1 .. Len(a) : a[j][1] = "hdr" => a[j][3] # "other" /\ a[j][4] = requestId
    BY DEF Ended
  <2>2. /\ Only(a, "body")[1] = a[p + 1] /\ Only(a, "body")[2] = a[p + 2]
        /\ Only(a, "body")[3] = a[p + 3]
    BY <2>1
  <2>3. AppCompletes
    BY <2>1, <2>2, CgiAssumption DEF AppCompletes, Is
  <2>4. cgi'.exitStatus = AppStatus
    BY <2>2 DEF AppStatus
  <2> QED
    BY <1>7, <2>3, <2>4 DEF Told, AppCompletes, AppStatus
<1>9. AnswerTyped' /\ Placed' /\ Reasons'
  BY <1>5 DEF AnswerInv, AnswerTyped, Placed, Reasons, Whole
<1>10. (~ IgnoresInput /\ app.closed /\ ~ app.died => AppGotEof)'
  BY DEF AnswerInv, AppGotEof
<1>11. \E u \in Nat : Parsed(u)'
  BY <1>2, <1>5
<1> QED
  BY <1>6, <1>8, <1>9, <1>10, <1>11 DEF AnswerInv

\* Where the last record is: l cells of its body and its padding are read,
\* of which n are parsed.
EndsAt(i, p, n, l, d, x, z) ==
    /\ p = i + 3 /\ z = p + 3 + d /\ x = i + 7 + d /\ p + l <= z
    /\ p + n = x - 1 - (3 - n) - d
    /\ l - n \in Nat /\ (n = 3 => l - n <= d)

LEMMA EndPlace ==
    ASSUME NEW i \in Nat \ {0}, NEW d \in Nat, NEW z \in Nat, NEW w \in Nat, NEW l \in Nat,
           NEW n \in 0 .. 3, n <= l, NEW x, x = z + 1, NEW u, u = 3, x = i + 4 + u + d,
           NEW p, p = x - 1 - 3 - d, p + l + w <= z
    PROVE  EndsAt(i, p, n, l, d, x, z)
<1>1. p = i + 3 /\ z = p + 3 + d /\ x = i + 7 + d /\ p + l <= z
  OBVIOUS
<1>2. p + n = x - 1 - (3 - n) - d
  OBVIOUS
<1>3. l - n \in Nat /\ (n = 3 => l - n <= d)
  BY <1>1
<1> QED
  BY <1>1, <1>2, <1>3 DEF EndsAt

\* FCGI_END_REQUEST: its body is read at once, unless the application died
\* inside it, and ends the request or the program.
LEMMA ReadEndRequestStep ==
    ASSUME CgiInv, AnswerInv, GoodAnswers, ReadEndRequest, NEW n, n = GetPtr(3),
           NEW l, l = Len(cgi.fromAS)
    PROVE  AnswerInv'
<1> DEFINE f == cgi.fromAS
           a == app.answer
           h == Overlay(cgi.erBody, n)
           g == Drop(f, n)
           v == 3 - n
           st == 256 * h[1][3] + h[2][3]
           c == [cgi EXCEPT !.erBody = h, !.contentLen = v, !.fromAS = g]
           full == [c EXCEPT !.readingEndRequestBody = FALSE, !.exitStatusSet = TRUE,
                             !.exitStatus = st]
<1>1. /\ pc = "read" /\ ~ cgi.exitStatusSet /\ l \in Nat \ {0}
      /\ \E p \in Nat, i \in Nat \ {0} :
           /\ Parsed(p) /\ Accepted(a, i) /\ InBody(i, p)
           /\ Record(a, i) /\ a[i][3] \in {"end"}
  BY InRecordLemma DEF ReadEndRequest
<1>2. PICK p \in Nat, i \in Nat \ {0} :
           /\ Parsed(p) /\ Accepted(a, i) /\ InBody(i, p)
           /\ Record(a, i) /\ a[i][3] = "end"
  BY <1>1
<1>3. /\ cgi.headerLen = 4 /\ i \in Starts(a)
      /\ \A k \in 1 .. 4 : cgi.header[k] = a[i + k - 1]
      /\ a[i][4] = requestId
      /\ p = NextFrom(a, i) - 1 - cgi.contentLen - cgi.paddingLen
      /\ cgi.contentLen = 3 /\ ~ cgi.readingEndRequestBody
      /\ cgi.paddingLen = a[i][6]
  <2>1. ~ NothingLeft
    BY <1>1 DEF NothingLeft
  <2>2. cgi.contentLen = 3 /\ ~ cgi.readingEndRequestBody
    <3>1. \/ cgi.contentLen = 3 /\ ~ cgi.readingEndRequestBody
          \/ cgi.contentLen > 0 /\ NothingLeft
      BY <1>2 DEF InBody
    <3> QED
      BY <2>1, <3>1
  <2>3. 3 > 0
    OBVIOUS
  <2> QED
    BY <1>2, <2>2, <2>3 DEF InBody
<1>4. /\ a \in Seq(AnswerCell) /\ f \in Seq(AnswerCell) /\ app.sends \in Seq(AnswerCell)
      /\ Len(cgi.header) = 4 /\ Len(cgi.erBody) = 3
  BY GoodLength DEF AnswerInv, AnswerTyped
<1> DEFINE d == a[i][6]
           x == NextFrom(a, i)
           z == Len(a)
<1>7. n \in 1 .. 3 /\ n <= l /\ (n < 3 => n = l) /\ n \in 0 .. l
  <2>1. n = IF 3 <= l THEN 3 ELSE l
    BY DEF GetPtr, Smaller
  <2> QED
    BY <1>1, <2>1
<1>5. d \in Nat /\ z \in Nat /\ EndsAt(i, p, n, l, d, x, z)
  <2> DEFINE w == Len(app.sends)
             u == a[i][5]
             cl == cgi.contentLen
             pl == cgi.paddingLen
  <2>1. d \in Nat /\ z \in Nat /\ x = z + 1 /\ u = 3 /\ x = i + 4 + u + d
    BY <1>2, <1>4 DEF Record
  <2>2. w \in Nat
    BY <1>4
  <2>3. p + l + w <= z
    BY <1>2 DEF Parsed
  <2>4. p = x - 1 - cl - pl /\ cl = 3 /\ pl = d
    BY <1>3
  <2> HIDE DEF d, x, z, w, u, cl, pl
  <2>5. p = x - 1 - 3 - d
    BY <2>4
  <2>6. n \in 0 .. 3 /\ n <= l /\ l \in Nat
    BY <1>1, <1>7
  <2>7. EndsAt(i, p, n, l, d, x, z)
    BY <2>1, <2>2, <2>3, <2>5, <2>6, EndPlace
  <2> QED
    BY <2>1, <2>7
<1> HIDE DEF d, x, z
<1>6. p = i + 3 /\ z = p + 3 + d /\ p + l <= z
  BY <1>5 DEF EndsAt
<1>8. \A k \in 1 .. 3 : a[p + k][1] = "body" /\ a[p + k][2] = k
  <2> SUFFICES ASSUME NEW k \in 1 .. 3 PROVE a[p + k][1] = "body" /\ a[p + k][2] = k
    OBVIOUS
  <2>1. p + k \in i + 4 .. PadFrom(a, i) - 1 /\ p + k = i + 3 + k
    <3>1. PadFrom(a, i) = i + 4 + 3
      BY <1>2 DEF Record
    <3>2. p + k \in i + 4 .. (i + 4 + 3) - 1 /\ p + k = i + 3 + k
      BY <1>6
    <3> QED
      BY <3>1, <3>2
  <2>2. a[p + k][1] = ContentOf(a[i][3])
    BY <1>2, <2>1 DEF Record
  <2>3. a[i + 3 + k][2] = k
    BY <1>2 DEF Record
  <2> QED
    BY <1>2, <2>1, <2>2, <2>3 DEF ContentOf
<1>9. Len(h) = 3 /\ \A k \in 1 .. n : h[k] = a[p + k]
  <2> DEFINE s == cgi.erBody
  <2>1. Len(s) = 3 /\ 3 \in Nat
    BY <1>4
  <2> HIDE DEF s
  <2>2. /\ Len(Overlay(s, n)) = 3
        /\ \A k \in 1 .. 3 : Overlay(s, n)[k] = IF k <= n THEN cgi.fromAS[k] ELSE s[k]
    BY <2>1, OverlayLemma
  <2>3. \A k \in 1 .. l : cgi.fromAS[k] = a[p + k]
    BY <1>2 DEF Parsed
  <2>4. \A k \in 1 .. n : k \in 1 .. l /\ k \in 1 .. 3 /\ k <= n
    BY <1>1, <1>7
  <2> QED
    BY <2>2, <2>3, <2>4 DEF s
<1>10. /\ UNCHANGED <<from, web, app>>
       /\ \/ n < 3 /\ cgi' = [c EXCEPT !.readingEndRequestBody = TRUE] /\ UNCHANGED <<aio, pc, code>>
          \/ n = 3 /\ h[3][3] # 0 /\ Exit(FCGX_PROTOCOL_ERROR)
          \/ n = 3 /\ h[3][3] = 0 /\ cgi' = EndOfContent(full) /\ UNCHANGED <<aio, pc, code>>
  <2>1. c.contentLen = v
    BY DEF CgiInv, PendingInv, CgiTyped, HasFields, CgiFields
  <2>2. /\ UNCHANGED <<from, web, app>>
        /\ IF c.contentLen > 0
             THEN cgi' = [c EXCEPT !.readingEndRequestBody = TRUE] /\ UNCHANGED <<aio, pc, code>>
           ELSE IF h[3][3] # 0
             THEN Exit(FCGX_PROTOCOL_ERROR)
           ELSE cgi' = EndOfContent(full) /\ UNCHANGED <<aio, pc, code>>
    BY <1>3, CgiAssumption DEF ReadEndRequest
  <2>3. v > 0 <=> n < 3
    BY <1>7
  <2> HIDE DEF c, h, full, v
  <2> QED
    BY <1>7, <2>1, <2>2, <2>3
<1>11. HasFields(cgi, CgiFields)
  BY DEF CgiInv, PendingInv, CgiTyped
<1>12. Ended(a, p)
  BY <1>2, <1>3, <1>4, <1>6, EndRecord
<1>13. /\ g \in Seq(AnswerCell) /\ Len(g) = l - n
  <2> HIDE DEF f
  <2>1. n \in 0 .. Len(f)
    BY <1>7 DEF f
  <2>2. Drop(f, n) \in Seq(AnswerCell) /\ Len(Drop(f, n)) = Len(f) - n
    BY <1>4, <2>1, DropLemma
  <2> QED
    BY <2>2 DEF f
<1> HIDE DEF h, v, st
<1>14. ASSUME n < 3, cgi' = [c EXCEPT !.readingEndRequestBody = TRUE], UNCHANGED <<aio, pc, code>>
       PROVE  AnswerInv'
  <2> HIDE DEF g
  <2>1. /\ cgi'.header = cgi.header /\ cgi'.headerLen = 4 /\ cgi'.fromAS = g
        /\ cgi'.erBody = h /\ cgi'.contentLen = v /\ cgi'.paddingLen = cgi.paddingLen
        /\ cgi'.exitStatusSet = cgi.exitStatusSet
    BY <1>3, <1>11, <1>14 DEF HasFields, CgiFields, PendingFields
  <2>2. Len(g) = 0 /\ g = <<>>
    <3>1. Len(g) = 0
      BY <1>1, <1>7, <1>13, <1>14
    <3> QED
      BY <1>13, <3>1
  <2>3. app.sends = <<>>
    <3>1. n + 1 \in 1 .. 3 /\ n + 1 # 1 /\ p + Len(cgi.fromAS) + 1 = p + (n + 1)
      BY <1>7, <1>14
    <3>2. a[p + Len(cgi.fromAS) + 1][1] = "body" /\ a[p + Len(cgi.fromAS) + 1][2] = n + 1
      BY <1>8, <3>1
    <3> QED
      BY <1>2, <3>1, <3>2, ReadAtOnce
  <2>4. Parsed(p + n)'
    <3>1. n \in 0 .. Len(cgi.fromAS) /\ cgi'.fromAS = Drop(cgi.fromAS, n)
      BY <1>7, <2>1 DEF g
    <3>2. p + n \in p .. Len(a)
      BY <1>1, <1>5, <1>6, <1>7 DEF z
    <3>3. /\ web'.out = Only(SubSeq(a, 1, p + n), "out")
          /\ web'.err = Only(SubSeq(a, 1, p + n), "err")
      BY <1>2, <1>10, <1>12, <3>2 DEF Ended, Parsed
    <3> QED
      BY <1>2, <1>10, <3>1, <3>3, ParsedMore
  <2>5. InBody(i, p + n)'
    <3>1. NothingLeft'
      BY <1>10, <2>1, <2>2, <2>3 DEF NothingLeft
    <3>2. v \in 0 .. 3 /\ v > 0 /\ p + n = x - 1 - v - d /\ d \in 0 .. d
      <4>1. v \in 0 .. 3 /\ v > 0
        BY <1>7, <1>14 DEF v
      <4>2. p + n = x - 1 - v - d
        BY <1>5 DEF v, EndsAt
      <4> QED
        BY <1>5, <4>1, <4>2
    <3>3. a[i][5] = 3
      BY <1>2 DEF Record
    <3>4. cgi'.contentLen \in 0 .. a[i][5] /\ cgi'.paddingLen \in 0 .. a[i][6]
          /\ cgi'.contentLen > 0 /\ cgi'.paddingLen = a[i][6]
          /\ p + n = NextFrom(a, i) - 1 - cgi'.contentLen - cgi'.paddingLen
      BY <1>3, <2>1, <3>2, <3>3 DEF d, x
    <3>5. app' = app
      BY <1>10
    <3> QED
      BY <1>2, <1>3, <2>1, <3>1, <3>4, <3>5 DEF InBody
  <2>6. Parsing(p + n)' /\ p + n \in Nat
    BY <1>2, <1>7, <1>10, <2>5 DEF Parsing
  <2>7. ~ cgi'.exitStatusSet /\ cgi'.fromAS \in Seq(AnswerCell) /\ Len(cgi'.header) = 4
        /\ Len(cgi'.erBody) = 3
    BY <1>1, <1>4, <1>9, <1>13, <2>1
  <2> QED
    BY <1>1, <1>10, <1>14, <2>4, <2>6, <2>7, GoesOn
<1>15. ASSUME n = 3, h[3][3] # 0, Exit(FCGX_PROTOCOL_ERROR)
       PROVE  AnswerInv'
  <2>1. Only(a, "body")[3] = a[p + 3] /\ h[3] = a[p + 3]
    BY <1>9, <1>12, <1>15 DEF Ended
  <2>2. ~ AppCompletes
    BY <1>15, <2>1 DEF AppCompletes
  <2>3. FCGX_PROTOCOL_ERROR[1] # "status"
    BY DEF FCGX_PROTOCOL_ERROR
  <2> QED
    BY <1>10, <1>15, <2>2, <2>3, ErrorStep
<1>16. ASSUME n = 3, h[3][3] = 0, cgi' = EndOfContent(full), UNCHANGED <<aio, pc, code>>
       PROVE  AnswerInv'
  <2> HIDE DEF g
  <2> DEFINE m == PaddingOf(full)
  <2>1. /\ HasFields(full, CgiFields) /\ full.header = cgi.header /\ full.erBody = h
        /\ full.contentLen = v /\ full.paddingLen = cgi.paddingLen /\ full.fromAS = g
        /\ full.exitStatusSet = TRUE /\ full.exitStatus = st
    BY <1>11 DEF HasFields, CgiFields, PendingFields
  <2> HIDE DEF full
  <2>2. EndsContent(full, cgi', m)
    BY <1>16, <2>1, EndOfContentFields
  <2>3. v = 0
    BY <1>16 DEF v
  <2>4. m = l - n /\ m \in 0 .. l - n
    <3>1. m = Smaller(cgi.paddingLen, Len(g))
      BY <2>1, <2>3 DEF PaddingOf
    <3>2. m = Smaller(d, l - n)
      BY <1>3, <1>13, <3>1 DEF d
    <3>3. l - n \in Nat /\ l - n <= d
      BY <1>5, <1>16 DEF EndsAt
    <3> HIDE DEF m
    <3>4. d = l - n \/ ~ (d <= l - n)
      BY <1>5, <3>3
    <3> QED
      BY <1>5, <3>2, <3>3, <3>4 DEF Smaller
  <2>5. /\ cgi'.header = cgi.header /\ cgi'.erBody = h /\ cgi'.exitStatusSet
        /\ cgi'.exitStatus = st /\ cgi'.fromAS = Drop(g, m)
    BY <2>1, <2>2, <2>3 DEF EndsContent
  <2> HIDE DEF m
  <2>6. Drop(g, m) = Drop(f, l)
    <3> HIDE DEF f
    <3>1. n \in 0 .. Len(f) /\ l - n \in 0 .. Len(f) - n /\ n + (l - n) = l
      BY <1>1, <1>7 DEF f
    <3>2. Drop(Drop(f, n), l - n) = Drop(f, n + (l - n))
      BY <1>4, <3>1, DropTwice
    <3> QED
      BY <2>4, <3>1, <3>2 DEF g
  <2>7. h[1] = a[p + 1] /\ h[2] = a[p + 2] /\ h[3] = a[p + 3]
    BY <1>9, <1>16
  <2>8. a[p + 3][3] = 0 /\ cgi'.exitStatus = 256 * a[p + 1][3] + a[p + 2][3]
    BY <1>16, <2>5, <2>7 DEF st
  <2>9. Len(cgi'.header) = 4 /\ Len(cgi'.erBody) = 3 /\ cgi'.fromAS = Drop(cgi.fromAS, l)
    BY <1>4, <1>9, <2>5, <2>6
  <2>10. UNCHANGED <<web, app, pc, from, code>>
    BY <1>10, <1>16
  <2> QED
    BY <1>1, <1>2, <1>12, <2>5, <2>8, <2>9, <2>10, CompletedStep
<1> QED
  BY <1>10, <1>14, <1>15, <1>16

\* A record of another type.
LEMMA ReadOtherStep ==
    ASSUME AnswerInv, GoodAnswers, ReadOther
    PROVE  AnswerInv'
<1>1. /\ InRecord({"other", "none"}) /\ Exit(FCGX_PROTOCOL_ERROR) /\ UNCHANGED <<from, web, app>>
  BY DEF ReadOther
<1>2. PICK p \in Nat, i \in Nat \ {0} :
           Record(app.answer, i) /\ app.answer[i][3] \in {"other", "none"} /\ InBody(i, p)
  BY <1>1, InRecordLemma
<1>3. /\ app.answer[i][3] = "other" /\ i \in 1 .. Len(app.answer)
      /\ app.answer[i][1] = "hdr"
  BY <1>2 DEF Record, AnswerTypes, InBody, Starts, Is
<1>4. ~ AppCompletes
  BY <1>3 DEF AppCompletes, Is
<1>5. FCGX_PROTOCOL_ERROR[1] # "status"
  BY DEF FCGX_PROTOCOL_ERROR
<1> QED
  BY <1>1, <1>4, <1>5, ErrorStep

\* The end of the connection, before that of the request.
LEMMA AppServerEofStep ==
    ASSUME CgiInv, AnswerInv, GoodAnswers, AppServerEof
    PROVE  AnswerInv'
<1>1. /\ AtEvent(AIO_RD_IX(Sock)) /\ app.sends = <<>> /\ UNCHANGED <<from, web, app>>
  BY DEF AppServerEof
<1>2. ~ cgi.exitStatusSet /\ pc = "dispatch" /\ cgi.fromAS = <<>>
  BY <1>1, ReadNotEnded
<1>3. Exit(FCGX_PROTOCOL_ERROR)
  BY <1>2 DEF AppServerEof
<1>4. FCGX_PROTOCOL_ERROR[1] # "status"
  BY DEF FCGX_PROTOCOL_ERROR
<1>5. ASSUME AppCompletes, ~ app.died PROVE FALSE
  <2> DEFINE a == app.answer
             z == Len(a)
  <2>1. PICK p \in Nat : Parsed(p) /\ Parsing(p)
    BY <1>2 DEF AnswerInv
  <2>2. a \in Seq(AnswerCell) /\ z \in Nat /\ WellFormed(a)
    BY GoodLength
  <2>3. p = z
    <3>1. p + 0 + 0 = z
      BY <1>1, <1>2, <1>5, <2>1 DEF Parsed
    <3> HIDE DEF z
    <3> QED
      BY <2>2, <3>1
  <2>4. PICK i \in Nat \ {0} : Accepted(a, i) /\ (InHeader(i, p) \/ InBody(i, p))
    BY <2>1 DEF Parsing
  <2>5. SubSeq(a, 1, z) = a
    BY <2>2, WholeSubSeq
  <2>6. Only(a, "body") # <<>> /\ \A j \in 1 .. z : a[j][1] = "hdr" => a[j][3] # "other"
    BY <1>5, CgiAssumption DEF AppCompletes, Is
  <2>7. ~ Accepted(a, z + 1)
    <3>1. (z + 1) - 1 = z
      BY <2>2
    <3>2. Accepted(a, z + 1) => Only(SubSeq(a, 1, z), "body") = <<>>
      BY <3>1 DEF Accepted
    <3> QED
      BY <2>5, <2>6, <3>2
  <2>8. CASE InHeader(i, p)
    <3>1. /\ cgi.headerLen \in 0 .. 3 /\ p = i - 1 + cgi.headerLen
          /\ i \in Starts(a) \/ i = z + 1
      BY <2>8 DEF InHeader
    <3>2. CASE i \in Starts(a)
      <4>1. Record(a, i)
        BY <2>2, <3>2, RecordLemma
      <4> DEFINE x == NextFrom(a, i)
                 u == a[i][5]
                 v == a[i][6]
                 hl == cgi.headerLen
      <4>2. u \in Nat /\ v \in Nat /\ x = i + 4 + u + v /\ x <= z + 1 /\ hl \in 0 .. 3
            /\ p = i - 1 + hl
        BY <3>1, <4>1 DEF Record
      <4> HIDE DEF x, u, v, hl, z
      <4> QED
        BY <2>2, <2>3, <4>2
    <3> QED
      BY <2>4, <2>7, <3>1, <3>2
  <2>9. CASE InBody(i, p)
    <3>1. /\ i \in Starts(a) /\ a[i][4] = requestId
          /\ cgi.contentLen \in 0 .. a[i][5] /\ cgi.paddingLen \in 0 .. a[i][6]
          /\ p = NextFrom(a, i) - 1 - cgi.contentLen - cgi.paddingLen
          /\ a[i][3] = "end" => cgi.contentLen > 0
      <4>1. 3 > 0
        OBVIOUS
      <4> QED
        BY <2>9, <4>1 DEF InBody
    <3>2. Record(a, i)
      BY <2>2, <3>1, RecordLemma
    <3>3. cgi.contentLen = 0 /\ NextFrom(a, i) = z + 1
      <4> DEFINE x == NextFrom(a, i)
                 u == a[i][5]
                 v == a[i][6]
                 cl == cgi.contentLen
                 pl == cgi.paddingLen
      <4>1. u \in Nat /\ v \in Nat /\ x = i + 4 + u + v /\ x <= z + 1
            /\ cl \in 0 .. u /\ pl \in 0 .. v /\ p = x - 1 - cl - pl
        BY <3>1, <3>2 DEF Record
      <4> HIDE DEF x, u, v, cl, pl, z
      <4>2. cl = 0 /\ x = z + 1
        BY <2>2, <2>3, <4>1
      <4> QED
        BY <4>2 DEF cl, x
    <3>4. a[i][3] # "end"
      BY <3>1, <3>3
    <3>5. a[i][3] # "other"
      BY <2>6, <3>1 DEF Starts, Is
    <3>6. a[i][3] \in {"stdout", "stderr"}
      BY <3>2, <3>4, <3>5 DEF Record, AnswerTypes
    <3>7. Accepted(a, NextFrom(a, i))
      BY <2>2, <2>4, <3>1, <3>2, <3>6, AcceptedNext
    <3> QED
      BY <2>7, <3>3, <3>7
  <2> QED
    BY <2>4, <2>8, <2>9
<1> QED
  BY <1>1, <1>3, <1>4, <1>5, ErrorStep

-----------------------------------------------------------------------------
(* The theorems about the answer *)

\* main enters the loop with nothing of the answer read.
LEMMA AnswerInit ==
    ASSUME GoodAnswers, Init
    PROVE  AnswerInv
<1>1. PICK length \in Lengths :
         cgi = ScheduleIo([c |-> IF length <= 0 THEN WriteStdinEof(Started(length))
                                 ELSE Started(length), a |-> OS_LibInit]).c
  BY DEF Init
<1>2. pc = "loop" /\ from = 0
  BY DEF Init
<1>3. PICK s \in Answers :
         app = [answer |-> s, sends |-> s, got |-> <<>>, closed |-> FALSE, died |-> FALSE]
  BY DEF Init
<1>4. web.out = <<>> /\ web.err = <<>>
  BY DEF Init
<1> DEFINE c == Started(length)
           d == IF length <= 0 THEN WriteStdinEof(c) ELSE c
           b == [c |-> d, a |-> OS_LibInit]
<1>5. /\ c.fromAS = <<>> /\ c.header = NoHeader /\ c.headerLen = 0 /\ c.contentLen = 0
      /\ c.paddingLen = 0 /\ c.erBody = EndRequestBody(0, 0, 0)
      /\ c.readingEndRequestBody = FALSE /\ c.exitStatusSet = FALSE
      /\ HasFields(c, CgiFields)
  BY DEF Started, HasFields, CgiFields, PendingFields
<1> HIDE DEF c
<1>6. SameRead(c, d) /\ HasFields(d, CgiFields)
  BY <1>5 DEF SameRead, ReadFields, CgiFields, PendingFields, HasFields, WriteStdinEof
<1>7. cgi = ScheduleIo(b).c /\ b.c = d
  BY <1>1 DEF c
<1> HIDE DEF d, b
<1>8. SameRead(c, cgi)
  <2>1. SameRead(d, ScheduleIo(b).c)
    BY <1>6, <1>7, ScheduleReads
  <2> QED
    BY <1>6, <1>7, <2>1 DEF SameRead
<1>9. /\ cgi.fromAS = <<>> /\ cgi.header = NoHeader /\ cgi.headerLen = 0
      /\ cgi.erBody = EndRequestBody(0, 0, 0)
      /\ ~ cgi.readingEndRequestBody /\ ~ cgi.exitStatusSet
  BY <1>5, <1>8, SameReadFields
<1>10. Len(cgi.header) = 4 /\ Len(cgi.erBody) = 3
  <2> DEFINE F(i) == <<"hdr", i, "none", 0, 0, 0>>
             f == [i \in 1 .. 4 |-> F(i)]
             D == {F(i) : i \in 1 .. 4}
  <2>1. NoHeader = f
    BY CgiAssumption DEF NoHeader
  <2>2. f \in [1 .. 4 -> D]
    OBVIOUS
  <2> HIDE DEF f, D
  <2>3. Len(f) = 4
    BY <2>2, FunctionIsSeq
  <2>4. Len(EndRequestBody(0, 0, 0)) = 3
    BY DEF EndRequestBody
  <2> QED
    BY <1>9, <2>1, <2>3, <2>4
<1>11. WellFormed(s) /\ s \in Seq(AnswerCell) /\ Len(s) \in Nat
  <2>1. WellFormed(s)
    BY DEF GoodAnswers
  <2>2. s \in Seq(AnswerCell)
    BY <2>1 DEF WellFormed
  <2> QED
    BY <2>1, <2>2
<1>12. app.answer = s /\ app.sends = s /\ app.died = FALSE /\ app.closed = FALSE
  BY <1>3
<1>13. s # <<>> => 1 \in Starts(s)
  BY <1>11 DEF WellFormed
<1>14. Whole(s)
  BY <1>13 DEF Whole, Starts
<1>15. AnswerTyped
  <2>1. <<>> \in Seq(AnswerCell)
    OBVIOUS
  <2> QED
    BY <1>9, <1>10, <1>11, <1>12, <1>14, <2>1 DEF AnswerTyped
<1>16. \A kind : Only(SubSeq(s, 1, 0), kind) = <<>>
  <2>1. SubSeq(s, 1, 0) = <<>>
    BY <1>11
  <2> QED
    BY <2>1, OnlyEmpty
<1>17. Parsed(0)
  <2>1. Len(cgi.fromAS) = 0
    BY <1>9
  <2>2. 0 + 0 + Len(s) = Len(s) /\ \A j \in 1 .. Len(s) : 0 + 0 + j = j
    BY <1>11
  <2> QED
    BY <1>4, <1>11, <1>12, <1>16, <2>1, <2>2 DEF Parsed
<1>18. Parsing(0)
  <2>1. Accepted(s, 1)
    <3>1. 1 - 1 = 0 /\ \A j \in 1 .. 0 : FALSE
      OBVIOUS
    <3> QED
      BY <1>16, <3>1 DEF Accepted
  <2>2. InHeader(1, 0)
    <3>1. 1 \in Starts(s) \/ 1 = Len(s) + 1
      BY <1>11, <1>13
    <3>2. 0 \in 0 .. 3 /\ 0 = 1 - 1 + 0
      OBVIOUS
    <3> QED
      BY <1>9, <1>12, <3>1, <3>2 DEF InHeader
  <2> QED
    BY <1>12, <2>1, <2>2 DEF Parsing
<1>19. Placed /\ Reasons
  BY <1>2, <1>9 DEF Placed, Reasons
<1> QED
  BY <1>9, <1>12, <1>15, <1>17, <1>18, <1>19 DEF AnswerInv

\* Every step keeps the invariant.
LEMMA AnswerNext ==
    ASSUME GoodAnswers, CgiInv, AnswerInv, [Next]_vars
    PROVE  AnswerInv'
<1>1. CASE \/ \E R \in SUBSET {Stdin, Sock}, W \in SUBSET {Sock} : Select(R, W)
           \/ DoIoReturns \/ UNCHANGED vars
  BY <1>1, LoopBeside
<1>2. CASE \E n \in 0 .. Smaller(BuffLen - HeaderLen, Len(web.stdin)) : WebServerReadHandler(n)
  BY <1>2, WebServerReadBeside
<1>3. CASE \E n \in 1 .. Len(cgi.fromWS) : AppServerWriteHandler(n)
  BY <1>3, AppServerWriteBeside
<1>4. CASE WriteFails
  BY <1>4, WriteFailsStep
<1>5. CASE \E n \in 1 .. Smaller(BuffLen, Len(app.sends)) : AppServerReadHandler(n)
  BY <1>5, ReadCallStep
<1>6. CASE AppServerEof
  BY <1>6, AppServerEofStep
<1>7. CASE ReadHeader
  BY <1>7, ReadHeaderStep
<1>8. CASE ReadOutput
  BY <1>8, ReadOutputStep
<1>9. CASE ReadEndRequest
  BY <1>9, ReadEndRequestStep
<1>10. CASE ReadOther
  BY <1>10, ReadOtherStep
<1>11. CASE AppServerReadHandlerReturns
  BY <1>11, ReturnsBeside
<1>12. CASE MainReturns
  BY <1>12, MainReturnsStep
<1>13. CASE AppCloses
  BY <1>13, AppClosesStep
<1>14. CASE AppDies
  BY <1>14, AppDiesStep
<1>15. CASE Failure
  BY <1>15, FailureStep
<1> QED
  BY <1>1, <1>2, <1>3, <1>4, <1>5, <1>6, <1>7, <1>8, <1>9, <1>10, <1>11, <1>12, <1>13, <1>14, <1>15
  DEF Next, Loop

\* The invariant holds for well-formed answers of which a read gets whole headers.
LEMMA AnswerInvariant ==
    ASSUME GoodAnswers
    PROVE  Spec => []AnswerInv
<1>1. Init => AnswerInv
  BY AnswerInit
<1>2. CgiInv /\ AnswerInv /\ [Next]_vars => AnswerInv'
  BY AnswerNext
<1>3. Spec => []CgiInv
  BY CgiInvariant
<1> QED
  BY <1>1, <1>2, <1>3, PTL DEF Spec

\* The rest of the answer is what is in fromAS and still to be read.
LEMMA RestOfAnswer ==
    ASSUME GoodAnswers, AnswerInv, ~ app.died, NEW p \in Nat, Parsed(p), NEW kind
    PROVE  /\ p <= Len(app.answer)
           /\ Only(SubSeq(app.answer, 1, p), kind) \o Only(cgi.fromAS \o app.sends, kind)
                = Only(app.answer, kind)
<1> DEFINE a == app.answer
           f == cgi.fromAS
           s == app.sends
           l == f \o s
           u == SubSeq(a, 1, p)
           v == SubSeq(a, p + 1, Len(a))
<1>1. /\ a \in Seq(AnswerCell) /\ f \in Seq(AnswerCell) /\ s \in Seq(AnswerCell)
      /\ Len(a) \in Nat /\ Len(f) \in Nat /\ Len(s) \in Nat
  BY GoodLength DEF AnswerInv, AnswerTyped
<1>2. /\ p + Len(f) + Len(s) = Len(a)
      /\ \A j \in 1 .. Len(f) : f[j] = a[p + j]
      /\ \A j \in 1 .. Len(s) : s[j] = a[p + Len(f) + j]
  BY DEF Parsed
<1> HIDE DEF a, f, s
<1>3. p <= Len(a) /\ Len(a) - p = Len(f) + Len(s)
  BY <1>1, <1>2
<1>4. /\ l \in Seq(AnswerCell) /\ Len(l) = Len(f) + Len(s)
      /\ \A j \in 1 .. Len(f) + Len(s) :
           l[j] = IF j <= Len(f) THEN f[j] ELSE s[j - Len(f)]
  BY <1>1
<1>5. /\ v \in Seq(AnswerCell) /\ Len(v) = Len(a) - p
      /\ \A j \in 1 .. Len(a) - p : v[j] = a[p + j]
  BY <1>1, <1>3
<1>6. u \in Seq(AnswerCell)
  BY <1>1, <1>3
<1>7. a = u \o v
  <2>1. 1 \in 1 .. Len(a) + 1 /\ p \in 1 - 1 .. Len(a) /\ Len(a) \in p .. Len(a)
    BY <1>1, <1>3
  <2>2. SubSeq(a, 1, Len(a)) = u \o v
    BY <1>1, <2>1, ConcatAdjacentSubSeq
  <2>3. SubSeq(a, 1, Len(a)) = a
    BY <1>1, WholeSubSeq
  <2> QED
    BY <2>2, <2>3
<1> HIDE DEF l, u, v
<1>8. \A j \in 1 .. Len(l) : l[j] = v[j]
  <2> SUFFICES ASSUME NEW j \in 1 .. Len(l) PROVE l[j] = v[j]
    OBVIOUS
  <2>1. j \in 1 .. Len(f) + Len(s) /\ j \in 1 .. Len(a) - p
    BY <1>3, <1>4
  <2>2. CASE j <= Len(f)
    <3>1. j \in 1 .. Len(f)
      BY <1>1, <2>1, <2>2
    <3> QED
      BY <1>2, <1>4, <1>5, <2>1, <2>2, <3>1
  <2>3. CASE ~ (j <= Len(f))
    <3>1. j - Len(f) \in 1 .. Len(s) /\ p + Len(f) + (j - Len(f)) = p + j
      BY <1>1, <2>1, <2>3
    <3>2. s[j - Len(f)] = a[p + Len(f) + (j - Len(f))]
      BY <1>2, <3>1
    <3> QED
      BY <1>4, <1>5, <2>1, <2>3, <3>1, <3>2
  <2> QED
    BY <2>2, <2>3
<1>9. l = v
  <2>1. Len(l) = Len(v)
    BY <1>3, <1>4, <1>5
  <2> QED
    BY <1>4, <1>5, <1>8, <2>1, SeqEqual
<1>10. Only(a, kind) = Only(u, kind) \o Only(l, kind)
  <2>1. Only(u \o v, kind) = Only(u, kind) \o Only(v, kind)
    BY <1>5, <1>6, OnlyConcat
  <2> DEFINE t == u \o v
  <2> HIDE DEF t
  <2>2. a = t /\ Only(t, kind) = Only(u, kind) \o Only(v, kind)
    BY <1>7, <2>1 DEF t
  <2> QED
    BY <1>9, <2>2
<1> QED
  BY <1>3, <1>10 DEF a, f, s, l, u

(***************************************************************************)
(* However the answer of the application is cut into reads, as long as a   *)
(* read gets whole headers, and wherever the application dies: what the    *)
(* loop of AppServerReadHandler has written to stdout and stderr is the    *)
(* content of the FCGI_STDOUT and FCGI_STDERR records so far, and with     *)
(* what is in fromAS and still to be read it is all of it.                 *)
(***************************************************************************)
THEOREM OutputAlwaysRelayed ==
    ASSUME ~ CutRecords, \A s \in Answers : WellFormed(s)
    PROVE  Spec => []OutputRelayed
<1>1. GoodAnswers
  BY DEF GoodAnswers
<1>2. ASSUME AnswerInv
      PROVE  OutputRelayed
  <2>1. PICK p \in Nat : Parsed(p)
    BY <1>2 DEF AnswerInv
  <2>2. /\ web.out = Only(SubSeq(app.answer, 1, p), "out")
        /\ web.err = Only(SubSeq(app.answer, 1, p), "err")
    BY <2>1 DEF Parsed
  <2>3. p \in 0 .. Len(app.answer)
    <3> DEFINE l == Len(cgi.fromAS)
               w == Len(app.sends)
               z == Len(app.answer)
    <3>1. l \in Nat /\ w \in Nat /\ z \in Nat
      BY <1>1, <1>2, GoodLength DEF AnswerInv, AnswerTyped
    <3>2. p + l + w <= z
      BY <2>1 DEF Parsed
    <3> HIDE DEF l, w, z
    <3>3. p \in 0 .. z
      BY <3>1, <3>2
    <3> QED
      BY <3>3 DEF z
  <2>4. ASSUME ~ app.died
        PROVE  /\ web.out \o Only(cgi.fromAS \o app.sends, "out") = Only(app.answer, "out")
               /\ web.err \o Only(cgi.fromAS \o app.sends, "err") = Only(app.answer, "err")
    BY <1>1, <1>2, <2>1, <2>2, <2>4, RestOfAnswer
  <2> QED
    BY <2>2, <2>3, <2>4 DEF OutputRelayed
<1>3. Spec => []AnswerInv
  BY <1>1, AnswerInvariant
<1> QED
  BY <1>2, <1>3, PTL

(***************************************************************************)
(* If in addition the application reads its input before it ends the       *)
(* request: main exits with a status only if the application completed     *)
(* the request with this status and all its output was written, and it     *)
(* does so whenever the application completes the request and lives and no *)
(* call of the program fails (exit(OS_Errno)).                             *)
(***************************************************************************)
THEOREM ExitAlwaysTruthful ==
    ASSUME ~ CutRecords, ~ IgnoresInput, \A s \in Answers : WellFormed(s)
    PROVE  Spec => []ExitTruthful
<1>1. GoodAnswers
  BY DEF GoodAnswers
<1>2. ASSUME AnswerInv
      PROVE  ExitTruthful
  BY <1>2 DEF AnswerInv, Reasons, Told, ExitTruthful
<1>3. Spec => []AnswerInv
  BY <1>1, AnswerInvariant
<1> QED
  BY <1>2, <1>3, PTL
=============================================================================
