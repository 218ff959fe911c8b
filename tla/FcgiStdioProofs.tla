--------------------------- MODULE FcgiStdioProofs --------------------------
(***************************************************************************)
(* Proofs about FcgiStdio, for any number of requests, connections and     *)
(* FILEs and whatever the application uses.                                *)
(***************************************************************************)
EXTENDS FcgiStdio, TLAPS

-----------------------------------------------------------------------------
(* The invariant *)

StreamType == [closed : BOOLEAN, fclosed : BOOLEAN, err : BOOLEAN, buf : SUBSET Nat]
ReplyType == [got : SUBSET Nat, ended : Nat, status : Nat, cut : BOOLEAN]
ReqType == [fd : Conns \cup {None}, cur : Nat, keep : BOOLEAN, status : Nat]
WorldType ==
    [str : [Std -> StreamType], reply : ReplyType, req : ReqType,
     conn : [Conns -> {"waiting", "open", "broken", "closed"}]]

Typed ==
    /\ World \in WorldType
    /\ pc \in {"start", "accepting", "reading", "refused", "serving", "done", "exited"}
    /\ acceptCalled \in BOOLEAN /\ isCGI \in BOOLEAN
    /\ fcgx \in [Std -> Nat] /\ environ \in Int /\ nreq \in Nat
    /\ said \in BOOLEAN /\ asked \in Nat

(***************************************************************************)
(* What the library holds at each point of the cycle.  Before FCGI_Accept  *)
(* was called, and in a CGI program, it holds nothing.                     *)
(***************************************************************************)
InCycle ==
    /\ req.cur # None => req.cur = nreq /\ pc = "serving" /\ FinishesRequest
    /\ ~ FinishesRequest =>
         /\ nreq = 0 /\ req.fd = None /\ environ = OwnEnviron
         /\ fcgx = [h \in Std |-> None]
    /\ isCGI => acceptCalled
    /\ pc = "start" => ~ acceptCalled
    /\ pc \in InAccept => FinishesRequest
    /\ pc = "accepting" => req.fd = None
    /\ pc = "reading" => req.fd # None
    /\ pc = "done" => fcgx = [h \in Std |-> None] /\ environ = None
    /\ pc = "serving" /\ FinishesRequest =>
         environ = req.cur /\ \A h \in Std : fcgx[h] \in {None, req.cur}

\* A connection is open, on one side at least, exactly while it is in the_request.
Connected(w) ==
    \A c \in Conns : w.conn[c] \in {"open", "broken"} <=> c = w.req.fd

(***************************************************************************)
(* The streams and the reply of request n while it is held, when something *)
(* was (s) or was not printed and a the status that was asked for.  What   *)
(* was printed has been sent or is in a buffer as long as the connection   *)
(* works; FCGI_END_REQUEST goes out with the second writer.                *)
(***************************************************************************)
Serving(w, n, s, a) ==
    /\ w.req.fd # None
    /\ \A k \in Std : /\ w.str[k].fclosed => w.str[k].closed
                      /\ w.str[k].buf \subseteq {n}
    /\ w.reply.got \subseteq {n}
    /\ w.reply.ended \in {0, 1}
    /\ w.reply.ended = 1 => \A k \in Writers : w.str[k].fclosed
    /\ (\A k \in Writers : w.str[k].fclosed) => w.reply.ended = 1 \/ w.reply.cut
    /\ w.conn[w.req.fd] = "open" =>
         /\ \A k \in Writers : w.str[k].fclosed => w.str[k].buf = {}
         /\ s => n \in w.reply.got \/ \E k \in Writers : n \in w.str[k].buf
    /\ w.reply.ended = 0 => (a # NoStatus => w.req.status = a)
    /\ w.reply.ended = 1 => (s => n \in w.reply.got) /\ (a # NoStatus => w.reply.status = a)

\* The reply to request n once it is finished.
Answered(r, n, s, a) ==
    /\ r.got \subseteq {n}
    /\ r.ended \in {0, 1}
    /\ n > 0 => r.ended = 1 \/ r.cut
    /\ r.ended = 1 => (s => n \in r.got) /\ (a # NoStatus => r.status = a)

StdioInv ==
    /\ Typed
    /\ InCycle
    /\ pc # "exited" => Connected(World)
    /\ pc = "exited" => \A c \in Conns : conn[c] \notin {"open", "broken"}
    /\ req.cur # None => Serving(World, nreq, said, asked)
    /\ req.cur = None => Answered(reply, nreq, said, asked)

-----------------------------------------------------------------------------
(* The operations on streams, field by field *)

Streams == [Std -> StreamType]
ConnStates == [Conns -> {"waiting", "open", "broken", "closed"}]

LEMMA WorldFields ==
    ASSUME NEW w \in WorldType
    PROVE  /\ w.str \in Streams /\ w.reply \in ReplyType /\ w.req \in ReqType
           /\ w.conn \in ConnStates
           /\ w = [str |-> w.str, reply |-> w.reply, req |-> w.req, conn |-> w.conn]
BY DEF WorldType, Streams, ConnStates

LEMMA MadeWorld ==
    ASSUME NEW st \in Streams, NEW rp \in ReplyType, NEW rq \in ReqType,
           NEW cn \in ConnStates,
           NEW w, w = [str |-> st, reply |-> rp, req |-> rq, conn |-> cn]
    PROVE  /\ w \in WorldType
           /\ w.str = st /\ w.reply = rp /\ w.req = rq /\ w.conn = cn
BY DEF WorldType, Streams, ConnStates

LEMMA StreamFields ==
    ASSUME NEW s \in StreamType
    PROVE  /\ s.closed \in BOOLEAN /\ s.fclosed \in BOOLEAN /\ s.err \in BOOLEAN
           /\ s.buf \in SUBSET Nat
BY DEF StreamType

LEMMA MadeStream ==
    ASSUME NEW c \in BOOLEAN, NEW f \in BOOLEAN, NEW e \in BOOLEAN, NEW b \in SUBSET Nat,
           NEW s, s = [closed |-> c, fclosed |-> f, err |-> e, buf |-> b]
    PROVE  /\ s \in StreamType
           /\ s.closed = c /\ s.fclosed = f /\ s.err = e /\ s.buf = b
BY DEF StreamType

LEMMA ReplyFields ==
    ASSUME NEW r \in ReplyType
    PROVE  /\ r.got \in SUBSET Nat /\ r.ended \in Nat /\ r.status \in Nat
           /\ r.cut \in BOOLEAN
BY DEF ReplyType

LEMMA MadeReply ==
    ASSUME NEW g \in SUBSET Nat, NEW n \in Nat, NEW t \in Nat, NEW c \in BOOLEAN,
           NEW r, r = [got |-> g, ended |-> n, status |-> t, cut |-> c]
    PROVE  /\ r \in ReplyType
           /\ r.got = g /\ r.ended = n /\ r.status = t /\ r.cut = c
BY DEF ReplyType

LEMMA ReplacedStream ==
    ASSUME NEW st \in Streams, NEW k \in Std, NEW s \in StreamType,
           NEW t, t = [st EXCEPT ![k] = s]
    PROVE  t \in Streams /\ t[k] = s /\ \A j \in Std \ {k} : t[j] = st[j]
BY DEF Streams


Changed(w, k, s, r) == [w EXCEPT !.str[k] = s, !.reply = r]

LEMMA ChangedIs ==
    ASSUME NEW w \in WorldType, NEW k \in Std, NEW s \in StreamType, NEW r \in ReplyType,
           NEW e, e = Changed(w, k, s, r)
    PROVE  e = [str |-> [w.str EXCEPT ![k] = s], reply |-> r, req |-> w.req, conn |-> w.conn]
BY DEF WorldType, Changed

LEMMA ChangedWorld ==
    ASSUME NEW w \in WorldType, NEW k \in Std, NEW s \in StreamType, NEW r \in ReplyType,
           NEW e, e = Changed(w, k, s, r)
    PROVE  /\ e \in WorldType /\ e.req = w.req /\ e.conn = w.conn
           /\ e.str[k] = s /\ e.reply = r
           /\ \A j \in Std \ {k} : e.str[j] = w.str[j]
<1> DEFINE st == [w.str EXCEPT ![k] = s]
<1>1. /\ w.str \in Streams /\ w.reply \in ReplyType /\ w.req \in ReqType
      /\ w.conn \in ConnStates
  BY WorldFields
<1>2. st \in Streams /\ st[k] = s /\ \A j \in Std \ {k} : st[j] = w.str[j]
  BY <1>1 DEF Streams
<1>3. e = [str |-> st, reply |-> r, req |-> w.req, conn |-> w.conn]
  BY ChangedIs
<1> HIDE DEF st
<1>4. /\ e \in WorldType /\ e.str = st /\ e.reply = r /\ e.req = w.req /\ e.conn = w.conn
  BY <1>1, <1>2, <1>3, MadeWorld
<1> QED
  BY <1>2, <1>4

\* A stream that is closed, and one with an error.
LEMMA ChangedStream ==
    ASSUME NEW s \in StreamType
    PROVE  /\ FClosed(s) \in StreamType
           /\ FClosed(s).closed /\ FClosed(s).fclosed /\ FClosed(s).buf = s.buf
           /\ SetError(s) \in StreamType
           /\ SetError(s).closed /\ SetError(s).fclosed = s.fclosed /\ SetError(s).buf = s.buf
<1>1. /\ FClosed(s) \in StreamType
      /\ FClosed(s).closed /\ FClosed(s).fclosed /\ FClosed(s).buf = s.buf
  BY DEF StreamType, FClosed
<1>2. /\ SetError(s) \in StreamType
      /\ SetError(s).closed /\ SetError(s).fclosed = s.fclosed /\ SetError(s).buf = s.buf
  BY DEF StreamType, SetError
<1> QED
  BY <1>1, <1>2

Works(w) == w.conn[w.req.fd] = "open"

\* Used and Empty are such changes.
LEMMA UsedChanges ==
    ASSUME NEW w \in WorldType, NEW k \in Std, NEW s \in StreamType
    PROVE  Used(w, k, s) = Changed(w, k, s, w.reply)
BY DEF Used, Changed, WorldType

LEMMA EmptyWorks ==
    ASSUME NEW w \in WorldType, NEW k \in Std, Works(w)
    PROVE  Empty(w, k) = Changed(w, k, [w.str[k] EXCEPT !.buf = {}],
                                 [w.reply EXCEPT !.got = w.reply.got \cup w.str[k].buf])
BY DEF Empty, Works, Changed, WorldType

LEMMA EmptyFails ==
    ASSUME NEW w \in WorldType, NEW k \in Std, ~ Works(w)
    PROVE  Empty(w, k) = Changed(w, k, SetError(w.str[k]), w.reply)
<1>1. w.str[k] \in StreamType
  BY DEF WorldType
<1>2. SetError(w.str[k]) \in StreamType
  BY <1>1, ChangedStream
<1> QED
  BY <1>2, UsedChanges DEF Empty, Works

\* A stream is emptied while the connection works,
LEMMA EmptyWorksFields ==
    ASSUME NEW w \in WorldType, NEW k \in Std, Works(w), NEW e, e = Empty(w, k)
    PROVE  /\ e \in WorldType /\ e.req = w.req /\ e.conn = w.conn
           /\ e.str[k].closed = w.str[k].closed /\ e.str[k].fclosed = w.str[k].fclosed
           /\ e.str[k].buf = {}
           /\ \A j \in Std \ {k} : e.str[j] = w.str[j]
           /\ e.reply.got = w.reply.got \cup w.str[k].buf
           /\ e.reply.ended = w.reply.ended /\ e.reply.status = w.reply.status
           /\ e.reply.cut = w.reply.cut
<1> DEFINE g == w.reply.got \cup w.str[k].buf
           s == [w.str[k] EXCEPT !.buf = {}]
           r == [w.reply EXCEPT !.got = g]
<1>1. w.str[k] \in StreamType /\ w.reply \in ReplyType
  BY DEF WorldType
<1>2. g \in SUBSET Nat
  BY <1>1, StreamFields, ReplyFields
<1>3. e = Changed(w, k, s, r)
  BY EmptyWorks
<1>4. /\ s \in StreamType
      /\ s.closed = w.str[k].closed /\ s.fclosed = w.str[k].fclosed /\ s.buf = {}
  BY <1>1 DEF StreamType
<1>5. /\ r \in ReplyType /\ r.got = g /\ r.ended = w.reply.ended
      /\ r.status = w.reply.status /\ r.cut = w.reply.cut
  <2> HIDE DEF g
  <2> QED
    BY <1>1, <1>2 DEF ReplyType
<1> HIDE DEF s, r
<1>6. /\ e \in WorldType /\ e.req = w.req /\ e.conn = w.conn
      /\ e.str[k] = s /\ e.reply = r
      /\ \A j \in Std \ {k} : e.str[j] = w.str[j]
  BY <1>3, <1>4, <1>5, ChangedWorld
<1> QED
  BY <1>4, <1>5, <1>6

\* and when it does not.
LEMMA EmptyFailsFields ==
    ASSUME NEW w \in WorldType, NEW k \in Std, ~ Works(w), NEW e, e = Empty(w, k)
    PROVE  /\ e \in WorldType /\ e.req = w.req /\ e.conn = w.conn
           /\ e.str[k].closed /\ e.str[k].fclosed = w.str[k].fclosed
           /\ e.str[k].buf = w.str[k].buf
           /\ \A j \in Std \ {k} : e.str[j] = w.str[j]
           /\ e.reply = w.reply
<1> DEFINE s == SetError(w.str[k])
<1>1. w.str[k] \in StreamType /\ w.reply \in ReplyType
  BY DEF WorldType
<1>2. e = Changed(w, k, s, w.reply)
  BY EmptyFails
<1>3. /\ s \in StreamType
      /\ s.closed /\ s.fclosed = w.str[k].fclosed /\ s.buf = w.str[k].buf
  BY <1>1, ChangedStream
<1> HIDE DEF s
<1>4. /\ e \in WorldType /\ e.req = w.req /\ e.conn = w.conn
      /\ e.str[k] = s /\ e.reply = w.reply
      /\ \A j \in Std \ {k} : e.str[j] = w.str[j]
  BY <1>1, <1>2, <1>3, ChangedWorld
<1> QED
  BY <1>3, <1>4

\* The other writer is closed.
LastWriter(w, k) == \A j \in Writers \ {k} : w.str[j].fclosed

\* A stream that was open is closed.
LEMMA FCloseFields ==
    ASSUME NEW w \in WorldType, NEW k \in Std, ~ w.str[k].fclosed,
           NEW e, e = FCGX_FClose(w, k),
           NEW v, v = (IF k = "stdin" THEN w ELSE Empty(w, k)), v \in WorldType
    PROVE  /\ e \in WorldType /\ e.req = v.req /\ e.conn = v.conn
           /\ e.str[k].closed /\ e.str[k].fclosed /\ e.str[k].buf = v.str[k].buf
           /\ \A j \in Std \ {k} : e.str[j] = v.str[j]
           /\ e.reply.got = v.reply.got
           /\ e.reply.cut <=> v.reply.cut \/ (k # "stdin" /\ ~ Works(w))
           /\ k # "stdin" /\ Works(w) /\ LastWriter(w, k) =>
                 e.reply.ended = v.reply.ended + 1 /\ e.reply.status = w.req.status
           /\ ~ (k # "stdin" /\ Works(w) /\ LastWriter(w, k)) =>
                 e.reply.ended = v.reply.ended /\ e.reply.status = v.reply.status
<1> DEFINE ended == k # "stdin" /\ Works(w) /\ LastWriter(w, k)
           cut == k # "stdin" /\ ~ Works(w)
           s == FClosed(v.str[k])
           r == Closing(v.reply, ended, w.req.status, cut)
<1>1. v.str[k] \in StreamType /\ v.reply \in ReplyType /\ w.req.status \in Nat
  BY DEF WorldType, ReqType
<1>2. e = Changed(v, k, s, r)
  BY DEF FCGX_FClose, Changed, Works, LastWriter
<1>3. s \in StreamType /\ s.closed /\ s.fclosed /\ s.buf = v.str[k].buf
  BY <1>1, ChangedStream
<1> DEFINE n == IF ended THEN v.reply.ended + 1 ELSE v.reply.ended
           t == IF ended THEN w.req.status ELSE v.reply.status
           q == v.reply.cut \/ cut
<1> HIDE DEF ended, cut
<1>4. r = [v.reply EXCEPT !.ended = n, !.status = t, !.cut = q]
  BY DEF Closing
<1> HIDE DEF s, r
<1>5. /\ r \in ReplyType /\ r.got = v.reply.got
      /\ r.ended = n /\ r.status = t /\ (r.cut <=> q)
  <2>1. n \in Nat /\ t \in Nat /\ q \in BOOLEAN
    BY <1>1 DEF ReplyType
  <2> HIDE DEF n, t, q
  <2>2. r \in ReplyType /\ r.got = v.reply.got /\ r.ended = n /\ r.status = t /\ r.cut = q
    BY <1>1, <1>4, <2>1 DEF ReplyType
  <2> QED
    BY <2>2
<1>6. /\ e \in WorldType /\ e.req = v.req /\ e.conn = v.conn
      /\ e.str[k] = s /\ e.reply = r
      /\ \A j \in Std \ {k} : e.str[j] = v.str[j]
  BY <1>2, <1>3, <1>5, ChangedWorld
<1>7. e.str[k].closed /\ e.str[k].fclosed /\ e.str[k].buf = v.str[k].buf
  BY <1>3, <1>6
<1>8. e.reply.got = v.reply.got /\ e.reply.ended = n /\ e.reply.status = t
  BY <1>5, <1>6
<1>9. e.reply.cut <=> v.reply.cut \/ cut
  BY <1>5, <1>6
<1> HIDE DEF q
<1>10. /\ ended => e.reply.ended = v.reply.ended + 1 /\ e.reply.status = w.req.status
       /\ ~ ended => e.reply.ended = v.reply.ended /\ e.reply.status = v.reply.status
  BY <1>8
<1> QED
  BY <1>6, <1>7, <1>8, <1>9, <1>10 DEF ended, cut

-----------------------------------------------------------------------------
(* A request that is being served *)

\* A stream is flushed.
LEMMA FFlushServes ==
    ASSUME NEW w \in WorldType, NEW k \in Std, NEW n \in Nat, NEW s \in BOOLEAN, NEW a,
           Serving(w, n, s, a), NEW e, e = FCGX_FFlush(w, k)
    PROVE  /\ e \in WorldType /\ e.req = w.req /\ e.conn = w.conn
           /\ Serving(e, n, s, a)
<1>1. CASE k = "stdin" \/ w.str[k].closed
  BY <1>1 DEF FCGX_FFlush
<1>2. CASE ~ (k = "stdin" \/ w.str[k].closed)
  <2>1. e = Empty(w, k) /\ k \in Writers
    BY <1>2 DEF FCGX_FFlush, Std, Writers
  <2>2. CASE Works(w)
    <3>1. /\ e \in WorldType /\ e.req = w.req /\ e.conn = w.conn
          /\ e.str[k].closed = w.str[k].closed /\ e.str[k].fclosed = w.str[k].fclosed
          /\ e.str[k].buf = {}
          /\ \A j \in Std \ {k} : e.str[j] = w.str[j]
          /\ e.reply.got = w.reply.got \cup w.str[k].buf
          /\ e.reply.ended = w.reply.ended /\ e.reply.status = w.reply.status
          /\ e.reply.cut = w.reply.cut
      BY <2>1, <2>2, EmptyWorksFields
    <3> QED
      BY <2>1, <2>2, <3>1 DEF Serving, Writers, Std
  <2>3. CASE ~ Works(w)
    <3>1. /\ e \in WorldType /\ e.req = w.req /\ e.conn = w.conn
          /\ e.str[k].closed /\ e.str[k].fclosed = w.str[k].fclosed
          /\ e.str[k].buf = w.str[k].buf
          /\ \A j \in Std \ {k} : e.str[j] = w.str[j]
          /\ e.reply = w.reply
      BY <2>1, <2>3, EmptyFailsFields
    <3> QED
      BY <2>1, <2>3, <3>1 DEF Serving, Works, Writers, Std
  <2> QED
    BY <2>2, <2>3
<1> QED
  BY <1>1, <1>2

\* A stream is closed.
LEMMA FCloseServes ==
    ASSUME NEW w \in WorldType, NEW k \in Std, NEW n \in Nat, NEW s \in BOOLEAN, NEW a,
           Serving(w, n, s, a), NEW e, e = FCGX_FClose(w, k)
    PROVE  /\ e \in WorldType /\ e.req = w.req /\ e.conn = w.conn
           /\ e.str[k].fclosed /\ \A j \in Std : w.str[j].fclosed => e.str[j].fclosed
           /\ Serving(e, n, s, a)
<1>1. CASE w.str[k].fclosed
  BY <1>1 DEF FCGX_FClose
<1>2. CASE ~ w.str[k].fclosed /\ k = "stdin"
  <2>1. /\ e \in WorldType /\ e.req = w.req /\ e.conn = w.conn
        /\ e.str[k].closed /\ e.str[k].fclosed /\ e.str[k].buf = w.str[k].buf
        /\ \A j \in Std \ {k} : e.str[j] = w.str[j]
        /\ e.reply.got = w.reply.got
        /\ e.reply.cut <=> w.reply.cut
        /\ e.reply.ended = w.reply.ended /\ e.reply.status = w.reply.status
    BY <1>2, FCloseFields
  <2> QED
    BY <1>2, <2>1 DEF Serving, Std, Writers
<1>3. CASE ~ w.str[k].fclosed /\ k # "stdin" /\ Works(w)
  <2> DEFINE v == Empty(w, k)
  <2>1. /\ v \in WorldType /\ v.req = w.req /\ v.conn = w.conn
        /\ v.str[k].buf = {}
        /\ \A j \in Std \ {k} : v.str[j] = w.str[j]
        /\ v.reply.got = w.reply.got \cup w.str[k].buf
        /\ v.reply.ended = w.reply.ended /\ v.reply.status = w.reply.status
        /\ v.reply.cut = w.reply.cut
    BY <1>3, EmptyWorksFields
  <2>2. v = IF k = "stdin" THEN w ELSE Empty(w, k)
    BY <1>3
  <2> HIDE DEF v
  <2>3. /\ e \in WorldType /\ e.req = v.req /\ e.conn = v.conn
        /\ e.str[k].closed /\ e.str[k].fclosed /\ e.str[k].buf = v.str[k].buf
        /\ \A j \in Std \ {k} : e.str[j] = v.str[j]
        /\ e.reply.got = v.reply.got
        /\ e.reply.cut <=> v.reply.cut
        /\ LastWriter(w, k) =>
              e.reply.ended = v.reply.ended + 1 /\ e.reply.status = w.req.status
        /\ ~ LastWriter(w, k) =>
              e.reply.ended = v.reply.ended /\ e.reply.status = v.reply.status
    BY <1>3, <2>1, <2>2, FCloseFields
  <2>4. w.reply.ended = 0
    BY <1>3 DEF Serving, Std, Writers
  <2>5. \A j \in Std \ {k} : e.str[j] = w.str[j]
    BY <2>1, <2>3
  <2>6. /\ e.str[k].closed /\ e.str[k].fclosed /\ e.str[k].buf = {}
        /\ e.reply.got = w.reply.got \cup w.str[k].buf
        /\ e.req = w.req /\ e.conn = w.conn
        /\ e.reply.cut <=> w.reply.cut
    BY <2>1, <2>3
  <2>7. /\ LastWriter(w, k) => e.reply.ended = 1 /\ e.reply.status = w.req.status
        /\ ~ LastWriter(w, k) => e.reply.ended = 0 /\ e.reply.status = w.reply.status
    BY <2>1, <2>3, <2>4
  <2>8. Serving(e, n, s, a)
    BY <1>3, <2>4, <2>5, <2>6, <2>7 DEF Serving, LastWriter, Works, Std, Writers
  <2> QED
    BY <2>3, <2>5, <2>6, <2>8
<1>4. CASE ~ w.str[k].fclosed /\ k # "stdin" /\ ~ Works(w)
  <2> DEFINE v == Empty(w, k)
  <2>1. /\ v \in WorldType /\ v.req = w.req /\ v.conn = w.conn
        /\ v.str[k].buf = w.str[k].buf
        /\ \A j \in Std \ {k} : v.str[j] = w.str[j]
        /\ v.reply = w.reply
    BY <1>4, EmptyFailsFields
  <2>2. v = IF k = "stdin" THEN w ELSE Empty(w, k)
    BY <1>4
  <2> HIDE DEF v
  <2>3. /\ e \in WorldType /\ e.req = v.req /\ e.conn = v.conn
        /\ e.str[k].closed /\ e.str[k].fclosed /\ e.str[k].buf = v.str[k].buf
        /\ \A j \in Std \ {k} : e.str[j] = v.str[j]
        /\ e.reply.got = v.reply.got
        /\ e.reply.cut
        /\ e.reply.ended = v.reply.ended /\ e.reply.status = v.reply.status
    BY <1>4, <2>1, <2>2, FCloseFields
  <2>4. /\ e.str[k].closed /\ e.str[k].fclosed /\ e.str[k].buf = w.str[k].buf
        /\ \A j \in Std \ {k} : e.str[j] = w.str[j]
        /\ e.req = w.req /\ e.conn = w.conn
        /\ e.reply.got = w.reply.got /\ e.reply.cut
        /\ e.reply.ended = w.reply.ended /\ e.reply.status = w.reply.status
    BY <2>1, <2>3
  <2>5. Serving(e, n, s, a)
    BY <1>4, <2>4 DEF Serving, Works, Std, Writers
  <2> QED
    BY <2>3, <2>4, <2>5
<1> QED
  BY <1>1, <1>2, <1>3, <1>4

\* FCGX_FClose of both writers answers the request.
LEMMA ClosedMeansAnswered ==
    ASSUME NEW w \in WorldType, NEW n \in Nat, NEW s \in BOOLEAN, NEW a,
           Serving(w, n, s, a), \A k \in Writers : w.str[k].fclosed
    PROVE  Answered(w.reply, n, s, a)
BY DEF Serving, Answered

-----------------------------------------------------------------------------
(* The end of a request *)

LEMMA NewStreamsTyped ==
    /\ NewStreams \in Streams
    /\ \A k \in Std : /\ ~ NewStreams[k].closed /\ ~ NewStreams[k].fclosed
                      /\ NewStreams[k].buf = {}
<1>1. /\ NewStream \in StreamType
      /\ ~ NewStream.closed /\ ~ NewStream.fclosed /\ NewStream.buf = {}
  BY DEF NewStream, StreamType
<1> QED
  BY <1>1 DEF NewStreams, Streams

FreedClosed(w) == FCGX_Free(w, TRUE)
FreedKept(w) == FCGX_Free(w, FALSE)

\* The request is forgotten and its connection closed,
LEMMA FreeCloses ==
    ASSUME NEW w \in WorldType, NEW e, e = FreedClosed(w)
    PROVE  /\ e \in WorldType /\ e.reply = w.reply /\ e.str = NewStreams
           /\ e.req.cur = None /\ e.req.fd = None
           /\ e.req.status = w.req.status /\ e.req.keep = w.req.keep
           /\ e.conn = IF w.req.fd = None THEN w.conn
                       ELSE [w.conn EXCEPT ![w.req.fd] = "closed"]
<1> DEFINE rq == [fd |-> None, cur |-> None, keep |-> w.req.keep, status |-> w.req.status]
           cn == IF w.req.fd = None THEN w.conn ELSE [w.conn EXCEPT ![w.req.fd] = "closed"]
<1>1. w.reply \in ReplyType /\ w.req \in ReqType /\ w.conn \in ConnStates
  BY WorldFields
<1>2. rq \in ReqType /\ rq.cur = None /\ rq.fd = None
      /\ rq.status = w.req.status /\ rq.keep = w.req.keep
  BY <1>1 DEF ReqType, None
<1>3. cn \in ConnStates
  BY <1>1 DEF ConnStates
<1>4. e = [str |-> NewStreams, reply |-> w.reply, req |-> rq, conn |-> cn]
  BY <1>1 DEF FreedClosed, FreedKept, FCGX_Free, WorldType, ReqType
<1> HIDE DEF rq, cn
<1>5. e \in WorldType /\ e.str = NewStreams /\ e.reply = w.reply /\ e.req = rq /\ e.conn = cn
  <2>1. NewStreams \in Streams /\ rq \in ReqType
    BY <1>2, NewStreamsTyped
  <2> QED
    BY <1>1, <1>3, <1>4, <2>1, MadeWorld
<1> QED
  BY <1>2, <1>5 DEF cn

\* or kept.
LEMMA FreeKeeps ==
    ASSUME NEW w \in WorldType, NEW e, e = FreedKept(w)
    PROVE  /\ e \in WorldType /\ e.reply = w.reply /\ e.str = NewStreams
           /\ e.req.cur = None /\ e.req.fd = w.req.fd
           /\ e.req.status = w.req.status /\ e.req.keep = w.req.keep
           /\ e.conn = w.conn
<1> DEFINE rq == [fd |-> w.req.fd, cur |-> None, keep |-> w.req.keep, status |-> w.req.status]
<1>1. w.reply \in ReplyType /\ w.req \in ReqType /\ w.conn \in ConnStates
  BY WorldFields
<1>2. rq \in ReqType /\ rq.cur = None /\ rq.fd = w.req.fd
      /\ rq.status = w.req.status /\ rq.keep = w.req.keep
  BY <1>1 DEF ReqType, None
<1>3. e = [str |-> NewStreams, reply |-> w.reply, req |-> rq, conn |-> w.conn]
  BY <1>1 DEF FreedClosed, FreedKept, FCGX_Free, WorldType, ReqType
<1> HIDE DEF rq
<1>4. e \in WorldType /\ e.str = NewStreams /\ e.reply = w.reply /\ e.req = rq /\ e.conn = w.conn
  <2>1. NewStreams \in Streams /\ rq \in ReqType
    BY <1>2, NewStreamsTyped
  <2> QED
    BY <1>1, <1>3, <2>1, MadeWorld
<1> QED
  BY <1>2, <1>4

\* The connection is given back, or stays in the_request.
LEMMA FreeConnected ==
    ASSUME NEW w \in WorldType, Connected(w), NEW e,
           e = FreedClosed(w) \/ e = FreedKept(w)
    PROVE  /\ e \in WorldType /\ e.reply = w.reply /\ e.str = NewStreams
           /\ e.req.cur = None /\ Connected(e)
<1>1. CASE e = FreedClosed(w)
  <2>1. /\ e \in WorldType /\ e.reply = w.reply /\ e.str = NewStreams
        /\ e.req.cur = None /\ e.req.fd = None
        /\ e.conn = IF w.req.fd = None THEN w.conn
                    ELSE [w.conn EXCEPT ![w.req.fd] = "closed"]
    BY <1>1, FreeCloses
  <2>2. w.conn \in ConnStates /\ w.req.fd \in Conns \cup {None} /\ None \notin Conns
    BY WorldFields, StdioAssumption DEF ReqType, None, Conns
  <2>3. Connected(e)
    BY <2>1, <2>2 DEF Connected, ConnStates
  <2> QED
    BY <2>1, <2>3
<1>2. CASE e = FreedKept(w)
  BY <1>2, FreeKeeps DEF Connected
<1> QED
  BY <1>1, <1>2

\* The request, if there is one, is answered and forgotten.
LEMMA FinishAnswers ==
    ASSUME NEW w \in WorldType, Connected(w), NEW n \in Nat, NEW s \in BOOLEAN, NEW a,
           w.req.cur # None => Serving(w, n, s, a),
           w.req.cur = None => Answered(w.reply, n, s, a),
           NEW e, e = FCGX_Finish_r(w)
    PROVE  /\ e \in WorldType /\ e.str = NewStreams /\ e.req.cur = None
           /\ Connected(e) /\ Answered(e.reply, n, s, a)
<1>1. CASE w.req.cur = None
  <2>1. e = FreedClosed(w) \/ e = FreedKept(w)
    BY <1>1 DEF FCGX_Finish_r, FreedClosed, FreedKept
  <2> QED
    BY <1>1, <2>1, FreeConnected
<1>2. CASE w.req.cur # None
  <2> DEFINE f == FCGX_FClose(w, "stderr")
             g == FCGX_FClose(f, "stdout")
  <2>1. "stderr" \in Std /\ "stdout" \in Std
    BY DEF Std
  <2>2. /\ f \in WorldType /\ f.req = w.req /\ f.conn = w.conn
        /\ f.str["stderr"].fclosed /\ Serving(f, n, s, a)
    BY <1>2, <2>1, FCloseServes
  <2>3. e = FreedClosed(g) \/ e = FreedKept(g)
    BY <1>2 DEF FCGX_Finish_r, FreedClosed, FreedKept
  <2> HIDE DEF f
  <2>4. /\ g \in WorldType /\ g.req = f.req /\ g.conn = f.conn
        /\ g.str["stdout"].fclosed /\ g.str["stderr"].fclosed
        /\ Serving(g, n, s, a)
    BY <2>1, <2>2, FCloseServes
  <2> HIDE DEF g
  <2>5. Answered(g.reply, n, s, a)
    BY <2>2, <2>4, ClosedMeansAnswered DEF Writers
  <2>6. Connected(g)
    BY <2>2, <2>4 DEF Connected
  <2> QED
    BY <2>3, <2>4, <2>5, <2>6, FreeConnected
<1> QED
  BY <1>1, <1>2

-----------------------------------------------------------------------------
(* The calls of the application *)

\* A change of a stream that leaves its content, and does not open it again.
LEMMA StreamServes ==
    ASSUME NEW w \in WorldType, NEW k \in Std, NEW n \in Nat, NEW s \in BOOLEAN, NEW a,
           Serving(w, n, s, a), NEW t \in StreamType,
           t.fclosed = w.str[k].fclosed, t.buf = w.str[k].buf, w.str[k].closed => t.closed,
           NEW e, e = Changed(w, k, t, w.reply)
    PROVE  /\ e \in WorldType /\ e.req = w.req /\ e.conn = w.conn
           /\ Serving(e, n, s, a)
<1>1. w.reply \in ReplyType
  BY WorldFields
<1>2. /\ e \in WorldType /\ e.req = w.req /\ e.conn = w.conn
      /\ e.str[k] = t /\ e.reply = w.reply
      /\ \A j \in Std \ {k} : e.str[j] = w.str[j]
  BY <1>1, ChangedWorld
<1>3. Serving(e, n, s, a)
  BY <1>2 DEF Serving, Std, Writers
<1> QED
  BY <1>2, <1>3

Printed(w, k, n) == Used(w, k, [w.str[k] EXCEPT !.buf = @ \cup {n}])

\* Something is printed.
LEMMA OutputServes ==
    ASSUME NEW w \in WorldType, NEW k \in Writers, NEW n \in Nat, NEW s \in BOOLEAN, NEW a,
           Serving(w, n, s, a), ~ w.str[k].closed,
           NEW e, e = Printed(w, k, n), NEW q \in BOOLEAN
    PROVE  /\ e \in WorldType /\ e.req = w.req /\ e.conn = w.conn
           /\ Serving(e, n, q, a)
<1> DEFINE b == w.str[k].buf \cup {n}
           t == [w.str[k] EXCEPT !.buf = b]
<1>1. k \in Std
  BY DEF Std, Writers
<1>2. w.reply \in ReplyType /\ w.str[k] \in StreamType
  BY <1>1 DEF WorldType
<1>3. b \in SUBSET Nat
  BY <1>2, StreamFields
<1>4. e = Used(w, k, t)
  BY DEF Printed
<1> HIDE DEF b
<1>5. /\ t \in StreamType /\ t.buf = b
      /\ t.closed = w.str[k].closed /\ t.fclosed = w.str[k].fclosed
  BY <1>2, <1>3 DEF StreamType
<1> HIDE DEF t
<1>6. e = Changed(w, k, t, w.reply)
  BY <1>1, <1>4, <1>5, UsedChanges
<1>7. /\ e \in WorldType /\ e.req = w.req /\ e.conn = w.conn
      /\ e.str[k] = t /\ e.reply = w.reply
      /\ \A j \in Std \ {k} : e.str[j] = w.str[j]
  BY <1>1, <1>2, <1>5, <1>6, ChangedWorld
<1>8. w.reply.ended = 0 /\ ~ w.str[k].fclosed
  BY <1>1 DEF Serving
<1>9. t.buf = {n} /\ ~ t.closed /\ ~ t.fclosed
  BY <1>1, <1>5, <1>8 DEF Serving, b
<1>10. Serving(e, n, q, a)
  BY <1>1, <1>7, <1>8, <1>9 DEF Serving, Std, Writers
<1> QED
  BY <1>7, <1>10

\* World as a record.
LEMMA WorldIs ==
    /\ World.str = str /\ World.reply = reply /\ World.req = req /\ World.conn = conn
    /\ World'.str = str' /\ World'.reply = reply' /\ World'.req = req' /\ World'.conn = conn'
BY DEF World

LEMMA BecomesWorld ==
    ASSUME NEW w \in WorldType, Becomes(w)
    PROVE  World' = w
BY WorldFields DEF World, Becomes

\* The parts of the state that a call on a stream leaves alone.
CallRest == <<pc, acceptCalled, isCGI, environ, nreq, asked, req, conn>>

\* A call of the application that serves the request, or changes nothing.
LEMMA CallKeeps ==
    ASSUME StdioInv, UNCHANGED CallRest, said' \in BOOLEAN,
           fcgx' = fcgx \/ \E h \in Std : fcgx' = [fcgx EXCEPT ![h] = None],
           \/ UNCHANGED <<str, reply, said>>
           \/ req.cur # None /\ World' \in WorldType /\ Serving(World', nreq, said', asked)
    PROVE  StdioInv'
<1>1. /\ pc' = pc /\ acceptCalled' = acceptCalled /\ isCGI' = isCGI /\ environ' = environ
      /\ nreq' = nreq /\ asked' = asked /\ req' = req /\ conn' = conn
      /\ FinishesRequest' = FinishesRequest
  BY DEF CallRest, FinishesRequest
<1>2. fcgx' \in [Std -> Nat] /\ \A h \in Std : fcgx'[h] \in {None, fcgx[h]}
  BY DEF StdioInv, Typed, None
<1>3. fcgx = [h \in Std |-> None] => fcgx' = [h \in Std |-> None]
  BY <1>2
<1>4. InCycle'
  BY <1>1, <1>2, <1>3 DEF StdioInv, InCycle
<1>5. (pc # "exited" => Connected(World)) => (pc' # "exited" => Connected(World'))
  BY <1>1, WorldIs DEF Connected
<1>6. CASE UNCHANGED <<str, reply, said>>
  <2>1. World' = World /\ reply' = reply /\ said' = said
    BY <1>1, <1>6 DEF World
  <2>2. Typed'
    BY <1>1, <1>2, <2>1 DEF StdioInv, Typed
  <2> QED
    BY <1>1, <1>4, <1>5, <2>1, <2>2 DEF StdioInv
<1>7. CASE req.cur # None /\ World' \in WorldType /\ Serving(World', nreq, said', asked)
  <2>1. Typed'
    BY <1>1, <1>2, <1>7 DEF StdioInv, Typed
  <2> QED
    BY <1>1, <1>4, <1>5, <1>7, <2>1 DEF StdioInv
<1> QED
  BY <1>6, <1>7

\* A stream that is not freed is one of the request that is being served.
LEMMA LiveStream ==
    ASSUME StdioInv, NEW h \in Std, fcgx[h] # None, ~ Freed(h)
    PROVE  /\ req.cur # None /\ pc = "serving" /\ ~ isCGI
           /\ World \in WorldType /\ nreq \in Nat /\ said \in BOOLEAN
           /\ Serving(World, nreq, said, asked)
BY DEF StdioInv, Typed, InCycle, Freed, FinishesRequest

LEMMA StreamCallKeeps ==
    ASSUME StdioInv, NEW h \in Std, NEW w, StreamCall(h, w),
           ~ Freed(h) => /\ w \in WorldType /\ w.req = req /\ w.conn = conn
                         /\ Serving(w, nreq, said', asked),
           Freed(h) => said' = said, said' \in BOOLEAN,
           UNCHANGED <<pc, acceptCalled, isCGI, environ, nreq, asked>>,
           fcgx' = fcgx \/ fcgx' = [fcgx EXCEPT ![h] = None]
    PROVE  StdioInv'
<1>1. fcgx[h] # None
  BY DEF StreamCall, OnStream
<1>2. CASE Freed(h)
  <2>1. UNCHANGED <<str, reply, said>> /\ UNCHANGED CallRest
    BY <1>2 DEF StreamCall, CallRest
  <2> QED
    BY <2>1, CallKeeps
<1>3. CASE ~ Freed(h)
  <2>1. req.cur # None
    BY <1>1, <1>3, LiveStream
  <2>2. World' = w
    BY <1>3, BecomesWorld DEF StreamCall
  <2>3. req' = req /\ conn' = conn
    BY <1>3 DEF StreamCall, Becomes
  <2>4. UNCHANGED CallRest
    BY <2>3 DEF CallRest
  <2>5. World' \in WorldType /\ Serving(World', nreq, said', asked)
    BY <1>3, <2>2
  <2> QED
    BY <2>1, <2>4, <2>5, CallKeeps
<1> QED
  BY <1>2, <1>3

LEMMA OutputKeeps ==
    ASSUME StdioInv, NEW h \in Std, Output(h)
    PROVE  StdioInv'
<1> DEFINE w == IF str[h].closed THEN World
                ELSE Used(World, h, [str[h] EXCEPT !.buf = @ \cup {Now}])
<1>1. /\ StreamCall(h, w) /\ h \in Writers
      /\ said' = (said \/ ~ (str[h].closed \/ Freed(h)))
      /\ UNCHANGED <<pc, acceptCalled, isCGI, environ, nreq, asked>>
      /\ fcgx' = fcgx
  BY DEF Output, stdioRest
<1>2. said \in BOOLEAN
  BY DEF StdioInv, Typed
<1>3. fcgx[h] # None
  BY <1>1 DEF StreamCall, OnStream
<1>4. ASSUME ~ Freed(h)
      PROVE  /\ w \in WorldType /\ w.req = req /\ w.conn = conn
             /\ Serving(w, nreq, said', asked)
  <2>1. /\ pc = "serving" /\ ~ isCGI
        /\ World \in WorldType /\ nreq \in Nat
        /\ Serving(World, nreq, said, asked)
    BY <1>3, <1>4, LiveStream
  <2>2. Now = nreq
    BY <2>1 DEF Now
  <2>3. CASE str[h].closed
    <3>1. w = World
      BY <2>3
    <3>2. said' = said
      BY <1>1, <1>2, <1>4, <2>3
    <3> QED
      BY <2>1, <3>1, <3>2, WorldIs
  <2>4. CASE ~ str[h].closed
    <3>1. w = Printed(World, h, nreq)
      BY <2>2, <2>4, WorldIs DEF Printed
    <3>2. said' \in BOOLEAN
      BY <1>1
    <3>3. ~ World.str[h].closed
      BY <2>4, WorldIs
    <3> HIDE DEF w
    <3>4. /\ w \in WorldType /\ w.req = World.req /\ w.conn = World.conn
          /\ Serving(w, nreq, said', asked)
      <4>1. h \in Writers
        BY <1>1
      <4> QED
        BY <1>2, <2>1, <3>1, <3>2, <3>3, <4>1, OutputServes
    <3> QED
      BY <3>4, WorldIs
  <2> QED
    BY <2>3, <2>4
<1>5. said' \in BOOLEAN /\ (Freed(h) => said' = said)
  BY <1>1, <1>2
<1> HIDE DEF w
<1> QED
  BY <1>1, <1>4, <1>5, StreamCallKeeps

LEMMA InputKeeps ==
    ASSUME StdioInv, NEW h \in Std, Input(h)
    PROVE  StdioInv'
<1> DEFINE w == IF str[h].closed \/ conn[req.fd] = "open" THEN World
                ELSE Used(World, h, SetError(str[h]))
<1>1. /\ StreamCall(h, w) /\ said' = said
      /\ UNCHANGED <<pc, acceptCalled, isCGI, environ, nreq, asked>>
      /\ fcgx' = fcgx
  BY DEF Input, stdioRest
<1>2. said \in BOOLEAN
  BY DEF StdioInv, Typed
<1>3. fcgx[h] # None
  BY <1>1 DEF StreamCall, OnStream
<1>4. ASSUME ~ Freed(h)
      PROVE  /\ w \in WorldType /\ w.req = req /\ w.conn = conn
             /\ Serving(w, nreq, said', asked)
  <2>1. /\ World \in WorldType /\ nreq \in Nat
        /\ Serving(World, nreq, said, asked)
    BY <1>3, <1>4, LiveStream
  <2>2. CASE w = World
    BY <1>1, <2>1, <2>2, WorldIs
  <2>3. CASE w = Used(World, h, SetError(str[h]))
    <3> DEFINE t == SetError(str[h])
    <3>1. str[h] \in StreamType
      <4>1. World.str \in Streams
        BY <2>1, WorldFields
      <4> QED
        BY <4>1, WorldIs DEF Streams
    <3>2. /\ t \in StreamType /\ t.closed
          /\ t.fclosed = World.str[h].fclosed /\ t.buf = World.str[h].buf
      <4>1. t \in StreamType /\ t.closed /\ t.fclosed = str[h].fclosed /\ t.buf = str[h].buf
        BY <3>1, ChangedStream
      <4> QED
        BY <4>1, WorldIs
    <3> HIDE DEF t, w
    <3>3. w = Changed(World, h, t, World.reply)
      BY <2>1, <2>3, <3>2, UsedChanges DEF t
    <3>4. /\ w \in WorldType /\ w.req = World.req /\ w.conn = World.conn
          /\ Serving(w, nreq, said, asked)
      BY <1>2, <2>1, <3>2, <3>3, StreamServes
    <3> QED
      BY <1>1, <3>4, WorldIs
  <2> QED
    BY <2>2, <2>3
<1> HIDE DEF w
<1> QED
  BY <1>1, <1>2, <1>4, StreamCallKeeps

LEMMA FFlushKeeps ==
    ASSUME StdioInv, NEW h \in Std, FCGI_fflush(h)
    PROVE  StdioInv'
<1> DEFINE w == FCGX_FFlush(World, h)
<1>1. /\ StreamCall(h, w) /\ said' = said
      /\ UNCHANGED <<pc, acceptCalled, isCGI, environ, nreq, asked>>
      /\ fcgx' = fcgx
  BY DEF FCGI_fflush, stdioRest
<1>2. said \in BOOLEAN
  BY DEF StdioInv, Typed
<1>3. ASSUME ~ Freed(h)
      PROVE  /\ w \in WorldType /\ w.req = req /\ w.conn = conn
             /\ Serving(w, nreq, said', asked)
  <2>1. /\ World \in WorldType /\ nreq \in Nat
        /\ Serving(World, nreq, said, asked)
    BY <1>1, <1>3, LiveStream DEF StreamCall, OnStream
  <2>2. /\ w \in WorldType /\ w.req = World.req /\ w.conn = World.conn
        /\ Serving(w, nreq, said, asked)
    BY <1>2, <2>1, FFlushServes
  <2> QED
    BY <1>1, <2>2, WorldIs
<1> HIDE DEF w
<1> QED
  BY <1>1, <1>2, <1>3, StreamCallKeeps

LEMMA ClearerrKeeps ==
    ASSUME StdioInv, NEW h \in Std, FCGI_clearerr(h)
    PROVE  StdioInv'
<1> DEFINE w == [World EXCEPT !.str[h].err = FALSE]
<1>1. /\ StreamCall(h, w) /\ said' = said
      /\ UNCHANGED <<pc, acceptCalled, isCGI, environ, nreq, asked>>
      /\ fcgx' = fcgx
  BY DEF FCGI_clearerr, stdioRest
<1>2. said \in BOOLEAN
  BY DEF StdioInv, Typed
<1>3. ASSUME ~ Freed(h)
      PROVE  /\ w \in WorldType /\ w.req = req /\ w.conn = conn
             /\ Serving(w, nreq, said', asked)
  <2> DEFINE t == [World.str[h] EXCEPT !.err = FALSE]
  <2>1. /\ World \in WorldType /\ nreq \in Nat
        /\ Serving(World, nreq, said, asked)
    BY <1>1, <1>3, LiveStream DEF StreamCall, OnStream
  <2>2. World.str[h] \in StreamType
    BY <2>1 DEF WorldType
  <2>3. /\ t \in StreamType /\ t.closed = World.str[h].closed
        /\ t.fclosed = World.str[h].fclosed /\ t.buf = World.str[h].buf
    BY <2>2 DEF StreamType
  <2>4. w = Changed(World, h, t, World.reply)
    BY <2>1 DEF Changed, WorldType
  <2> HIDE DEF t, w
  <2>5. /\ w \in WorldType /\ w.req = World.req /\ w.conn = World.conn
        /\ Serving(w, nreq, said, asked)
    BY <1>2, <2>1, <2>3, <2>4, StreamServes
  <2> QED
    BY <1>1, <2>5, WorldIs
<1> HIDE DEF w
<1> QED
  BY <1>1, <1>2, <1>3, StreamCallKeeps

\* fclose and freopen close the stream, and may take it out of the FCGI_FILE.
LEMMA CloseStreamKeeps ==
    ASSUME StdioInv, NEW h \in Std, StreamCall(h, FCGX_FClose(World, h)), said' = said,
           UNCHANGED <<pc, acceptCalled, isCGI, environ, nreq, asked>>,
           fcgx' = fcgx \/ fcgx' = [fcgx EXCEPT ![h] = None]
    PROVE  StdioInv'
<1> DEFINE w == FCGX_FClose(World, h)
<1>1. StreamCall(h, w)
  OBVIOUS
<1>2. said \in BOOLEAN
  BY DEF StdioInv, Typed
<1>3. ASSUME ~ Freed(h)
      PROVE  /\ w \in WorldType /\ w.req = req /\ w.conn = conn
             /\ Serving(w, nreq, said', asked)
  <2>1. /\ World \in WorldType /\ nreq \in Nat
        /\ Serving(World, nreq, said, asked)
    BY <1>1, <1>3, LiveStream DEF StreamCall, OnStream
  <2>2. /\ w \in WorldType /\ w.req = World.req /\ w.conn = World.conn
        /\ Serving(w, nreq, said, asked)
    BY <1>2, <2>1, FCloseServes
  <2> QED
    BY <2>2, WorldIs
<1> HIDE DEF w
<1> QED
  BY <1>1, <1>2, <1>3, StreamCallKeeps

\* A step that leaves alone all that the invariant is about.
LEMMA UnrelatedKeeps ==
    ASSUME StdioInv, UNCHANGED CallRest, UNCHANGED <<fcgx, str, reply, said>>
    PROVE  StdioInv'
<1>1. said' \in BOOLEAN
  BY DEF StdioInv, Typed
<1> QED
  BY <1>1, CallKeeps

LEMMA CallsKeep ==
    ASSUME StdioInv, NEW h \in Uses, Call(h)
    PROVE  StdioInv'
<1>1. h \in Std
  BY StdioAssumption DEF Std
<1>2. CASE Output(h) \/ Input(h) \/ FCGI_fflush(h) \/ FCGI_clearerr(h)
  BY <1>1, <1>2, OutputKeeps, InputKeeps, FFlushKeeps, ClearerrKeeps
<1>3. CASE FCGI_fclose(h)
  <2>1. said' = said /\ UNCHANGED <<pc, acceptCalled, isCGI, environ, nreq, asked>>
    BY <1>3 DEF FCGI_fclose, fileRest
  <2>2. CASE UNCHANGED <<streamRest, fcgx>>
    <3>1. UNCHANGED CallRest /\ UNCHANGED <<fcgx, str, reply, said>>
      BY <2>1, <2>2 DEF streamRest, CallRest
    <3> QED
      BY <3>1, UnrelatedKeeps
  <2>3. CASE /\ StreamCall(h, FCGX_FClose(World, h))
             /\ fcgx' = [fcgx EXCEPT ![h] = None]
    BY <1>1, <2>1, <2>3, CloseStreamKeeps
  <2> QED
    BY <1>3, <2>2, <2>3 DEF FCGI_fclose
<1>4. CASE FreopenFILE(h)
  <2>1. UNCHANGED CallRest /\ UNCHANGED <<fcgx, str, reply, said>>
    BY <1>4 DEF FreopenFILE, streamRest, fileRest, CallRest
  <2> QED
    BY <2>1, UnrelatedKeeps
<1>5. CASE FreopenStream(h)
  <2>1. /\ said' = said /\ UNCHANGED <<pc, acceptCalled, isCGI, environ, nreq, asked>>
        /\ StreamCall(h, FCGX_FClose(World, h))
        /\ fcgx' = fcgx \/ fcgx' = [fcgx EXCEPT ![h] = None]
    BY <1>5 DEF FreopenStream, fileRest
  <2> QED
    BY <1>1, <2>1, CloseStreamKeeps
<1> QED
  BY <1>2, <1>3, <1>4, <1>5 DEF Call

LEMMA StartFilterDataKeeps ==
    ASSUME StdioInv, FCGI_StartFilterData
    PROVE  StdioInv'
<1> DEFINE h == "stdin"
<1>1. h \in Std
  BY DEF Std
<1>2. UNCHANGED CallRest /\ UNCHANGED <<fcgx, reply, said>>
  BY DEF FCGI_StartFilterData, stdioRest, CallRest
<1>3. CASE fcgx[h] = None \/ Freed(h)
  <2>1. str' = str
    BY <1>3 DEF FCGI_StartFilterData
  <2> QED
    BY <1>2, <2>1, UnrelatedKeeps
<1>4. CASE ~ (fcgx[h] = None \/ Freed(h))
  <2> DEFINE t == SetError(World.str[h])
  <2>1. str' = [str EXCEPT ![h] = SetError(str[h])]
    BY <1>4 DEF FCGI_StartFilterData
  <2>2. /\ req.cur # None /\ World \in WorldType /\ nreq \in Nat /\ said \in BOOLEAN
        /\ Serving(World, nreq, said, asked)
    BY <1>1, <1>4, LiveStream
  <2>3. World.str[h] \in StreamType
    BY <1>1, <2>2 DEF WorldType
  <2>4. /\ t \in StreamType /\ t.closed
        /\ t.fclosed = World.str[h].fclosed /\ t.buf = World.str[h].buf
    BY <2>3, ChangedStream
  <2>5. World' = Changed(World, h, t, World.reply)
    <3>1. req' = req /\ conn' = conn /\ reply' = reply
      BY <1>2 DEF CallRest
    <3>2. str' = [str EXCEPT ![h] = t]
      BY <2>1, WorldIs
    <3>3. World.reply \in ReplyType
      BY <2>2, WorldFields
    <3> HIDE DEF t, h
    <3>4. Changed(World, h, t, World.reply) =
            [str |-> [World.str EXCEPT ![h] = t], reply |-> World.reply,
             req |-> World.req, conn |-> World.conn]
      BY <1>1, <2>2, <2>4, <3>3, ChangedIs
    <3> QED
      BY <3>1, <3>2, <3>4, WorldIs DEF World
  <2> HIDE DEF t, h
  <2>6. World' \in WorldType /\ Serving(World', nreq, said, asked)
    BY <1>1, <2>2, <2>4, <2>5, StreamServes
  <2> QED
    <3>1. said' = said /\ UNCHANGED CallRest /\ fcgx' = fcgx
      BY <1>2
    <3>2. said' \in BOOLEAN /\ Serving(World', nreq, said', asked)
      BY <2>2, <2>6, <3>1
    <3> QED
      BY <2>2, <2>6, <3>1, <3>2, CallKeeps
<1> QED
  BY <1>3, <1>4

LEMMA ReqFields ==
    ASSUME NEW r \in ReqType
    PROVE  r.fd \in Conns \cup {None} /\ r.cur \in Nat /\ r.keep \in BOOLEAN /\ r.status \in Nat
BY DEF ReqType

LEMMA SetExitStatusKeeps ==
    ASSUME StdioInv, FCGI_SetExitStatus(Status)
    PROVE  StdioInv'
<1> DEFINE h == "stdin"
<1>1. h \in Std
  BY DEF Std
<1>2. /\ UNCHANGED <<pc, acceptCalled, isCGI, fcgx, environ, nreq, str, reply, said, conn>>
      /\ fcgx[h] # None
  BY DEF FCGI_SetExitStatus, server
<1>3. CASE Freed(h)
  <2>1. UNCHANGED CallRest /\ UNCHANGED <<fcgx, str, reply, said>>
    BY <1>2, <1>3 DEF FCGI_SetExitStatus, CallRest
  <2> QED
    BY <2>1, UnrelatedKeeps
<1>4. CASE ~ Freed(h)
  <2>1. /\ req' = [req EXCEPT !.status = Status]
        /\ asked' = IF reply.ended > 0 THEN asked ELSE Status
    BY <1>4 DEF FCGI_SetExitStatus
  <2>2. /\ req.cur # None /\ World \in WorldType /\ nreq \in Nat /\ said \in BOOLEAN
        /\ pc = "serving" /\ Serving(World, nreq, said, asked)
    BY <1>1, <1>2, <1>4, LiveStream
  <2> HIDE DEF h
  <2>3. /\ str \in Streams /\ reply \in ReplyType /\ req \in ReqType /\ conn \in ConnStates
    BY <2>2, WorldFields, WorldIs
  <2>4. /\ req' \in ReqType /\ req'.fd = req.fd /\ req'.cur = req.cur /\ req'.keep = req.keep
        /\ req'.status = Status
    BY <2>1, <2>3 DEF ReqType, Status
  <2>5. World' \in WorldType
    BY <1>2, <2>3, <2>4, MadeWorld DEF World
  <2>6. asked' \in Nat /\ reply.ended \in {0, 1}
    BY <2>1, <2>2, WorldIs DEF StdioInv, Typed, Serving, Status
  <2>7. Serving(World', nreq, said, asked')
    BY <1>2, <2>1, <2>2, <2>4, <2>6, WorldIs DEF Serving, Status
  <2>8. Connected(World')
    BY <1>2, <2>2, <2>4, WorldIs DEF StdioInv, Connected
  <2>9. Typed'
    BY <1>2, <2>5, <2>6 DEF StdioInv, Typed
  <2>10. InCycle'
    BY <1>2, <2>4 DEF StdioInv, InCycle, FinishesRequest
  <2> QED
    BY <1>2, <2>2, <2>4, <2>7, <2>8, <2>9, <2>10 DEF StdioInv
<1> QED
  BY <1>3, <1>4

LEMMA ServerLeavesKeeps ==
    ASSUME StdioInv, ServerLeaves
    PROVE  StdioInv'
<1>1. PICK c \in Conns : conn[c] = "open" /\ conn' = [conn EXCEPT ![c] = "broken"]
  BY DEF ServerLeaves
<1>2. UNCHANGED <<pc, acceptCalled, isCGI, fcgx, environ, nreq, str, reply, said, asked, req>>
  BY DEF ServerLeaves, serverRest, app, lib
<1>3. World \in WorldType /\ pc # "exited" /\ Connected(World)
  BY <1>1 DEF StdioInv, Typed
<1>4. str \in Streams /\ reply \in ReplyType /\ req \in ReqType /\ conn \in ConnStates
  BY <1>3, WorldFields, WorldIs
<1>5. conn' \in ConnStates
  BY <1>1, <1>4 DEF ConnStates
<1>6. World' \in WorldType
  BY <1>2, <1>4, <1>5, MadeWorld DEF World
<1>7. Connected(World')
  BY <1>1, <1>2, <1>3, <1>4, WorldIs DEF Connected, ConnStates
<1>8. req.fd # None => req.fd \in Conns
  BY <1>4, ReqFields
<1>9. req.fd \in Conns => (conn'[req.fd] = "open" => conn[req.fd] = "open")
  BY <1>1, <1>4 DEF ConnStates
<1>10. Serving(World, nreq, said, asked) => Serving(World', nreq, said, asked)
  BY <1>2, <1>8, <1>9, WorldIs DEF Serving
<1>11. Typed'
  BY <1>2, <1>6 DEF StdioInv, Typed
<1>12. InCycle'
  BY <1>2 DEF StdioInv, InCycle, FinishesRequest
<1> QED
  BY <1>2, <1>3, <1>7, <1>10, <1>11, <1>12 DEF StdioInv

-----------------------------------------------------------------------------
(* The cycle of requests *)

LEMMA InitStdioInv == Init => StdioInv
<1> SUFFICES ASSUME Init
             PROVE  StdioInv
  OBVIOUS
<1>1. NewStreams \in Streams
  BY NewStreamsTyped
<1>2. reply \in ReplyType /\ reply.got = {} /\ reply.ended = 0
  BY DEF Init, NoReply, ReplyType, NoStatus
<1>3. req \in ReqType /\ req.cur = None /\ req.fd = None
  BY DEF Init, ReqType, None, NoStatus
<1>4. conn \in ConnStates /\ \A c \in Conns : conn[c] = "waiting"
  BY DEF Init, ConnStates
<1>5. str = NewStreams
  BY DEF Init
<1>6. World \in WorldType
  BY <1>1, <1>2, <1>3, <1>4, <1>5, MadeWorld DEF World
<1>7. Typed
  <2>1. acceptCalled \in BOOLEAN /\ isCGI \in BOOLEAN /\ said \in BOOLEAN
    BY DEF Init
  <2>2. fcgx \in [Std -> Nat] /\ environ \in Int /\ nreq \in Nat /\ asked \in Nat
    BY DEF Init, None, OwnEnviron, NoStatus
  <2>3. pc = "start"
    BY DEF Init
  <2> QED
    BY <1>6, <2>1, <2>2, <2>3 DEF Typed
<1>8. InCycle
  BY <1>3 DEF Init, InCycle, FinishesRequest, InAccept
<1>9. None \notin Conns
  BY StdioAssumption DEF None, Conns
<1>10. Connected(World)
  BY <1>3, <1>4, <1>9, WorldIs DEF Connected
<1>11. Answered(reply, nreq, said, asked)
  <2>1. nreq = 0
    BY DEF Init
  <2> QED
    BY <1>2, <2>1 DEF Answered
<1>12. pc = "start"
  BY DEF Init
<1> QED
  BY <1>3, <1>7, <1>8, <1>10, <1>11, <1>12 DEF StdioInv

\* What FCGX_Finish_r leaves behind.
LEMMA FinishKeeps ==
    ASSUME StdioInv, pc # "exited", NEW e, e = FCGX_Finish_r(World)
    PROVE  /\ e \in WorldType /\ e.str = NewStreams /\ e.req.cur = None
           /\ Connected(e) /\ Answered(e.reply, nreq, said, asked)
<1>1. /\ World \in WorldType /\ Connected(World) /\ nreq \in Nat /\ said \in BOOLEAN
      /\ World.req.cur # None => Serving(World, nreq, said, asked)
      /\ World.req.cur = None => Answered(World.reply, nreq, said, asked)
  BY WorldIs DEF StdioInv, Typed
<1> QED
  BY <1>1, FinishAnswers

LEMMA AcceptKeeps ==
    ASSUME StdioInv, FCGI_Accept
    PROVE  StdioInv'
<1>1. CASE AcceptAsCGI
  <2>1. /\ UNCHANGED <<environ, req, str, nreq, reply, said, asked, conn>>
        /\ acceptCalled' = TRUE /\ isCGI' = TRUE /\ fcgx' = [h \in Std |-> None]
        /\ pc' = "serving" /\ ~ acceptCalled /\ pc # "exited"
    BY <1>1 DEF AcceptAsCGI, lib, server, MayAccept
  <2>2. World' = World
    BY <2>1 DEF World
  <2>3. ~ FinishesRequest /\ ~ FinishesRequest'
    BY <2>1 DEF FinishesRequest
  <2>4. req.cur = None
    BY <2>3 DEF StdioInv, InCycle
  <2>5. Typed'
    BY <2>1, <2>2 DEF StdioInv, Typed, None
  <2>6. InCycle'
    BY <2>1, <2>3, <2>4 DEF StdioInv, InCycle, InAccept
  <2> QED
    BY <2>1, <2>2, <2>4, <2>5, <2>6 DEF StdioInv
<1>2. CASE AcceptAgainAsCGI
  <2>1. /\ UNCHANGED <<environ, req, str, nreq, reply, said, asked, conn, acceptCalled,
                       isCGI, fcgx>>
        /\ acceptCalled /\ isCGI
        /\ pc' = "refused" /\ pc # "exited"
    BY <1>2 DEF AcceptAgainAsCGI, app, lib, server, MayAccept
  <2>2. World' = World
    BY <2>1 DEF World
  <2>3. ~ FinishesRequest /\ ~ FinishesRequest'
    BY <2>1 DEF FinishesRequest
  <2>4. req.cur = None
    BY <2>3 DEF StdioInv, InCycle
  <2>5. Typed'
    BY <2>1, <2>2 DEF StdioInv, Typed
  <2>6. InCycle'
    BY <2>1, <2>3, <2>4 DEF StdioInv, InCycle, InAccept
  <2> QED
    BY <2>1, <2>2, <2>4, <2>5, <2>6 DEF StdioInv
<1>3. CASE AcceptAsFastCGI
  <2> DEFINE e == FCGX_Finish_r(World)
  <2>1. /\ UNCHANGED <<isCGI, fcgx, environ, nreq, said, asked>>
        /\ acceptCalled' = TRUE /\ Becomes(e)
        /\ pc' = (IF req'.fd = None THEN "accepting" ELSE "reading")
        /\ pc # "exited" /\ (acceptCalled => ~ isCGI)
    BY <1>3 DEF AcceptAsFastCGI, MayAccept
  <2>2. /\ e \in WorldType /\ e.str = NewStreams /\ e.req.cur = None
        /\ Connected(e) /\ Answered(e.reply, nreq, said, asked)
    BY <2>1, FinishKeeps
  <2> HIDE DEF e
  <2>3. World' = e
    BY <2>1, <2>2, BecomesWorld
  <2>4. req'.cur = None
    BY <2>2, <2>3, WorldIs
  <2>5. FinishesRequest'
    BY <2>1 DEF FinishesRequest, StdioInv, InCycle
  <2>6. Typed'
    BY <2>1, <2>2, <2>3 DEF StdioInv, Typed
  <2>7. InCycle'
    BY <2>1, <2>4, <2>5 DEF InCycle
  <2> QED
    BY <2>1, <2>2, <2>3, <2>4, <2>6, <2>7, WorldIs DEF StdioInv
<1> QED
  BY <1>1, <1>2, <1>3 DEF FCGI_Accept

LEMMA OsAcceptKeeps ==
    ASSUME StdioInv, OsAcceptFails \/ OsAcceptSucceeds
    PROVE  StdioInv'
<1>1. UNCHANGED <<acceptCalled, isCGI, fcgx, environ, nreq, str, reply, said, asked>>
      /\ pc = "accepting"
  BY DEF OsAcceptFails, OsAcceptSucceeds, app, lib
<1>2. /\ FinishesRequest /\ FinishesRequest' /\ req.cur = None /\ req.fd = None
  BY <1>1 DEF StdioInv, InCycle, InAccept, FinishesRequest
<1>3. CASE OsAcceptFails
  <2>1. req' = req /\ conn' = conn /\ pc' = "refused"
    BY <1>3 DEF OsAcceptFails, lib, server
  <2>2. World' = World
    BY <1>1, <2>1 DEF World
  <2>3. Typed'
    BY <1>1, <2>1, <2>2 DEF StdioInv, Typed
  <2>4. InCycle'
    BY <1>1, <1>2, <2>1 DEF StdioInv, InCycle, InAccept
  <2> QED
    BY <1>1, <1>2, <2>1, <2>2, <2>3, <2>4 DEF StdioInv
<1>4. CASE OsAcceptSucceeds
  <2>1. PICK c \in Conns : /\ conn' = [conn EXCEPT ![c] = "open"]
                           /\ req' = [req EXCEPT !.fd = c]
    BY <1>4 DEF OsAcceptSucceeds
  <2>2. pc' = "reading"
    BY <1>4 DEF OsAcceptSucceeds
  <2>3. str \in Streams /\ reply \in ReplyType /\ req \in ReqType /\ conn \in ConnStates
    BY WorldFields, WorldIs DEF StdioInv, Typed
  <2>4. req' \in ReqType /\ req'.fd = c /\ req'.cur = None
    BY <1>2, <2>1, <2>3 DEF ReqType
  <2>5. conn' \in ConnStates
    BY <2>1, <2>3 DEF ConnStates
  <2>6. World' \in WorldType
    BY <1>1, <2>3, <2>4, <2>5, MadeWorld DEF World
  <2>7. None \notin Conns
    BY StdioAssumption DEF None, Conns
  <2>8. Connected(World')
    <3>1. \A d \in Conns : conn[d] \notin {"open", "broken"}
      BY <1>1, <1>2, <2>7, WorldIs DEF StdioInv, Connected
    <3> QED
      BY <2>1, <2>3, <2>4, <3>1, WorldIs DEF Connected, ConnStates
  <2>9. Typed'
    BY <1>1, <2>2, <2>6 DEF StdioInv, Typed
  <2>10. InCycle'
    BY <1>1, <1>2, <2>2, <2>4, <2>7 DEF StdioInv, InCycle, InAccept
  <2> QED
    BY <1>1, <1>2, <2>2, <2>4, <2>8, <2>9, <2>10 DEF StdioInv
<1> QED
  BY <1>3, <1>4

LEMMA ReadFailsKeeps ==
    ASSUME StdioInv, ReadFails
    PROVE  StdioInv'
<1> DEFINE w == FreedClosed(World)
<1>1. /\ UNCHANGED <<acceptCalled, isCGI, fcgx, environ, nreq, said, asked>>
      /\ pc = "reading" /\ pc' = "accepting"
  BY DEF ReadFails, app
<1>2. World \in WorldType /\ Connected(World) /\ req.cur = None
      /\ FinishesRequest /\ FinishesRequest'
  BY <1>1 DEF StdioInv, Typed, InCycle, InAccept, FinishesRequest
<1>3. req.keep \in BOOLEAN
  BY <1>2, WorldFields, WorldIs, ReqFields
<1>4. PICK keep \in BOOLEAN : Becomes([w EXCEPT !.req.keep = keep])
  BY <1>3 DEF ReadFails, FreedClosed
<1>5. w \in WorldType /\ w.reply = reply /\ w.req.cur = None /\ Connected(w)
  BY <1>2, FreeConnected, WorldIs
<1>6. w.req.fd = None
  BY <1>2, FreeCloses
<1> HIDE DEF w
<1>7. /\ str' = w.str /\ reply' = w.reply /\ conn' = w.conn
      /\ req' = [w.req EXCEPT !.keep = keep]
  BY <1>4, <1>5 DEF Becomes, WorldType
<1>8. w.str \in Streams /\ w.reply \in ReplyType /\ w.req \in ReqType /\ w.conn \in ConnStates
  BY <1>5, WorldFields
<1>9. req' \in ReqType /\ req'.fd = None /\ req'.cur = None
  BY <1>5, <1>6, <1>7, <1>8 DEF ReqType
<1>10. World' \in WorldType
  BY <1>7, <1>8, <1>9, MadeWorld DEF World
<1>11. Connected(World')
  BY <1>5, <1>6, <1>7, <1>9, WorldIs DEF Connected
<1>12. Typed'
  BY <1>1, <1>10 DEF StdioInv, Typed
<1>13. InCycle'
  BY <1>1, <1>2, <1>9 DEF StdioInv, InCycle, InAccept
<1>14. Answered(reply', nreq', said', asked')
  BY <1>1, <1>2, <1>5, <1>7 DEF StdioInv
<1> QED
  BY <1>1, <1>9, <1>11, <1>12, <1>13, <1>14 DEF StdioInv

LEMMA ReadRequestKeeps ==
    ASSUME StdioInv, ReadRequest
    PROVE  StdioInv'
<1> DEFINE keep == sent[req.fd] = "keep"
<1>1. /\ UNCHANGED <<acceptCalled, isCGI, conn>>
      /\ pc = "reading" /\ pc' = "serving" /\ nreq' = nreq + 1 /\ str' = NewStreams
      /\ fcgx' = [h \in Std |-> nreq + 1] /\ environ' = nreq + 1
      /\ reply' = NoReply /\ asked' = NoStatus
  BY DEF ReadRequest
<1>2. said' \in BOOLEAN /\ ~ said'
  BY DEF ReadRequest
<1>3. req' = [req EXCEPT !.cur = nreq + 1, !.keep = keep]
  BY DEF ReadRequest
<1>4. keep \in BOOLEAN
  OBVIOUS
<1> HIDE DEF keep
<1>5. World \in WorldType /\ Connected(World) /\ nreq \in Nat
      /\ FinishesRequest /\ FinishesRequest' /\ req.fd # None
  BY <1>1 DEF StdioInv, Typed, InCycle, InAccept, FinishesRequest
<1>6. req \in ReqType /\ conn \in ConnStates
  BY <1>5, WorldFields, WorldIs
<1>7. req' \in ReqType /\ req'.fd = req.fd /\ req'.cur = nreq + 1
  <2> DEFINE m == nreq + 1
  <2>1. m \in Nat /\ req' = [req EXCEPT !.cur = m, !.keep = keep]
    BY <1>3, <1>5
  <2> HIDE DEF m
  <2>2. req' \in ReqType /\ req'.fd = req.fd /\ req'.cur = m
    BY <1>4, <1>6, <2>1 DEF ReqType
  <2> QED
    BY <2>2 DEF m
<1>8. reply' \in ReplyType /\ reply'.got = {} /\ reply'.ended = 0
  BY <1>1 DEF NoReply, ReplyType, NoStatus
<1>9. World' \in WorldType
  <2>1. str' \in Streams /\ conn' \in ConnStates
    BY <1>1, <1>6, NewStreamsTyped
  <2> QED
    BY <1>7, <1>8, <2>1, MadeWorld DEF World
<1>10. Connected(World')
  BY <1>1, <1>5, <1>7, WorldIs DEF Connected
<1>11. Serving(World', nreq', said', asked')
  <2>1. \A k \in Std : ~ str'[k].fclosed /\ ~ str'[k].closed /\ str'[k].buf = {}
    BY <1>1, NewStreamsTyped
  <2>2. ~ \A k \in Writers : str'[k].fclosed
    BY <2>1 DEF Writers, Std
  <2> QED
    BY <1>1, <1>2, <1>5, <1>7, <1>8, <2>1, <2>2, WorldIs DEF Serving, Writers, Std
<1>12. Typed'
  BY <1>1, <1>2, <1>5, <1>9 DEF StdioInv, Typed, NoStatus
<1>13. InCycle'
  BY <1>1, <1>5, <1>7 DEF StdioInv, InCycle, InAccept
<1>14. req'.cur # None
  BY <1>5, <1>7 DEF None
<1> QED
  BY <1>1, <1>10, <1>11, <1>12, <1>13, <1>14 DEF StdioInv

LEMMA AppFinishesKeeps ==
    ASSUME StdioInv, AppFinishes
    PROVE  StdioInv'
<1> DEFINE e == FCGX_Finish_r(World)
<1>1. /\ UNCHANGED <<acceptCalled, isCGI, nreq, said, asked>>
      /\ FinishesRequest /\ FinishesRequest' /\ Becomes(e)
      /\ fcgx' = [h \in Std |-> None] /\ environ' = None
      /\ pc # "exited" /\ pc' \in {"refused", "done"}
  BY DEF AppFinishes, FCGI_Finish, FinishesRequest
<1>2. /\ e \in WorldType /\ e.str = NewStreams /\ e.req.cur = None
      /\ Connected(e) /\ Answered(e.reply, nreq, said, asked)
  BY <1>1, FinishKeeps
<1> HIDE DEF e
<1>3. World' = e
  BY <1>1, <1>2, BecomesWorld
<1>4. req'.cur = None
  BY <1>2, <1>3, WorldIs
<1>5. Typed'
  BY <1>1, <1>2, <1>3 DEF StdioInv, Typed, None
<1>6. InCycle'
  BY <1>1, <1>4 DEF StdioInv, InCycle, InAccept
<1> QED
  BY <1>1, <1>2, <1>3, <1>4, <1>5, <1>6, WorldIs DEF StdioInv

LEMMA ExitKeeps ==
    ASSUME StdioInv, Exit
    PROVE  StdioInv'
<1>1. /\ UNCHANGED <<acceptCalled, isCGI, nreq, said, asked>>
      /\ FinishesRequest' = FinishesRequest
      /\ pc # "exited" /\ pc' = "exited"
  BY DEF Exit, FinishesRequest
<1>2. CASE FinishesRequest
  <2> DEFINE w == FCGX_Finish_r(World)
             cn == [c \in Conns |-> IF c = w.req.fd THEN "closed" ELSE w.conn[c]]
  <2>1. /\ Becomes([w EXCEPT !.conn = cn])
        /\ fcgx' = [h \in Std |-> None] /\ environ' = None
    BY <1>2 DEF Exit
  <2>2. /\ w \in WorldType /\ w.req.cur = None
        /\ Connected(w) /\ Answered(w.reply, nreq, said, asked)
    BY <1>1, FinishKeeps
  <2> HIDE DEF w
  <2>3. w.str \in Streams /\ w.reply \in ReplyType /\ w.req \in ReqType /\ w.conn \in ConnStates
    BY <2>2, WorldFields
  <2>4. cn \in ConnStates /\ \A c \in Conns : cn[c] \notin {"open", "broken"}
    BY <2>2, <2>3 DEF ConnStates, Connected
  <2> HIDE DEF cn
  <2>5. str' = w.str /\ reply' = w.reply /\ req' = w.req /\ conn' = cn
    BY <2>1, <2>2 DEF Becomes, WorldType
  <2>6. World' \in WorldType
    BY <2>3, <2>4, <2>5, MadeWorld DEF World
  <2>7. Typed'
    BY <1>1, <2>1, <2>6 DEF StdioInv, Typed, None
  <2>8. InCycle'
    BY <1>1, <1>2, <2>1, <2>2, <2>5 DEF StdioInv, InCycle, InAccept
  <2> QED
    BY <1>1, <2>2, <2>4, <2>5, <2>7, <2>8 DEF StdioInv
<1>3. CASE ~ FinishesRequest
  <2>1. UNCHANGED <<str, reply, req, conn, fcgx, environ>>
    BY <1>3 DEF Exit
  <2>2. World' = World
    BY <2>1 DEF World
  <2>3. req.cur = None /\ req.fd = None
    BY <1>3 DEF StdioInv, InCycle
  <2>4. None \notin Conns
    BY StdioAssumption DEF None, Conns
  <2>5. \A c \in Conns : conn[c] \notin {"open", "broken"}
    BY <1>1, <2>3, <2>4, WorldIs DEF StdioInv, Connected
  <2>6. Typed'
    BY <1>1, <2>1, <2>2 DEF StdioInv, Typed
  <2>7. InCycle'
    BY <1>1, <1>3, <2>1, <2>3 DEF StdioInv, InCycle, InAccept
  <2> QED
    BY <1>1, <2>1, <2>3, <2>5, <2>6, <2>7 DEF StdioInv
<1> QED
  BY <1>2, <1>3

\* The steps that change none of it.
LEMMA OthersKeep ==
    ASSUME StdioInv,
           \/ GetEnv \/ ServerSends \/ Shutdown \/ UNCHANGED vars
           \/ \E f \in Files : Open(f) \/ CloseOpened(f) \/ FreopenOpened(f)
    PROVE  StdioInv'
<1>1. CASE GetEnv
  BY <1>1, UnrelatedKeeps DEF GetEnv, stdioRest, CallRest
<1>2. CASE ServerSends \/ Shutdown \/ UNCHANGED vars
  BY <1>2, UnrelatedKeeps
  DEF ServerSends, Shutdown, vars, serverRest, app, lib, server, CallRest
<1>3. CASE \E f \in Files : Open(f) \/ CloseOpened(f) \/ FreopenOpened(f)
  BY <1>3, UnrelatedKeeps DEF Open, CloseOpened, FreopenOpened, fileRest, streamRest, CallRest
<1> QED
  BY <1>1, <1>2, <1>3

\* StdioInv is an invariant.
LEMMA StdioInvariant == Spec => []StdioInv
<1>1. StdioInv /\ [Next]_vars => StdioInv'
  <2> SUFFICES ASSUME StdioInv, [Next]_vars
               PROVE  StdioInv'
    OBVIOUS
  <2>1. CASE FCGI_Accept \/ OsAcceptFails \/ OsAcceptSucceeds \/ ReadFails \/ ReadRequest
    BY <2>1, AcceptKeeps, OsAcceptKeeps, ReadFailsKeeps, ReadRequestKeeps
  <2>2. CASE AppFinishes \/ Exit \/ \E h \in Uses : Call(h)
    BY <2>2, AppFinishesKeeps, ExitKeeps, CallsKeep
  <2>3. CASE FCGI_StartFilterData \/ FCGI_SetExitStatus(Status) \/ ServerLeaves
    BY <2>3, StartFilterDataKeeps, SetExitStatusKeeps, ServerLeavesKeeps
  <2>4. CASE \/ GetEnv \/ ServerSends \/ Shutdown \/ UNCHANGED vars
             \/ \E f \in Files : Open(f) \/ CloseOpened(f) \/ FreopenOpened(f)
    BY <2>4, OthersKeep
  <2> QED
    BY <2>1, <2>2, <2>3, <2>4 DEF Next
<1> QED
  BY InitStdioInv, <1>1, PTL DEF Spec

-----------------------------------------------------------------------------
(* The theorems *)

(***************************************************************************)
(* The process holds no connection but the one in the_request, and none    *)
(* after exit, in whatever order it accepts, finishes, fails and exits     *)
(* (FCGX_Free, fcgiapp.c:2075).                                            *)
(***************************************************************************)
THEOREM ConnectionsGivenBack == Spec => []ConnectionsAccounted
<1>1. StdioInv => ConnectionsAccounted
  BY WorldIs DEF StdioInv, Connected, ConnectionsAccounted
<1> QED
  BY StdioInvariant, <1>1, PTL

(***************************************************************************)
(* A request is answered once, however its streams were closed, unless its *)
(* connection was gone; the Web server gets for it only what was printed   *)
(* while it was served, all of that when the request ends, and the last    *)
(* status that was set.  This holds for careless applications too, which   *)
(* use a stream after it was freed.                                        *)
(***************************************************************************)
THEOREM AnsweredOnce == Spec => []OneReply
<1>1. ASSUME StdioInv
      PROVE  OneReply
  <2>1. CASE req.cur = None
    BY <1>1, <2>1 DEF StdioInv, Answered, OneReply
  <2>2. CASE req.cur # None
    <3>1. Serving(World, nreq, said, asked) /\ pc # "exited"
      BY <1>1, <2>2 DEF StdioInv, InCycle
    <3> QED
      BY <2>2, <3>1, WorldIs DEF Serving, OneReply
  <2> QED
    BY <2>1, <2>2
<1> QED
  BY StdioInvariant, <1>1, PTL

\* A stream that the application can reach is not freed.
LEMMA ReachableStream ==
    ASSUME StdioInv, Careless = {}, Running, NEW h \in Std, fcgx[h] # None
    PROVE  ~ Freed(h)
<1>1. FinishesRequest
  BY DEF StdioInv, InCycle
<1>2. pc \in {"start", "serving", "done"} \/ (pc = "refused" /\ isCGI)
  BY DEF Running
<1>3. pc = "serving"
  BY <1>1, <1>2 DEF StdioInv, InCycle, FinishesRequest
<1> QED
  BY <1>1, <1>3 DEF StdioInv, InCycle, Freed

(***************************************************************************)
(* No call uses a stream or an environment after FCGI_Accept or            *)
(* FCGI_Finish has freed it, whatever was closed, reopened or finished     *)
(* before, in an application that stops using the FCGI_FILEs when          *)
(* FCGI_Accept refuses and does not filter a stdin that it has closed.     *)
(***************************************************************************)
THEOREM FreedNeverUsed ==
    ASSUME Careless = {}
    PROVE  Spec => []NoFreedUse
<1> DEFINE Inv == StdioInv /\ ~ misuse
<1>1. ASSUME StdioInv, ~ misuse, [Next]_vars
      PROVE  ~ misuse'
  <2>1. CASE \/ FCGI_Accept \/ OsAcceptFails \/ OsAcceptSucceeds \/ ReadFails \/ ReadRequest
             \/ AppFinishes \/ Exit \/ ServerSends \/ ServerLeaves \/ Shutdown
             \/ UNCHANGED vars
    BY <1>1, <2>1
    DEF FCGI_Accept, AcceptAsCGI, AcceptAgainAsCGI, AcceptAsFastCGI, OsAcceptFails,
        OsAcceptSucceeds, ReadFails, ReadRequest, AppFinishes, Exit, ServerSends,
        ServerLeaves, Shutdown, serverRest, app, vars
  <2>2. ASSUME NEW h \in Uses, NEW w, StreamCall(h, w)
        PROVE  ~ misuse'
    <3>1. h \in Std /\ Running /\ fcgx[h] # None /\ misuse' = (misuse \/ Freed(h))
      BY <2>2, StdioAssumption DEF StreamCall, OnStream, Std
    <3> QED
      BY <1>1, <3>1, ReachableStream
  <2>3. ASSUME NEW h \in Uses, Call(h)
        PROVE  ~ misuse'
    BY <1>1, <2>2, <2>3
    DEF Call, Output, Input, FCGI_fflush, FCGI_clearerr, FCGI_fclose, FreopenFILE,
        FreopenStream, streamRest
  <2>4. CASE \E f \in Files : Open(f) \/ CloseOpened(f) \/ FreopenOpened(f)
    BY <1>1, <2>4 DEF Open, CloseOpened, FreopenOpened, streamRest
  <2>5. CASE FCGI_StartFilterData
    <3>1. "stdin" \in Std /\ Running /\ fcgx["stdin"] # None
      BY <2>5 DEF FCGI_StartFilterData, Std
    <3>2. ~ Freed("stdin")
      BY <1>1, <3>1, ReachableStream
    <3> QED
      BY <1>1, <2>5, <3>1, <3>2 DEF FCGI_StartFilterData
  <2>6. CASE FCGI_SetExitStatus(Status)
    <3>1. /\ "stdin" \in Std /\ Running /\ fcgx["stdin"] # None
          /\ misuse' = (misuse \/ Freed("stdin"))
      BY <2>6 DEF FCGI_SetExitStatus, Std
    <3> QED
      BY <1>1, <3>1, ReachableStream
  <2>7. CASE GetEnv
    <3>1. pc \in {"start", "serving", "done"} \/ (pc = "refused" /\ isCGI)
      BY <2>7 DEF GetEnv, Running
    <3>2. environ \in {OwnEnviron, None} \/ environ = req.cur
      BY <1>1, <3>1 DEF StdioInv, InCycle, FinishesRequest
    <3> QED
      BY <1>1, <2>7, <3>2 DEF GetEnv
  <2> QED
    BY <1>1, <2>1, <2>3, <2>4, <2>5, <2>6, <2>7 DEF Next
<1>2. Inv /\ StdioInv' /\ [Next]_vars => Inv'
  BY <1>1
<1>3. Init => ~ misuse
  BY DEF Init
<1>4. Inv => NoFreedUse
  BY DEF NoFreedUse
<1> QED
  BY StdioInvariant, InitStdioInv, <1>2, <1>3, <1>4, PTL DEF Spec
=============================================================================
