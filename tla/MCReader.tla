------------------------------ MODULE MCReader ------------------------------
(* Connections for FcgxReader: what a Web server may send, in small. *)
EXTENDS FcgxReader

Rec(type, id, q, content, pad) ==
    [type |-> type, id |-> id, q |-> q, content |-> content, pad |-> pad]

Begin(q, id, role, keep, pad) ==
    Rec("begin", id, q, [i \in 1 .. BodyLen |-> <<"begin", q, role, keep, i>>], pad)

\* Bytes n+1 .. n+m of a stream of request q.
Part(type, q, id, n, m, pad) ==
    Rec(type, id, q, [i \in 1 .. m |-> <<type, q, n + i>>], pad)

Abort(q, id) == Rec("abort", id, q, <<>>, 0)
Values(pad) == Rec("values", 0, 0, [i \in 1 .. PairLen |-> <<"value", i>>], pad)
Unknown(n) == Rec("mgmt", 0, 0, [i \in 1 .. n |-> <<"mgmt", i>>], 0)

Other == 9     \* an id that is not the request's

\* A request with parameters in two records, cut inside a pair.
Request(q, id, role, keep) ==
    << Begin(q, id, role, keep, 0),
       Part("params", q, id, 0, PairLen + 1, 1), Part("params", q, id, PairLen + 1, PairLen - 1, 0),
       Part("params", q, id, 0, 0, 0),
       Part("stdin", q, id, 0, 2, 1), Part("stdin", q, id, 2, 1, 0),
       Part("stdin", q, id, 0, 0, 0) >>

Filter(q, id, keep) ==
    Request(q, id, "filter", keep)
      \o << Part("data", q, id, 0, 2, 2), Part("data", q, id, 0, 0, 0) >>

Authorizer(q, id, keep) ==
    << Begin(q, id, "authorizer", keep, 0),
       Part("params", q, id, 0, PairLen, 0), Part("params", q, id, 0, 0, 0) >>

Insert(b, i, rec) == SubSeq(b, 1, i) \o <<rec>> \o SubSeq(b, i + 1, Len(b))

\* b with rec inserted after its i-th record, for every i in I.
With(b, I, rec) == {Insert(b, i, rec) : i \in I}

Web == Request(1, 1, "responder", FALSE)

\* Records that may come at any point of a request (of the first only after
\* its FCGI_BEGIN_REQUEST: before it, it would be taken for the request).
Mixed ==
    With(Web, 1 .. 7, Begin(101, Other, "responder", TRUE, 1))
    \cup With(Web, 0 .. 7, Part("stdin", 101, Other, 0, 2, 1))
    \cup With(Web, 0 .. 7, Values(1))
    \cup With(Web, 0 .. 6, Values(0))
    \cup With(Web, 0 .. 7, Unknown(0))
    \cup With(Web, 4 .. 7, Abort(1, 1))

\* Two of them: a foreign record anywhere, or FCGI_GET_VALUES within the
\* parameters, within stdin or at the end.
TwiceMixed ==
    UNION { With(b, 0 .. 8, Part("stdin", 101, Other, 0, 2, 1))
              \cup With(b, {2, 6, 8}, Values(1)) : b \in Mixed }

\* One request after the other on a connection that is kept.
KeptConnections ==
    { <<Request(1, 1, "responder", TRUE), Request(2, id, "responder", FALSE)>> : id \in {1, 2} }
    \cup { <<Filter(1, 1, TRUE), Authorizer(2, 1, TRUE)>>,
           <<Authorizer(1, 2, TRUE), Request(2, 1, "responder", TRUE)>> }

\* What the servers of a run without failures send.
ServerConnections == {<<b>> : b \in TwiceMixed} \cup KeptConnections

\* Also a role that the library does not know, and an FCGI_BEGIN_REQUEST that
\* is malformed or is followed by padding.
StrangeConnections ==
    { <<Request(1, 1, "poet", TRUE)>>, <<Insert(Web, 2, Values(1))>>,
      <<Insert(Web, 5, Unknown(0))>>, << <<Begin(1, 0, "responder", TRUE, 0)>> >>,
      <<[Web EXCEPT ![1].pad = 1]>> }

\* A filter, and one that is aborted while its streams are being read.
FilterConnections ==
    { <<Filter(1, 1, TRUE)>> } \cup { <<b>> : b \in With(Filter(1, 1, TRUE), {5, 8}, Abort(1, 1)) }

\* What the servers of a run with failures send.
FailingConnections == StrangeConnections \cup FilterConnections

LatePadding == { <<[Web EXCEPT ![4].pad = 1]>> }
EmptyForeign == { <<b>> : b \in With(Web, {1}, Part("stdin", 101, Other, 0, 0, 0)) }
UnknownContent == { <<b>> : b \in With(Web, {1}, Unknown(2)) }
UnpaddedValues == { <<b>> : b \in With(Web, {0, 7}, Values(0)) } \cup { << <<Values(0)>> >> }
AbortInParams == { <<b>> : b \in With(Web, 1 .. 3, Abort(1, 1)) }
UnreadInput == { <<Request(1, 1, "responder", TRUE), Request(2, 1, "responder", TRUE)>> }
LateAbort ==
    { <<Request(1, 1, "responder", TRUE),
        <<Abort(1, 1)>> \o Request(2, 2, "responder", TRUE)>> }
=============================================================================
