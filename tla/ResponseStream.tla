--------------------------- MODULE ResponseStream ---------------------------
(***************************************************************************)
(* What a Web server may rely on when it reads one FastCGI connection: the *)
(* abstract specification that the writing side of libfcgi implements.     *)
(*                                                                         *)
(* A connection carries a sequence of responses, one per request.  A       *)
(* response is made of two byte streams (FCGI_STDOUT and FCGI_STDERR), an  *)
(* end-of-stream mark for each, and an FCGI_END_REQUEST that closes it.    *)
(* Streams only grow, and nothing follows an end mark.                     *)
(***************************************************************************)
EXTENDS Naturals, Sequences

VARIABLES resp        \* the responses received on the current connection

Streams == {"out", "err"}

NoStatus == <<>>      \* an ended response has <<appStatus>> instead

\* The response of a request of which nothing has arrived yet.
EmptyResponse ==
    [got |-> [s \in Streams |-> <<>>], eof |-> [s \in Streams |-> FALSE],
     status |-> NoStatus]

IsPrefixOf(s, t) == Len(s) <= Len(t) /\ SubSeq(t, 1, Len(s)) = s

(***************************************************************************)
(* Reading more of a response: content is appended to streams that have    *)
(* not ended, ends stay, and a response that has ended is final.           *)
(***************************************************************************)
Extends(r, q) ==
    /\ \A s \in Streams :
          /\ IsPrefixOf(r.got[s], q.got[s])
          /\ r.eof[s] => q.eof[s] /\ q.got[s] = r.got[s]
    /\ r.status # NoStatus => q = r

(***************************************************************************)
(* FCGI_END_REQUEST comes only after the end of both streams, where the    *)
(* end mark of an FCGI_STDERR that carried nothing may be left out.        *)
(***************************************************************************)
Complete(q) ==
    q.status # NoStatus => q.eof["out"] /\ (q.eof["err"] \/ q.got["err"] = <<>>)

Init == resp = <<>>

\* More of the last response arrives.
Grow ==
    /\ resp # <<>>
    /\ Len(resp') = Len(resp)
    /\ \A i \in 1 .. Len(resp) - 1 : resp'[i] = resp[i]
    /\ Extends(resp[Len(resp)], resp'[Len(resp)])
    /\ Complete(resp'[Len(resp)])

\* The first bytes of the next response arrive: the one before it has ended.
Begin ==
    /\ resp # <<>> => resp[Len(resp)].status # NoStatus
    /\ Len(resp') = Len(resp) + 1
    /\ \A i \in 1 .. Len(resp) : resp'[i] = resp[i]
    /\ Extends(EmptyResponse, resp'[Len(resp')])
    /\ Complete(resp'[Len(resp')])

\* The connection is closed, or replaced by a new one.
Reconnect == resp' = <<>>

Next == Grow \/ Begin \/ Reconnect

Spec == Init /\ [][Next]_resp
=============================================================================
