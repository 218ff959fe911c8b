---------------------------- MODULE FcgxResponse ----------------------------
(***************************************************************************)
(* What the Web server makes of the bytes that FcgxWriter puts on the      *)
(* connection, and the properties of the response as a whole.  The decoder *)
(* follows the record layout of include/fastcgi.h; the server itself is    *)
(* not part of the repository.                                             *)
(***************************************************************************)
EXTENDS FcgxWriter

VARIABLE
    recs           \* the records the server has decoded so far

Smaller(a, b) == IF a <= b THEN a ELSE b

(***************************************************************************)
(* Decoding                                                                *)
(***************************************************************************)

\* The cells from position p on are those of a header (or of the part of it
\* that has arrived).
HeaderFrom(w, p) ==
    /\ w[p][1] = "hdr"
    /\ \A i \in 1 .. Smaller(FCGI_HEADER_LEN, Len(w) - p + 1) :
          w[p + i - 1] = <<"hdr", w[p][2], w[p][3], w[p][4], w[p][5], i>>

HeaderArrived(w, p) == p + FCGI_HEADER_LEN - 1 <= Len(w)

RecordLen(w, p) == FCGI_HEADER_LEN + w[p][4] + w[p][5]

\* The record that starts at p, with as much of its content as has arrived.
RecordAt(w, p) ==
    [type |-> w[p][2], id |-> w[p][3], clen |-> w[p][4],
     content |-> SubSeq(w, p + FCGI_HEADER_LEN,
                        Smaller(Len(w), p + FCGI_HEADER_LEN + w[p][4] - 1)),
     padding |-> SubSeq(w, p + FCGI_HEADER_LEN + w[p][4],
                        Smaller(Len(w), p + RecordLen(w, p) - 1))]

\* The records of w in order; the decoder stops where no header is found.
Records(w) ==
    LET from[p \in 1 .. Len(w) + 1] ==
          IF p = Len(w) + 1 \/ ~ HeaderArrived(w, p) \/ ~ HeaderFrom(w, p) THEN <<>>
          ELSE IF p + RecordLen(w, p) > Len(w) THEN <<RecordAt(w, p)>>
          ELSE <<RecordAt(w, p)>> \o from[p + RecordLen(w, p)]
    IN  from[1]

\* Every record starts with a header, of which the last may be cut short.
InSync(w) ==
    LET from[p \in 1 .. Len(w) + 1] ==
          \/ p = Len(w) + 1
          \/ /\ HeaderFrom(w, p)
             /\ \/ ~ HeaderArrived(w, p)
                \/ p + RecordLen(w, p) > Len(w)
                \/ from[p + RecordLen(w, p)]
    IN  from[1]

\* The content of stream s of request id.
Content(rs, s, id) ==
    LET upto[i \in 0 .. Len(rs)] ==
          IF i = 0 THEN <<>>
          ELSE upto[i - 1] \o (IF rs[i].type = s /\ rs[i].id = id
                                 THEN rs[i].content ELSE <<>>)
    IN  upto[Len(rs)]

IsEof(rec, s, id) == rec.type = s /\ rec.id = id /\ rec.clen = 0

IsEnd(rec, id) == rec.type = "end" /\ rec.id = id /\ Len(rec.content) = 8

NoStatus == <<>>

Response(rs, id) ==
    LET ends == {i \in 1 .. Len(rs) : IsEnd(rs[i], id)}
    IN  [got |-> [s \in Streams |-> Content(rs, s, id)],
         eof |-> [s \in Streams |-> \E i \in 1 .. Len(rs) : IsEof(rs[i], s, id)],
         status |-> IF ends = {} THEN NoStatus
                    ELSE <<rs[CHOOSE i \in ends : TRUE].content[1][3]>>]

\* The responses on a connection, in the order of their request ids.
Responses(rs) ==
    IF rs = <<>> THEN <<>>
    ELSE [k \in 1 .. rs[Len(rs)].id - rs[1].id + 1 |-> Response(rs, rs[1].id + k - 1)]

(***************************************************************************)
(* The writers and a server that decodes whatever has been sent            *)
(***************************************************************************)

ResponseInit == Init /\ recs = <<>>

ResponseNext ==
    /\ Next
    /\ recs' = Records(net'.wire)

ResponseSpec == ResponseInit /\ [][ResponseNext]_<<vars, recs>>

\* The response to the current request.
Current == Response(recs, request.requestId)

(***************************************************************************)
(* Properties                                                              *)
(***************************************************************************)

(***************************************************************************)
(* The connection always carries a sequence of well-formed records, cut    *)
(* short at most at its end: each content byte belongs to its record's     *)
(* stream, the padding is padding, no unfilled header slot is sent, and    *)
(* nothing follows a stream's end mark or a request's FCGI_END_REQUEST.    *)
(***************************************************************************)
WellFramed ==
    LET RightContent(r) ==
          \A i \in 1 .. Len(r.content) :
             IF r.type = "end" THEN r.content[i][1] = "body" /\ r.content[i][2] = r.id
             ELSE r.content[i][1] = "data" /\ r.content[i][2] = r.type
    IN  /\ InSync(net.wire)
        /\ \A i \in 1 .. Len(recs) :
              /\ RightContent(recs[i])
              /\ \A j \in 1 .. Len(recs[i].padding) : recs[i].padding[j] = <<"pad">>
        /\ \A i, j \in 1 .. Len(recs) : i < j =>
              /\ \A s \in Streams, id \in {recs[i].id} :
                    IsEof(recs[i], s, id) => ~ (recs[j].type = s /\ recs[j].id = id)
              /\ IsEnd(recs[i], recs[i].id) => recs[j].id > recs[i].id

Buffered(s) ==
    IF stream[s].rawWrite THEN <<>>
    ELSE SubSeq(stream[s].buff, FCGI_HEADER_LEN + 1, Len(stream[s].buff))

(***************************************************************************)
(* What the server has of a stream, followed by what is still buffered, is *)
(* exactly what the application wrote to it, in order and once; after a    *)
(* failed write it is a prefix of that.                                    *)
(***************************************************************************)
NothingLostOrRepeated ==
    request.active =>
      \A s \in Streams :
        LET c == Current.got[s]
        IN  IF failed[s] = -1 THEN c \o Buffered(s) = Bytes(s, 0, said[s])
            ELSE c = Bytes(s, 0, Len(c)) /\ Len(c) <= said[s]

(***************************************************************************)
(* A response on the wire in full: all that was written, both end marks    *)
(* (none for an err that was never written to) and the exit status, the    *)
(* last one that was set before the request ended.                         *)
(***************************************************************************)
CompleteResponse ==
    LET q == Current
    IN  /\ \A s \in Streams : q.got[s] = Bytes(s, 0, said[s])
        /\ q.eof["out"]
        /\ said["err"] > 0 => q.eof["err"]
        /\ q.status # NoStatus
        /\ claimed # <<>> => q.status = claimed

Finished == ~ request.active /\ request.requestId > 0

(***************************************************************************)
(* FCGX_Finish_r delivers the whole response if no write failed, and it    *)
(* keeps the connection for another request only if the response is whole: *)
(* a failure of either stream in any earlier call is not forgotten, unless *)
(* the application clears it.                                              *)
(***************************************************************************)
FinishedMeansSent ==
    Finished /\ ((\A s \in Streams : failed[s] = -1) \/ (net.open /\ ~ cleared))
      => CompleteResponse

R == INSTANCE ResponseStream WITH resp <- Responses(recs)

(***************************************************************************)
(* The writers implement what the server relies on: whatever the streams   *)
(* write, flush and close, in whatever order, the records on a connection  *)
(* make up one response after the other, each of them only growing and     *)
(* ended once (WriteCloseRecords, FCGX_Finish_r).                          *)
(***************************************************************************)
ImplementsResponseStream == R!Spec

(***************************************************************************)
(* "Set the stream state so that ... writes have no effect" (SetError):    *)
(* what the application writes to a stream after a write of that stream    *)
(* failed never reaches the server.                                        *)
(***************************************************************************)
NoEffectAfterError ==
    \A i \in 1 .. Len(net.wire) :
        (net.wire[i][1] = "data" /\ request.active)
          => LET s == net.wire[i][2]
             IN  failed[s] # -1 => net.wire[i][3] <= failed[s]

(***************************************************************************)
(* "Sets the exit status for the current FastCGI request"                  *)
(* (FCGI_SetExitStatus.3): the status sent with a request is the one set   *)
(* during that request, 0 if none was.                                     *)
(***************************************************************************)
StatusOfThisRequest ==
    Finished => LET q == Current
                IN  q.status \in {NoStatus, IF claimed = <<>> THEN <<0>> ELSE claimed}
=============================================================================
