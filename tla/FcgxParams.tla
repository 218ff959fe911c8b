----------------------------- MODULE FcgxParams -----------------------------
(***************************************************************************)
(* Name-value pairs from one process to the other: cgi-fcgi.c writes its   *)
(* environment (FCGIUtil_BuildNameValueHeader and the loop in main),       *)
(* fcgiapp.c reads it into a Params vector (ReadParams, PutParam), and the  *)
(* application looks it up (FCGX_GetParam).                                *)
(*                                                                         *)
(* The stream between them is a sequence of items: the bytes of lengths,   *)
(* and runs of the bytes of one name or value.  It may be cut anywhere.    *)
(***************************************************************************)
EXTENDS Integers, Sequences

CONSTANTS
    Names,        \* names: sequences of characters other than '='
    ValueLens,    \* lengths of values
    MaxPairs,
    Length        \* initial length of the vector

INT_MAX == 2147483647

ASSUME NamesAssumption ==
    \A name \in Names : name \in Seq(STRING \ {"="}) /\ Len(name) < INT_MAX
ASSUME ValueLensAssumption == ValueLens \subseteq 0 .. INT_MAX - 1
ASSUME LengthAssumption == Length \in Nat \ {0}

VARIABLES
    env,          \* the environment of cgi-fcgi: [name, valueLen]
    stream,       \* what is still to be read
    result,       \* of ReadParams: "writing" before, "reading", 0 or -1
    params,       \* the Params structure: vec and length
    marks,        \* history: the stream as it was behind each pair
    arrived       \* history: what of the stream arrived before it ended

paramsVars == <<env, stream, result, params, marks, arrived>>

Byte(b) == [kind |-> "byte", val |-> b, of |-> <<>>]
Run(of, n) == [kind |-> "run", val |-> n, of |-> of]

ParamsInit ==
    /\ env = <<>> /\ stream = <<>> /\ result = "writing"
    /\ marks = <<>> /\ arrived = <<>>
    /\ params = [vec |-> <<>>, length |-> Length]
-----------------------------------------------------------------------------
(* cgi-fcgi *)

\* One half of FCGIUtil_BuildNameValueHeader
LengthBytes(n) ==
    IF n < 128 THEN <<Byte(n)>>
    ELSE << Byte((n \div 16777216) + 128), Byte((n \div 65536) % 256),
            Byte((n \div 256) % 256), Byte(n % 256) >>

\* The runs of a pair; nothing is put for an empty name or value.
RunOf(of, n) == IF n = 0 THEN <<>> ELSE <<Run(of, n)>>

WritePair ==
    /\ result = "writing" /\ Len(env) < MaxPairs
    /\ \E name \in Names, valueLen \in ValueLens :
          /\ env' = Append(env, [name |-> name, valueLen |-> valueLen])
          /\ stream' = stream \o LengthBytes(Len(name)) \o LengthBytes(valueLen)
                         \o RunOf(<<"name", Len(env')>>, Len(name))
                         \o RunOf(<<"value", Len(env')>>, valueLen)
    /\ marks' = Append(marks, stream')
    /\ UNCHANGED <<result, params, arrived>>

\* The record that ends the parameters arrives, or the connection ends before.
EndStream ==
    /\ result = "writing" /\ result' = "reading"
    /\ \/ UNCHANGED stream
       \/ \E n \in 0 .. Len(stream) - 1 : stream' = SubSeq(stream, 1, n)
       \/ /\ stream # <<>> /\ stream[Len(stream)].val > 1 /\ stream[Len(stream)].kind = "run"
          /\ stream' = [stream EXCEPT ![Len(stream)].val = @ - 1]
    /\ arrived' = stream'
    /\ UNCHANGED <<env, params, marks>>
-----------------------------------------------------------------------------
(* libfcgi *)

LongLength(a, b, c, d) == (a % 128) * 16777216 + b * 65536 + c * 256 + d

\* The result of reading a length: its value and what is left, or an error.
ReadLength(s) ==
    IF s = <<>> THEN [ok |-> FALSE, val |-> 0, rest |-> s]
    ELSE IF s[1].val < 128 THEN [ok |-> TRUE, val |-> s[1].val, rest |-> Tail(s)]
    ELSE IF Len(s) < 4 THEN [ok |-> FALSE, val |-> 0, rest |-> s]
    ELSE LET n == LongLength(s[1].val, s[2].val, s[3].val, s[4].val)
         IN  [ok |-> n < INT_MAX, val |-> n, rest |-> SubSeq(s, 5, Len(s))]

\* FCGX_GetStr of n bytes: <<>> stands for none, and bytes that do not belong
\* together show in the run that is returned.
GetStr(s, n) ==
    IF n = 0 THEN [ok |-> TRUE, of |-> <<>>, rest |-> s]
    ELSE IF s = <<>> \/ s[1].val < n THEN [ok |-> FALSE, of |-> <<>>, rest |-> <<>>]
    ELSE [ok |-> TRUE, of |-> s[1].of, rest |-> IF s[1].val = n THEN Tail(s)
                                                ELSE <<Run(s[1].of, s[1].val - n)>> \o Tail(s)]

\* Seeded fault: the vector grows too late for the NULL behind the entries.
BadPutParam(p, nameValue) ==
    LET vec == Append(p.vec, nameValue)
    IN  [vec |-> vec, length |-> IF Len(vec) > p.length THEN 2 * p.length ELSE p.length]

PutParam(p, nameValue) ==
    LET vec == Append(p.vec, nameValue)
    IN  [vec |-> vec, length |-> IF Len(vec) >= p.length THEN 2 * p.length ELSE p.length]

\* One turn of the loop of ReadParams.  The sum of the lengths fits a size_t.
ReadPair ==
    /\ result = "reading" /\ stream # <<>>
    /\ LET nameLen == ReadLength(stream)
           valueLen == ReadLength(nameLen.rest)
           name == GetStr(valueLen.rest, nameLen.val)
           value == GetStr(name.rest, valueLen.val)
       IN  IF nameLen.ok /\ valueLen.ok /\ name.ok /\ value.ok
           THEN /\ params' = PutParam(params, [name |-> name.of, nameLen |-> nameLen.val,
                                               value |-> value.of, valueLen |-> valueLen.val])
                /\ stream' = value.rest /\ UNCHANGED result
           ELSE result' = "-1" /\ UNCHANGED <<params, stream>>
    /\ UNCHANGED <<env, marks, arrived>>

ReadEnds ==
    /\ result = "reading" /\ stream = <<>>
    /\ result' = "0"
    /\ UNCHANGED <<env, stream, params, marks, arrived>>

ParamsNext == WritePair \/ EndStream \/ ReadPair \/ ReadEnds

ParamsSpec == ParamsInit /\ [][ParamsNext]_paramsVars

\* The characters of an entry up to the value
Entry(e) == (IF e.name = <<>> THEN <<>> ELSE env[e.name[2]].name) \o <<"=">>

\* FCGX_GetParam: the index of the entry whose value is returned, 0 for NULL.
Matches(name, e) ==
    Len(name) < Len(Entry(e)) /\ SubSeq(Entry(e), 1, Len(name)) = name
      /\ Entry(e)[Len(name) + 1] = "="
FCGX_GetParam(name, vec) ==
    LET found == {i \in 1 .. Len(vec) : Matches(name, vec[i])}
    IN  IF found = {} THEN 0 ELSE CHOOSE i \in found : \A j \in found : i <= j
-----------------------------------------------------------------------------
\* What cgi-fcgi has written of the first k pairs.
UpTo(k) == IF k = 0 THEN <<>> ELSE marks[k]

(***************************************************************************)
(* Through lengths of one byte or four, and a vector that has to grow, the *)
(* application finds the environment of cgi-fcgi and no more: the entries  *)
(* are the first pairs with their names and values; ReadParams succeeds    *)
(* with exactly those pairs that have arrived, if the stream ended behind  *)
(* one of them, and fails if it ended inside a pair, so that only a cut    *)
(* between two pairs goes unnoticed; the vector always has room for the    *)
(* NULL (fcgiapp.c:1107); and FCGX_GetParam returns the first pair of a    *)
(* name, never one whose name only begins with it.                         *)
(***************************************************************************)
EnvironmentArrives ==
    /\ Len(params.vec) < params.length
    /\ Len(params.vec) <= Len(env)
    /\ \A i \in 1 .. Len(params.vec) :
          LET e == params.vec[i]
          IN  /\ e.nameLen = Len(env[i].name) /\ (e.nameLen > 0 => e.name = <<"name", i>>)
              /\ e.valueLen = env[i].valueLen /\ (e.valueLen > 0 => e.value = <<"value", i>>)
    /\ result = "0" => arrived = UpTo(Len(params.vec))
    /\ result = "-1" => \A k \in 0 .. Len(env) : arrived # UpTo(k)
    /\ \A name \in Names :
          LET i == FCGX_GetParam(name, params.vec)
              same == {k \in 1 .. Len(params.vec) : env[k].name = name}
          IN  IF same = {} THEN i = 0 ELSE i \in same /\ \A k \in same : i <= k
=============================================================================
