----------------------------- MODULE FcgxPrintf -----------------------------
(***************************************************************************)
(* FCGX_VFPrintF of fcgiapp.c: a format is a sequence of literal texts and *)
(* conversions.  A conversion without flags, width and precision is made   *)
(* on the fast path, every other one on the slow path, which predicts how  *)
(* much sprintf will write and takes a larger buffer if 100 bytes are not  *)
(* enough.  The larger buffer is kept for the conversions after it.        *)
(*                                                                         *)
(* A conversion is a record with the number of its flags, the width and    *)
(* precision (None, or how they are given and their value), the size       *)
(* modifier ("ll" is "L"), the operation and what of the argument matters: *)
(* the characters it needs, or the binary exponent of a number.            *)
(***************************************************************************)
EXTENDS Integers

CONSTANTS
    Conversions,  \* the conversions that formats contain
    MaxItems      \* texts and conversions of a format

PRINTF_BUFFLEN == 100
None == [how |-> "none", val |-> 0]
AtLeast(a, b) == IF a > b THEN a ELSE b
AtMost(a, b) == IF a < b THEN a ELSE b
Abs(n) == IF n < 0 THEN -n ELSE n

VARIABLE printf   \* the call: items done, result, auxBuffLen, and the last conversion
                  \* with its buffCount and buffLen

NoConversion == [op |-> "%", size |-> " ", flags |-> 0, width |-> None, prec |-> None, arg |-> 0]

PrintfInit ==
    printf = [items |-> 0, streamCount |-> 0, auxBuffLen |-> 0, last |-> NoConversion,
              buffCount |-> 0, buffLen |-> PRINTF_BUFFLEN]

FastPath(c) == c.flags = 0 /\ c.width = None /\ c.prec = None /\ c.op # "f"
-----------------------------------------------------------------------------
(* What sprintf writes (external), without the final '\0'. *)

MinWidth(c) == c.width.val
Precision(c) == CASE c.prec.how = "none" -> -1
                  [] c.prec.how = "star" -> AtLeast(c.prec.val, 0)
                  [] OTHER -> c.prec.val
Places(c) == IF Precision(c) = -1 THEN 6 ELSE Precision(c)

\* The decimal digits before the point, and what frexp tells of a double: a
\* long double that is no double has become an infinity, for which it gives 0.
Digits(exp) == IF exp > 0 THEN (exp * 30103) \div 100000 + 1 ELSE 1
BeyondDouble(c) == c.op = "f" /\ c.arg > 1024
SeenExp(c) == IF BeyondDouble(c) THEN 0 ELSE c.arg

Body(c) ==
    CASE c.op \in {"d", "u"} -> AtLeast(Precision(c), c.arg) + 2
      [] c.op = "c" -> 1
      [] c.op = "p" -> AtLeast(Precision(c), 16) + 2
      [] c.op = "s" -> IF Precision(c) = -1 THEN c.arg ELSE AtMost(Precision(c), c.arg)
      [] c.op = "f" -> 1 + Digits(c.arg) + 1 + Places(c)
      [] c.op = "e" -> 3 + Places(c) + 6
      [] c.op = "%" -> 1
      [] OTHER -> 0
Written(c) == AtLeast(Abs(MinWidth(c)), Body(c))
-----------------------------------------------------------------------------
(* What the code makes of a conversion *)

SizesOf(op) ==
    CASE op \in {"d", "u"} -> {" ", "h", "l", "L"}
      [] op \in {"c", "s", "p", "%"} -> {" "}
      [] op = "n" -> {" ", "h", "l"}
      [] op \in {"f", "e"} -> {" ", "L"}
      [] OTHER -> {}

\* The slow path gives up: too many flags or digits, or an operation that has
\* no prediction.
ScanFails(c) ==
    \/ c.flags > 5 \/ Abs(c.width.val) > 999999 \/ c.prec.val > 999999
    \/ c.op \notin {"d", "u", "c", "p", "s", "f", "e"}

buffReqd(c) ==
    LET body == CASE c.op = "s" -> IF Precision(c) = -1 THEN c.arg ELSE AtMost(Precision(c), c.arg)
                  [] c.op = "f" -> Places(c) + 3 + AtLeast(SeenExp(c), 0) \div 3
                  [] c.op = "e" -> Places(c) + 8
                  [] OTHER -> AtLeast(Precision(c), 46)
    IN  AtLeast(body + 10, MinWidth(c))

ErrorReturn == printf' = [printf EXCEPT !.streamCount = -1]

\* n characters are put, which may fail.
Put(p, n) == printf' = [p EXCEPT !.streamCount = @ + n] \/ ErrorReturn

\* The conversion is made in a buffer.
Perform(c, buffLen, auxBuffLen) ==
    LET n == IF c.op = "n" THEN 0 ELSE Written(c)
    IN  Put([printf EXCEPT !.items = @ + 1, !.auxBuffLen = auxBuffLen, !.buffCount = n,
                           !.buffLen = buffLen, !.last = c], n)

Going == printf.streamCount >= 0 /\ printf.items < MaxItems

Literal ==
    /\ Going
    /\ \E n \in 1 .. 2 : Put([printf EXCEPT !.items = @ + 1], n)

\* %s is put from the argument itself.
Fast(c) ==
    /\ Going /\ FastPath(c)
    /\ IF c.size \in SizesOf(c.op)
       THEN Perform(c, IF c.op = "s" THEN c.arg + 1 ELSE PRINTF_BUFFLEN, printf.auxBuffLen)
       ELSE ErrorReturn

\* Seeded fault: a larger buffer that is there already is taken unseen.
BadSlow(c) ==
    /\ Going /\ ~FastPath(c)
    /\ IF ScanFails(c) \/ c.size \notin SizesOf(c.op) THEN ErrorReturn
       ELSE IF buffReqd(c) <= PRINTF_BUFFLEN
       THEN Perform(c, PRINTF_BUFFLEN, printf.auxBuffLen)
       ELSE LET aux == IF printf.auxBuffLen = 0 THEN buffReqd(c) ELSE printf.auxBuffLen
            IN  Perform(c, aux, aux)

Slow(c) ==
    /\ Going /\ ~FastPath(c)
    /\ IF ScanFails(c) \/ c.size \notin SizesOf(c.op) THEN ErrorReturn
       ELSE IF buffReqd(c) <= PRINTF_BUFFLEN
       THEN Perform(c, PRINTF_BUFFLEN, printf.auxBuffLen)
       ELSE LET aux == AtLeast(buffReqd(c), printf.auxBuffLen)
            IN  Perform(c, aux, aux)

PrintfNext == Literal \/ \E c \in Conversions : Fast(c) \/ Slow(c)

PrintfSpec == PrintfInit /\ [][PrintfNext]_printf

\* The arguments are of the types that the conversions name: an integer of 64
\* bits has up to 22 octal digits, and a precision in the format has no sign.
ArgumentsTyped ==
    \A c \in Conversions :
       /\ c.width.val \in Int /\ c.prec.val \in Int /\ c.arg \in Int
       /\ c.prec.how \in {"none", "star"} \/ c.prec.val >= 0
       /\ c.op \in {"d", "u"} => c.arg <= 22
       /\ c.op = "s" => c.arg >= 0
-----------------------------------------------------------------------------
(***************************************************************************)
(* "compute an upper bound on the amount of buffering that sprintf will    *)
(* require", fcgiapp.c:498: for every combination of width, precision,     *)
(* size and argument but a long double that is no double, what sprintf     *)
(* writes fits with its final zero, also into a buffer that an earlier     *)
(* conversion left behind, unless the field itself is as wide as the       *)
(* buffer; and then only the zero is outside, unless a negative '*' gave   *)
(* the width, whose magnitude the bound ignores.                           *)
(***************************************************************************)
PrintfFits ==
    ~ BeyondDouble(printf.last) =>
      /\ Abs(MinWidth(printf.last)) < printf.buffLen => printf.buffCount < printf.buffLen
      /\ MinWidth(printf.last) >= 0 => printf.buffCount <= printf.buffLen

(***************************************************************************)
(* ASSERT(buffCount < buffLen), fcgiapp.c:859, for every conversion        *)
(* (violated by fields of 100 characters and more, and by long doubles     *)
(* that are no doubles).                                                   *)
(***************************************************************************)
BoundHolds == printf.buffCount < printf.buffLen
=============================================================================
