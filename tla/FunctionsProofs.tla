--------------------------- MODULE FunctionsProofs --------------------------
(***************************************************************************)
(* Theorems about the functions that applications call on streams and      *)
(* parameters: FCGX_VFPrintF, and name-value pairs.                        *)
(***************************************************************************)
EXTENDS FcgxPrintf, FcgxParams, SequenceTheorems, NatSetProofs, TLAPS

(***************************************************************************)
(* FCGX_VFPrintF                                                           *)
(***************************************************************************)

\* What buffReqd adds up is never less than the field, and enough for everything
\* but the field, or the first buffer is.
LEMMA Predicted ==
    ASSUME NEW c, c.width.val \in Int, c.prec.val \in Int, c.arg \in Int,
           c.prec.how \in {"none", "star"} \/ c.prec.val >= 0,
           c.op \in {"d", "u", "c", "p", "s", "f", "e"},
           c.op \in {"d", "u"} => c.arg <= 22,
           c.op = "s" => c.arg >= 0
    PROVE  /\ buffReqd(c) \in Nat /\ Body(c) \in Int
           /\ MinWidth(c) <= buffReqd(c)
           /\ ~ BeyondDouble(c) => Body(c) < AtLeast(PRINTF_BUFFLEN, buffReqd(c))
<1> DEFINE prec == Precision(c)
<1>1. prec \in Int /\ prec >= -1
  <2>1. CASE c.prec.how = "none"
    <3>1. prec = -1
      BY <2>1, Zenon DEF Precision
    <3> QED
      BY <2>1, <3>1 DEF AtLeast
  <2>2. CASE c.prec.how = "star"
    <3>1. prec = AtLeast(c.prec.val, 0)
      BY <2>2, Zenon DEF Precision
    <3> QED
      BY <2>2, <3>1 DEF AtLeast
  <2>3. CASE c.prec.how \notin {"none", "star"}
    <3>1. prec = c.prec.val
      BY <2>3, Zenon DEF Precision
    <3> QED
      BY <2>3, <3>1 DEF AtLeast
  <2> QED
    BY <2>1, <2>2, <2>3
<1> HIDE DEF prec
<1>2. Places(c) \in Nat /\ Places(c) >= prec
  BY <1>1 DEF Places, prec
<1>3. ASSUME NEW body \in Int, Body(c) \in Int, body + 10 >= 0,
             buffReqd(c) = AtLeast(body + 10, MinWidth(c)),
             ~ BeyondDouble(c) => Body(c) < AtLeast(PRINTF_BUFFLEN, body + 10)
      PROVE  /\ buffReqd(c) \in Nat /\ Body(c) \in Int
             /\ MinWidth(c) <= buffReqd(c)
             /\ ~ BeyondDouble(c) => Body(c) < AtLeast(PRINTF_BUFFLEN, buffReqd(c))
  BY <1>3 DEF MinWidth, AtLeast, PRINTF_BUFFLEN
<1>4. CASE c.op = "s"
  <2> DEFINE body == IF prec = -1 THEN c.arg ELSE AtMost(prec, c.arg)
  <2>1. Body(c) = body /\ buffReqd(c) = AtLeast(body + 10, MinWidth(c))
    BY <1>4, Zenon DEF Body, buffReqd, prec
  <2>2. body \in Nat /\ body < AtLeast(PRINTF_BUFFLEN, body + 10)
    BY <1>1, <1>4 DEF AtMost, AtLeast, PRINTF_BUFFLEN
  <2> QED
    BY <2>1, <2>2, <1>3
<1>5. CASE c.op = "f"
  <2> DEFINE body == Places(c) + 3 + AtLeast(SeenExp(c), 0) \div 3
  <2>1. /\ Body(c) = 1 + Digits(c.arg) + 1 + Places(c)
        /\ buffReqd(c) = AtLeast(body + 10, MinWidth(c))
    BY <1>5, Zenon DEF Body, buffReqd
  <2>2. AtLeast(SeenExp(c), 0) \div 3 \in Nat /\ Digits(c.arg) \in Nat
    BY <1>5 DEF Digits, SeenExp, AtLeast
  <2>3. ~ BeyondDouble(c) => Digits(c.arg) < AtLeast(SeenExp(c), 0) \div 3 + 11
    BY <1>5 DEF Digits, SeenExp, AtLeast, BeyondDouble
  <2> QED
    BY <2>1, <2>2, <2>3, <1>2, <1>3 DEF AtLeast, PRINTF_BUFFLEN
<1>6. CASE c.op = "e"
  <2>1. Body(c) = 3 + Places(c) + 6 /\ buffReqd(c) = AtLeast((Places(c) + 8) + 10, MinWidth(c))
    BY <1>6, Zenon DEF Body, buffReqd
  <2> QED
    BY <2>1, <1>2, <1>3 DEF AtLeast, PRINTF_BUFFLEN
<1>7. CASE c.op \in {"d", "u", "c", "p"}
  <2> DEFINE body == AtLeast(prec, 46)
  <2>1. /\ c.op \notin {"s", "f", "e"}
        /\ c.op = "d" \/ c.op = "u" \/ c.op = "c" \/ c.op = "p"
    BY <1>7
  <2>2. buffReqd(c) = AtLeast(body + 10, MinWidth(c))
    BY <2>1, Zenon DEF buffReqd, prec
  <2>3. Body(c) = AtLeast(prec, c.arg) + 2 \/ Body(c) = 1 \/ Body(c) = AtLeast(prec, 16) + 2
    BY <2>1, Zenon DEF Body, prec
  <2>4. c.op \in {"d", "u"} \/ Body(c) = 1 \/ Body(c) = AtLeast(prec, 16) + 2
    BY <2>1, Zenon DEF Body, prec
  <2> QED
    BY <2>2, <2>3, <2>4, <1>1, <1>3 DEF AtLeast, PRINTF_BUFFLEN
<1> QED
  BY <1>4, <1>5, <1>6, <1>7

\* What PrintfFits says of a conversion that has written n characters.
Fits(c, n, buffLen) ==
    ~ BeyondDouble(c) =>
      /\ Abs(MinWidth(c)) < buffLen => n < buffLen
      /\ MinWidth(c) >= 0 => n <= buffLen

\* A buffer of at least 100 bytes and of the size that was predicted.
LEMMA LargeEnough ==
    ASSUME NEW c, NEW buffLen \in Nat, buffLen >= PRINTF_BUFFLEN,
           c.width.val \in Int, Body(c) \in Int,
           MinWidth(c) <= buffLen,
           ~ BeyondDouble(c) => Body(c) < buffLen
    PROVE  Fits(c, Written(c), buffLen)
BY DEF Fits, Written, MinWidth, AtLeast, Abs, PRINTF_BUFFLEN

PrintfInv ==
    /\ printf = [items |-> printf.items, streamCount |-> printf.streamCount,
                 auxBuffLen |-> printf.auxBuffLen, last |-> printf.last,
                 buffCount |-> printf.buffCount, buffLen |-> printf.buffLen]
    /\ printf.auxBuffLen \in Nat
    /\ Fits(printf.last, printf.buffCount, printf.buffLen)

\* A step that leaves the last conversion and the kept buffer.
LEMMA Unmarked ==
    ASSUME PrintfInv, NEW items, NEW count,
           \/ printf' = [printf EXCEPT !.streamCount = count]
           \/ printf' = [[printf EXCEPT !.items = items] EXCEPT !.streamCount = count]
    PROVE  PrintfInv'
<1>1. /\ printf' = [items |-> printf'.items, streamCount |-> printf'.streamCount,
                    auxBuffLen |-> printf'.auxBuffLen, last |-> printf'.last,
                    buffCount |-> printf'.buffCount, buffLen |-> printf'.buffLen]
      /\ printf'.auxBuffLen = printf.auxBuffLen /\ printf'.last = printf.last
      /\ printf'.buffCount = printf.buffCount /\ printf'.buffLen = printf.buffLen
  BY DEF PrintfInv
<1> QED
  BY <1>1, Zenon DEF PrintfInv

\* A conversion into a buffer that is large enough.
LEMMA Performed ==
    ASSUME PrintfInv, NEW c, NEW buffLen, NEW aux \in Nat, Perform(c, buffLen, aux),
           Fits(c, IF c.op = "n" THEN 0 ELSE Written(c), buffLen)
    PROVE  PrintfInv'
<1> DEFINE n == IF c.op = "n" THEN 0 ELSE Written(c)
           p == [printf EXCEPT !.items = @ + 1, !.auxBuffLen = aux, !.buffCount = n,
                               !.buffLen = buffLen, !.last = c]
<1>1. \/ printf' = [p EXCEPT !.streamCount = @ + n]
      \/ printf' = [printf EXCEPT !.streamCount = -1]
  BY DEF Perform, Put, ErrorReturn
<1>2. Fits(c, n, buffLen)
  OBVIOUS
<1> HIDE DEF n
<1>3. CASE printf' = [p EXCEPT !.streamCount = @ + n]
  <2>1. /\ printf' = [items |-> printf'.items, streamCount |-> printf'.streamCount,
                      auxBuffLen |-> printf'.auxBuffLen, last |-> printf'.last,
                      buffCount |-> printf'.buffCount, buffLen |-> printf'.buffLen]
        /\ printf'.auxBuffLen = aux /\ printf'.last = c /\ printf'.buffCount = n
        /\ printf'.buffLen = buffLen
    BY <1>3 DEF PrintfInv
  <2> QED
    BY <2>1, <1>2, Zenon DEF PrintfInv
<1>4. CASE printf' = [printf EXCEPT !.streamCount = -1]
  BY <1>4, Unmarked
<1> QED
  BY <1>1, <1>3, <1>4

(***************************************************************************)
(* What fcgiapp.c:498 calls an upper bound is one for every conversion of  *)
(* every format: precision, size and argument are predicted well enough,   *)
(* also for a buffer that an earlier conversion left behind, and what can  *)
(* be too long is the field alone, by its final zero or, with a negative   *)
(* '*', by its magnitude.  (Long doubles that are no doubles excepted.)    *)
(***************************************************************************)
THEOREM PrintfAlwaysFits ==
    ASSUME ArgumentsTyped
    PROVE  PrintfSpec => []PrintfFits
<1>1. ASSUME PrintfInit PROVE PrintfInv
  <2>1. /\ printf = [items |-> printf.items, streamCount |-> printf.streamCount,
                    auxBuffLen |-> printf.auxBuffLen, last |-> printf.last,
                    buffCount |-> printf.buffCount, buffLen |-> printf.buffLen]
        /\ printf.auxBuffLen = 0 /\ printf.last = NoConversion
        /\ printf.buffCount = 0 /\ printf.buffLen = 100
    BY <1>1 DEF PrintfInit, PRINTF_BUFFLEN
  <2>2. Abs(MinWidth(NoConversion)) = 0
    BY DEF NoConversion, None, MinWidth, Abs
  <2>3. Fits(NoConversion, 0, 100)
    BY <2>2 DEF Fits
  <2> QED
    BY <2>1, <2>3 DEF PrintfInv
<1>2. ASSUME PrintfInv, [PrintfNext]_printf
      PROVE  PrintfInv'
  <2>1. CASE UNCHANGED printf
    BY <1>2, <2>1, Zenon DEF PrintfInv
  <2>2. CASE ErrorReturn
    BY <1>2, <2>2, Unmarked DEF ErrorReturn
  <2>3. CASE Literal
    <3>1. PICK n \in 1 .. 2 : Put([printf EXCEPT !.items = @ + 1], n)
      BY <2>3 DEF Literal
    <3>2. ASSUME printf' = [[printf EXCEPT !.items = @ + 1] EXCEPT !.streamCount = @ + n]
          PROVE  PrintfInv'
      BY <1>2, <3>2, Unmarked
    <3> QED
      BY <3>1, <3>2, <2>2 DEF Put
  <2>4. ASSUME NEW c \in Conversions, Fast(c)
        PROVE  PrintfInv'
    <3> DEFINE buffLen == IF c.op = "s" THEN c.arg + 1 ELSE PRINTF_BUFFLEN
    <3>1. CASE c.size \notin SizesOf(c.op)
      BY <2>4, <3>1, <2>2 DEF Fast
    <3>2. CASE c.size \in SizesOf(c.op)
      <4>1. Perform(c, buffLen, printf.auxBuffLen)
        BY <2>4, <3>2 DEF Fast
      <4>2. /\ c.width.val = 0 /\ c.prec.how = "none" /\ c.op # "f" /\ c.arg \in Int
            /\ c.op \in {"d", "u"} => c.arg <= 22
            /\ c.op = "s" => c.arg >= 0
        BY <2>4 DEF Fast, FastPath, None, ArgumentsTyped
      <4>3. Precision(c) = -1
        BY <4>2, Zenon DEF Precision
      <4>4. Places(c) = 6
        BY <4>3 DEF Places
      <4>5. \/ c.op \in {"d", "u"} /\ Body(c) = AtLeast(Precision(c), c.arg) + 2
            \/ c.op = "s" /\ Body(c) = c.arg
            \/ c.op = "p" /\ Body(c) = AtLeast(Precision(c), 16) + 2
            \/ /\ c.op # "s"
               /\ Body(c) = 1 \/ Body(c) = 3 + 6 + 6 \/ Body(c) = 0
        BY <4>2, <4>3, <4>4, Zenon DEF Body
      <4>6. Abs(MinWidth(c)) = 0
        BY <4>2 DEF Abs, MinWidth
      <4>7. Written(c) < buffLen /\ Written(c) \in Int /\ buffLen \in Int
        BY <4>2, <4>3, <4>5, <4>6 DEF Written, AtLeast, PRINTF_BUFFLEN
      <4>8. Fits(c, IF c.op = "n" THEN 0 ELSE Written(c), buffLen)
        BY <4>7, <4>2 DEF PRINTF_BUFFLEN, Fits
      <4>9. printf.auxBuffLen \in Nat
        BY <1>2 DEF PrintfInv
      <4> HIDE DEF buffLen
      <4> QED
        BY <1>2, <4>1, <4>8, <4>9, Performed
    <3> QED
      BY <3>1, <3>2
  <2>5. ASSUME NEW c \in Conversions, Slow(c)
        PROVE  PrintfInv'
    <3>1. CASE ScanFails(c) \/ c.size \notin SizesOf(c.op)
      BY <2>5, <3>1, <2>2 DEF Slow
    <3>2. CASE ~ ScanFails(c) /\ c.size \in SizesOf(c.op)
      <4>1. /\ buffReqd(c) \in Nat /\ Body(c) \in Int
            /\ MinWidth(c) <= buffReqd(c)
            /\ ~ BeyondDouble(c) => Body(c) < AtLeast(PRINTF_BUFFLEN, buffReqd(c))
        BY <3>2, <2>5, Predicted DEF ArgumentsTyped, ScanFails
      <4>2. (IF c.op = "n" THEN 0 ELSE Written(c)) = Written(c)
        BY <3>2 DEF ScanFails
      <4>3. printf.auxBuffLen \in Nat
        BY <1>2 DEF PrintfInv
      <4>4. c.width.val \in Int /\ MinWidth(c) \in Int
        BY DEF ArgumentsTyped, MinWidth
      <4>5. CASE buffReqd(c) <= PRINTF_BUFFLEN
        <5>1. Perform(c, PRINTF_BUFFLEN, printf.auxBuffLen)
          BY <2>5, <3>2, <4>5 DEF Slow
        <5>2. Fits(c, Written(c), PRINTF_BUFFLEN)
          BY <4>1, <4>4, <4>5, LargeEnough DEF AtLeast, PRINTF_BUFFLEN
        <5> QED
          BY <1>2, <5>1, <5>2, <4>2, <4>3, Performed
      <4>6. CASE ~ (buffReqd(c) <= PRINTF_BUFFLEN)
        <5> DEFINE aux == AtLeast(buffReqd(c), printf.auxBuffLen)
        <5>1. Perform(c, aux, aux)
          BY <2>5, <3>2, <4>6 DEF Slow
        <5>2. aux \in Nat /\ aux >= buffReqd(c)
          BY <4>1, <4>3 DEF AtLeast
        <5>3. ~ BeyondDouble(c) => Body(c) < buffReqd(c)
          BY <4>1, <4>6 DEF AtLeast, PRINTF_BUFFLEN
        <5>4. /\ aux >= PRINTF_BUFFLEN /\ MinWidth(c) <= aux
              /\ ~ BeyondDouble(c) => Body(c) < aux
          BY <4>1, <4>4, <4>6, <5>2, <5>3 DEF PRINTF_BUFFLEN
        <5> HIDE DEF aux
        <5>5. Fits(c, Written(c), aux)
          BY <4>1, <4>4, <5>2, <5>4, LargeEnough
        <5> QED
          BY <1>2, <5>1, <5>2, <5>5, <4>2, Performed
      <4> QED
        BY <4>5, <4>6
    <3> QED
      BY <3>1, <3>2
  <2> QED
    BY <1>2, <2>1, <2>3, <2>4, <2>5 DEF PrintfNext
<1>3. PrintfInv => PrintfFits
  BY DEF PrintfInv, PrintfFits, Fits
<1> QED
  BY <1>1, <1>2, <1>3, PTL DEF PrintfSpec

(***************************************************************************)
(* Name-value pairs                                                        *)
(***************************************************************************)

Item == [kind : {"byte", "run"}, val : Nat, of : {<<>>} \cup ({"name", "value"} \X Nat)]

\* What is left of s when it is cut anywhere, also inside a run.
Truncated(c, s) ==
    /\ c \in Seq(Item) /\ Len(c) <= Len(s)
    /\ \A i \in 1 .. Len(c) :
          /\ i < Len(c) => c[i] = s[i]
          /\ c[i].kind = s[i].kind /\ c[i].of = s[i].of /\ c[i].val <= s[i].val
          /\ c[i].kind = "byte" => c[i] = s[i]

\* Concatenation, with the facts about it that are needed.
Cat(a, s) == a \o s

LEMMA CatClosed ==
    ASSUME NEW a \in Seq(Item), NEW s \in Seq(Item)
    PROVE  Cat(a, s) \in Seq(Item)
BY ConcatProperties DEF Cat

LEMMA CatAssociative ==
    ASSUME NEW a \in Seq(Item), NEW s \in Seq(Item), NEW t \in Seq(Item)
    PROVE  Cat(Cat(a, s), t) = Cat(a, Cat(s, t))
BY ConcatAssociative, SMT DEF Cat

LEMMA CatEmpty ==
    ASSUME NEW a \in Seq(Item)
    PROVE  Cat(a, <<>>) = a /\ Cat(<<>>, a) = a
BY ConcatEmptySeq DEF Cat

\* The items of w are those of a, followed by those of s.
Joined(w, a, s) ==
    /\ w \in Seq(Item) /\ Len(w) = Len(a) + Len(s)
    /\ \A i \in 1 .. Len(a) : w[i] = a[i]
    /\ \A i \in 1 .. Len(s) : w[Len(a) + i] = s[i]

LEMMA JoinedAre ==
    ASSUME NEW a \in Seq(Item), NEW s \in Seq(Item)
    PROVE  Joined(Cat(a, s), a, s)
<1> DEFINE w == a \o s
<1>1. /\ w \in Seq(Item) /\ Len(w) = Len(a) + Len(s)
      /\ \A i \in 1 .. Len(a) + Len(s) : w[i] = IF i <= Len(a) THEN a[i] ELSE s[i - Len(a)]
  BY ConcatProperties
<1>2. Len(a) \in Nat /\ Len(s) \in Nat
  BY LenProperties
<1>3. w = Cat(a, s)
  BY DEF Cat
<1> HIDE DEF w
<1>4. \A i \in 1 .. Len(a) : w[i] = a[i]
  BY <1>1, <1>2
<1>5. \A i \in 1 .. Len(s) : w[Len(a) + i] = s[i]
  BY <1>1, <1>2
<1>6. Joined(w, a, s)
  BY <1>1, <1>4, <1>5 DEF Joined
<1> QED
  BY <1>6, <1>3

\* The four bytes of a long length, whose values make it up again.
LongBytes(w, n) ==
    /\ w \in Seq(Item) /\ Len(w) = 4
    /\ \A i \in 1 .. 4 : w[i] \in Item /\ w[i].kind = "byte"
    /\ w[1].val >= 128
    /\ LongLength(w[1].val, w[2].val, w[3].val, w[4].val) = n

LEMMA LengthItems ==
    ASSUME NEW n \in Nat, n < INT_MAX
    PROVE  /\ n < 128 => LengthBytes(n) = <<Byte(n)>>
           /\ n >= 128 => LongBytes(LengthBytes(n), n)
<1>1. ASSUME NEW b \in Nat PROVE Byte(b) \in Item /\ Byte(b).kind = "byte" /\ Byte(b).val = b
  BY DEF Byte, Item
<1>2. CASE n < 128
  BY <1>2 DEF LengthBytes
<1>3. CASE n >= 128
  <2> DEFINE k == (n \div 16777216) + 128
             l == (n \div 65536) % 256
             m == (n \div 256) % 256
             o == n % 256
  <2>1. LengthBytes(n) = <<Byte(k), Byte(l), Byte(m), Byte(o)>>
    BY <1>3, SMT DEF LengthBytes
  <2>2. k \in Nat /\ l \in Nat /\ m \in Nat /\ o \in Nat /\ k >= 128
    BY SMT
  <2>3. LongLength(k, l, m, o) = n
    <3>1. n \div 16777216 < 128
      BY SMT DEF INT_MAX
    <3>2. k % 128 = n \div 16777216
      BY <3>1, SMT
    <3>3. n = (n \div 256) * 256 + o
      BY SMT
    <3>4. n \div 256 = (n \div 65536) * 256 + m
      BY SMT
    <3>5. n \div 65536 = (n \div 16777216) * 256 + l
      BY SMT
    <3> QED
      BY <3>2, <3>3, <3>4, <3>5, SMT DEF LongLength
  <2> HIDE DEF k, l, m, o
  <2> DEFINE w == <<Byte(k), Byte(l), Byte(m), Byte(o)>>
  <2>4. Byte(k) \in Item /\ Byte(l) \in Item /\ Byte(m) \in Item /\ Byte(o) \in Item
    BY <1>1, <2>2
  <2>5. w \in Seq(Item) /\ Len(w) = 4
        /\ w[1] = Byte(k) /\ w[2] = Byte(l) /\ w[3] = Byte(m) /\ w[4] = Byte(o)
    BY <2>4
  <2> HIDE DEF w
  <2>6. \A i \in 1 .. 4 : w[i] \in Item /\ w[i].kind = "byte"
    BY <2>5, <1>1, <2>2
  <2>7. w[1].val = k /\ w[2].val = l /\ w[3].val = m /\ w[4].val = o
    BY <2>5, <1>1, <2>2
  <2>8. LongBytes(w, n)
    BY <2>5, <2>6, <2>7, <2>2, <2>3 DEF LongBytes
  <2> QED
    BY <2>1, <2>8, <1>3 DEF w
<1> QED
  BY <1>2, <1>3

\* c without as many items as a has
Rest(r, c, a) ==
    /\ a \in Seq(Item) /\ r \in Seq(Item) /\ Len(a) <= Len(c) /\ Len(r) = Len(c) - Len(a)
    /\ \A i \in 1 .. Len(r) : r[i] = c[Len(a) + i]

\* What is left behind the items of a.
LEMMA RestTruncated ==
    ASSUME NEW a \in Seq(Item), NEW s \in Seq(Item), NEW w, Joined(w, a, s),
           NEW c, Truncated(c, w), NEW r, Rest(r, c, a)
    PROVE  /\ Truncated(r, s)
           /\ c = w => r = s
<1>1. /\ Len(a) \in Nat /\ Len(s) \in Nat /\ Len(c) \in Nat /\ Len(r) \in Nat
      /\ Len(w) = Len(a) + Len(s) /\ c \in Seq(Item)
  BY LenProperties DEF Truncated, Joined, Rest
<1>2. Len(r) <= Len(s)
  BY <1>1 DEF Truncated, Rest
<1>3. ASSUME NEW i \in 1 .. Len(r)
      PROVE  /\ Len(a) + i \in 1 .. Len(c) /\ r[i] = c[Len(a) + i]
             /\ w[Len(a) + i] = s[i] /\ (i < Len(r) => Len(a) + i < Len(c))
  BY <1>1, <1>2, <1>3 DEF Joined, Rest
<1>4. Truncated(r, s)
  BY <1>1, <1>2, <1>3 DEF Truncated, Rest
<1>5. ASSUME c = w PROVE r = s
  <2>1. Len(c) = Len(w)
    BY <1>5, Zenon
  <2>2. \A i \in 1 .. Len(r) : r[i] = s[i]
    BY <1>3, <1>5
  <2> QED
    BY <1>1, <2>1, <2>2, SeqEqual DEF Rest
<1> QED
  BY <1>4, <1>5

\* The items that were read and what is left make up what there was.
LEMMA RestJoined ==
    ASSUME NEW a \in Seq(Item), NEW c \in Seq(Item), NEW r, Rest(r, c, a),
           \A i \in 1 .. Len(a) : c[i] = a[i]
    PROVE  c = Cat(a, r)
<1> DEFINE w == Cat(a, r)
<1>1. r \in Seq(Item) /\ Len(a) <= Len(c) /\ Len(r) = Len(c) - Len(a)
      /\ \A i \in 1 .. Len(r) : r[i] = c[Len(a) + i]
  BY DEF Rest
<1>2. Len(a) \in Nat /\ Len(c) \in Nat /\ Len(r) \in Nat
  BY <1>1, LenProperties
<1>3. Joined(w, a, r)
  BY <1>1, JoinedAre
<1> HIDE DEF w
<1>4. w \in Seq(Item) /\ Len(w) = Len(c)
  BY <1>1, <1>2, <1>3 DEF Joined
<1>5. ASSUME NEW i \in 1 .. Len(c) PROVE c[i] = w[i]
  <2>1. CASE i \in 1 .. Len(a)
    BY <2>1, <1>3 DEF Joined
  <2>2. CASE i - Len(a) \in 1 .. Len(r)
    <3>1. PICK j \in 1 .. Len(r) : i = Len(a) + j
      <4>1. i = Len(a) + (i - Len(a))
        BY <1>2
      <4> QED
        BY <4>1, <2>2
    <3>2. r[j] = c[Len(a) + j]
      BY <1>1
    <3>3. w[Len(a) + j] = r[j]
      BY <1>3 DEF Joined
    <3> QED
      BY <3>1, <3>2, <3>3, Zenon
  <2>3. i \in 1 .. Len(a) \/ i - Len(a) \in 1 .. Len(r)
    BY <1>1, <1>2
  <2> QED
    BY <2>1, <2>2, <2>3
<1>6. c = w
  BY <1>4, <1>5, SeqEqual
<1> QED
  BY <1>6 DEF w

\* Reading a length from a stream that may be cut.
LEMMA LengthRead ==
    ASSUME NEW n \in Nat, n < INT_MAX, NEW s \in Seq(Item), NEW a, a = LengthBytes(n),
           NEW w, Joined(w, a, s), NEW c, Truncated(c, w)
    PROVE  /\ ReadLength(c).ok => /\ ReadLength(c).val = n /\ Truncated(ReadLength(c).rest, s)
                                  /\ ReadLength(c).rest \in Seq(Item)
                                  /\ c = Cat(a, ReadLength(c).rest)
           /\ c = w => ReadLength(c).ok /\ ReadLength(c).rest = s
<1>1. CASE n < 128
  <2>1. a = <<Byte(n)>> /\ Byte(n) \in Item
    BY <1>1, LengthItems DEF Byte, Item
  <2>2. a \in Seq(Item) /\ Len(a) = 1 /\ a[1] = Byte(n)
    BY <2>1
  <2>5. c \in Seq(Item) /\ Len(c) \in Nat
    BY LenProperties DEF Truncated
  <2>6. w # <<>> /\ Len(w) >= 1 /\ w[1] = Byte(n)
    BY <2>2, EmptySeq, LenProperties DEF Joined
  <2>7. ASSUME c # <<>>
        PROVE  /\ ReadLength(c).ok /\ ReadLength(c).val = n
               /\ Truncated(ReadLength(c).rest, s) /\ (c = w => ReadLength(c).rest = s)
               /\ ReadLength(c).rest \in Seq(Item)
               /\ c = Cat(a, ReadLength(c).rest)
    <3>1. Len(c) >= 1
      BY <2>5, <2>7, EmptySeq
    <3>2. c[1].val = n
      BY <3>1, <2>6, <2>5 DEF Truncated, Byte
    <3>3. Tail(c) \in Seq(Item) /\ Len(Tail(c)) = Len(c) - 1
          /\ \A i \in 1 .. Len(Tail(c)) : Tail(c)[i] = c[1 + i]
      BY <2>5, <2>7, HeadTailProperties
    <3> DEFINE r == Tail(c)
    <3> HIDE DEF r
    <3>4. Rest(r, c, a)
      BY <3>1, <3>3, <2>2 DEF r, Rest
    <3>5. Truncated(r, s) /\ (c = w => r = s)
      BY <3>4, <2>2, RestTruncated
    <3>6. ReadLength(c).ok /\ ReadLength(c).val = n /\ ReadLength(c).rest = r
      BY <3>2, <2>7, <1>1, SMT DEF ReadLength, r
    <3>7. c = Cat(a, r) /\ r \in Seq(Item)
      <4>1. c[1] = a[1]
        BY <3>1, <2>2, <2>5, <2>6 DEF Truncated, Byte
      <4>2. \A i \in 1 .. Len(a) : c[i] = a[i]
        BY <4>1, <2>2
      <4>3. r \in Seq(Item)
        BY <3>4 DEF Rest
      <4> QED
        BY <4>2, <4>3, <3>4, <2>2, <2>5, RestJoined
    <3> QED
      BY <3>5, <3>6, <3>7, Zenon
  <2>8. CASE c = <<>>
    <3>1. ~ ReadLength(c).ok /\ c # w
      BY <2>8, <2>6, SMT DEF ReadLength
    <3> QED
      BY <3>1
  <2> QED
    BY <2>7, <2>8, Zenon
<1>2. CASE n >= 128
  <2>1. LongBytes(a, n)
    BY <1>2, LengthItems, Zenon
  <2>2. a \in Seq(Item) /\ Len(a) = 4 /\ \A i \in 1 .. 4 : a[i].kind = "byte"
    BY <2>1 DEF LongBytes
  <2>5. c \in Seq(Item) /\ Len(c) \in Nat
    BY LenProperties DEF Truncated
  <2>6. w # <<>> /\ Len(w) >= 4 /\ \A i \in 1 .. 4 : w[i] = a[i]
    BY <2>2, EmptySeq, LenProperties DEF Joined
  <2>7. CASE c = <<>>
    <3>1. ~ ReadLength(c).ok /\ c # w
      BY <2>7, <2>6, SMT DEF ReadLength
    <3> QED
      BY <3>1
  <2>8. ASSUME c # <<>> PROVE ~ (c[1].val < 128)
    <3>1. Len(c) >= 1
      BY <2>5, <2>8, EmptySeq
    <3>2. c[1].kind = "byte" /\ c[1] = w[1]
      BY <3>1, <2>6, <2>5, <2>2 DEF Truncated
    <3>3. a[1].val >= 128 /\ a[1] \in Item
      BY <2>1 DEF LongBytes
    <3> QED
      BY <3>2, <3>3, <2>6 DEF Item
  <2>9. CASE c # <<>> /\ Len(c) < 4
    <3>1. ~ ReadLength(c).ok /\ c # w
      BY <2>9, <2>8, <2>6, <2>5, SMT DEF ReadLength
    <3> QED
      BY <3>1
  <2>10. CASE c # <<>> /\ Len(c) >= 4
    <3>1. ASSUME NEW i \in 1 .. 4 PROVE c[i] = a[i]
      <4>1. i \in 1 .. Len(c) /\ w[i] = a[i] /\ w[i].kind = "byte"
        BY <2>10, <2>6, <2>5, <2>2
      <4> QED
        BY <4>1 DEF Truncated
    <3> DEFINE r == SubSeq(c, 5, Len(c))
    <3>2. \A i \in 5 .. Len(c) : c[i] \in Item
      BY <2>5, ElementOfSeq
    <3>3. r \in Seq(Item) /\ Len(r) = Len(c) - 4
          /\ \A i \in 1 .. Len(r) : r[i] = c[4 + i]
      <4>1. /\ r \in Seq(Item)
            /\ Len(r) = IF 5 <= Len(c) THEN Len(c) - 5 + 1 ELSE 0
            /\ \A i \in 1 .. Len(c) - 5 + 1 : r[i] = c[5 + i - 1]
        BY <3>2, <2>5, SubSeqProperties
      <4> HIDE DEF r
      <4>2. Len(r) = Len(c) - 4
        <5> DEFINE l == Len(c)
        <5>1. Len(r) = (IF 5 <= l THEN l - 5 + 1 ELSE 0) /\ l \in Nat /\ l >= 4
          BY <4>1, <2>5, <2>10
        <5> HIDE DEF l
        <5>2. Len(r) = l - 4
          BY <5>1
        <5> QED
          BY <5>2 DEF l
      <4>3. ASSUME NEW i \in 1 .. Len(r) PROVE r[i] = c[4 + i]
        BY <4>1, <4>2, <4>3, <2>5
      <4> QED
        BY <4>1, <4>2, <4>3
    <3>4. LongLength(c[1].val, c[2].val, c[3].val, c[4].val) = n
      BY <3>1, <2>1 DEF LongBytes
    <3>5. ReadLength(c).ok /\ ReadLength(c).val = n /\ ReadLength(c).rest = r
      <4>1. ~ (Len(c) < 4)
        BY <2>10, <2>5
      <4>2. ReadLength(c) = [ok |-> n < INT_MAX, val |-> n, rest |-> r]
        BY <3>4, <2>8, <2>10, <4>1, Zenon DEF ReadLength
      <4> DEFINE q == [ok |-> n < INT_MAX, val |-> n, rest |-> r]
      <4>3. q.ok = (n < INT_MAX)
        OBVIOUS
      <4>4. q.val = n /\ q.rest = r
        OBVIOUS
      <4> HIDE DEF q
      <4>5. ReadLength(c) = q
        BY <4>2 DEF q
      <4> QED
        BY <4>3, <4>4, <4>5
    <3> HIDE DEF r
    <3>6. Rest(r, c, a)
      BY <3>3, <2>2, <2>10 DEF Rest
    <3>7. Truncated(r, s) /\ (c = w => r = s)
      BY <3>6, <2>2, RestTruncated
    <3>8. c = Cat(a, r) /\ r \in Seq(Item)
      <4>1. \A i \in 1 .. Len(a) : c[i] = a[i]
        BY <3>1, <2>2
      <4>2. r \in Seq(Item)
        BY <3>6 DEF Rest
      <4> QED
        BY <4>1, <4>2, <3>6, <2>2, <2>5, RestJoined
    <3> QED
      BY <3>5, <3>7, <3>8, Zenon
  <2> QED
    BY <2>7, <2>9, <2>10, <2>5
<1> QED
  BY <1>1, <1>2

\* Reading a name or value from a stream that may be cut.
LEMMA StrRead ==
    ASSUME NEW of \in {"name", "value"} \X Nat, NEW n \in Nat, NEW s \in Seq(Item),
           NEW a, a = RunOf(of, n), NEW w, Joined(w, a, s), NEW c, Truncated(c, w)
    PROVE  /\ GetStr(c, n).ok => /\ GetStr(c, n).of = IF n = 0 THEN <<>> ELSE of
                                 /\ Truncated(GetStr(c, n).rest, s)
                                 /\ GetStr(c, n).rest \in Seq(Item)
                                 /\ c = Cat(a, GetStr(c, n).rest)
           /\ c = w => GetStr(c, n).ok /\ GetStr(c, n).rest = s
<1>0. c \in Seq(Item) /\ Len(c) \in Nat
  BY LenProperties DEF Truncated
<1>1. CASE n = 0
  <2>1. a = <<>> /\ a \in Seq(Item) /\ Len(a) = 0
    BY <1>1 DEF RunOf
  <2>2. Rest(c, c, a)
    BY <1>0, <2>1 DEF Rest
  <2>0. a \in Seq(Item)
    BY <2>1
  <2>3. Truncated(c, s) /\ (c = w => c = s)
    BY <2>0, <2>2, RestTruncated
  <2>4. GetStr(c, n).ok /\ GetStr(c, n).of = <<>> /\ GetStr(c, n).rest = c
    BY <1>1 DEF GetStr
  <2>5. c = Cat(a, c)
    BY <1>0, <2>1, CatEmpty
  <2> QED
    BY <2>3, <2>4, <2>5, <1>0, <1>1
<1>2. CASE n > 0
  <2>1. a = <<Run(of, n)>> /\ Run(of, n) \in Item
    BY <1>2 DEF RunOf, Run, Item
  <2>2. a \in Seq(Item) /\ Len(a) = 1 /\ a[1] = Run(of, n)
    BY <2>1
  <2>3. w # <<>> /\ Len(w) >= 1 /\ w[1] = Run(of, n) /\ w[1].val = n /\ w[1].of = of
    BY <2>2, EmptySeq, LenProperties DEF Joined, Run
  <2>4. CASE c = <<>>
    <3>1. ~ GetStr(c, n).ok /\ c # w
      BY <2>4, <2>3, <1>2 DEF GetStr
    <3> QED
      BY <3>1
  <2>5. CASE c # <<>>
    <3>1. Len(c) >= 1 /\ 1 \in 1 .. Len(c)
      BY <1>0, <2>5, EmptySeq
    <3>2. c[1].of = of /\ c[1].val <= n /\ c[1].val \in Nat
      <4>1. c[1].of = w[1].of /\ c[1].val <= w[1].val
        BY <3>1 DEF Truncated
      <4>2. c[1] \in Item
        BY <3>1, <1>0, ElementOfSeq
      <4> QED
        BY <4>1, <4>2, <2>3 DEF Item
    <3>3. CASE c[1].val < n
      <4>1. ~ GetStr(c, n).ok
        BY <2>5, <3>3, <1>2 DEF GetStr
      <4>2. c # w
        BY <3>3, <2>3
      <4> QED
        BY <4>1, <4>2
    <3>4. CASE ~ (c[1].val < n)
      <4>1. c[1].val = n
        BY <3>2, <3>4
      <4>2. Tail(c) \in Seq(Item) /\ Len(Tail(c)) = Len(c) - 1
            /\ \A i \in 1 .. Len(Tail(c)) : Tail(c)[i] = c[1 + i]
        BY <1>0, <2>5, HeadTailProperties
      <4> DEFINE r == Tail(c)
      <4> HIDE DEF r
      <4>3. Rest(r, c, a)
        BY <3>1, <4>2, <2>2 DEF r, Rest
      <4>4. Truncated(r, s) /\ (c = w => r = s)
        BY <4>3, <2>2, RestTruncated
      <4>5. GetStr(c, n).ok /\ GetStr(c, n).of = of /\ GetStr(c, n).rest = r
        BY <2>5, <3>4, <4>1, <3>2, <1>2 DEF GetStr, r
      <4>6. c = Cat(a, r) /\ r \in Seq(Item)
        <5>1. c[1].kind = "run"
          <6>1. c[1].kind = w[1].kind
            BY <3>1 DEF Truncated
          <6> QED
            BY <6>1, <2>3 DEF Run
        <5>2. c[1] \in Item
          BY <3>1, <1>0, ElementOfSeq
        <5>3. c[1] = Run(of, n)
          BY <5>1, <5>2, <3>2, <4>1 DEF Item, Run
        <5>4. \A i \in 1 .. Len(a) : c[i] = a[i]
          BY <5>3, <2>2
        <5>5. r \in Seq(Item)
          BY <4>3 DEF Rest
        <5> QED
          BY <5>4, <5>5, <4>3, <2>2, <1>0, RestJoined
      <4> QED
        BY <4>4, <4>5, <4>6, <1>2
    <3> QED
      BY <3>3, <3>4
  <2> QED
    BY <2>4, <2>5
<1> QED
  BY <1>1, <1>2

\* The items of pair i of the environment, before those of s.
Pair(e, i, s) ==
    Cat(LengthBytes(Len(e.name)),
        Cat(LengthBytes(e.valueLen),
            Cat(RunOf(<<"name", i>>, Len(e.name)), Cat(RunOf(<<"value", i>>, e.valueLen), s))))

EnvEntry == [name : Names, valueLen : ValueLens]

LEMMA RunItems ==
    ASSUME NEW of \in {"name", "value"} \X Nat, NEW n \in Nat
    PROVE  RunOf(of, n) \in Seq(Item)
<1>1. Run(of, n) \in Item
  BY DEF Run, Item
<1> QED
  BY <1>1 DEF RunOf

LEMMA EntryLengths ==
    ASSUME NEW e \in EnvEntry
    PROVE  /\ Len(e.name) \in Nat /\ Len(e.name) < INT_MAX
           /\ e.valueLen \in Nat /\ e.valueLen < INT_MAX
           /\ LengthBytes(Len(e.name)) \in Seq(Item) /\ LengthBytes(e.valueLen) \in Seq(Item)
<1>1. ASSUME NEW n \in Nat, n < INT_MAX PROVE LengthBytes(n) \in Seq(Item)
  <2>1. Byte(n) \in Item
    BY DEF Byte, Item
  <2>2. <<Byte(n)>> \in Seq(Item)
    BY <2>1
  <2> QED
    <3>1. CASE n < 128
      BY <1>1, <2>2, <3>1, LengthItems
    <3>2. CASE n >= 128
      <4>1. LongBytes(LengthBytes(n), n)
        BY <1>1, <3>2, LengthItems
      <4> QED
        BY <4>1 DEF LongBytes
    <3> QED
      BY <3>1, <3>2
<1>2. Len(e.name) \in Nat /\ Len(e.name) < INT_MAX
  BY NamesAssumption, LenProperties DEF EnvEntry
<1>3. e.valueLen \in Nat /\ e.valueLen < INT_MAX
  <2>1. e.valueLen \in ValueLens
    BY DEF EnvEntry
  <2>2. e.valueLen \in 0 .. INT_MAX - 1
    BY <2>1, ValueLensAssumption
  <2>3. INT_MAX \in Int
    BY SMT DEF INT_MAX
  <2> QED
    BY <2>2, <2>3
<1> QED
  BY <1>1, <1>2, <1>3

LEMMA PairJoined ==
    ASSUME NEW e \in EnvEntry, NEW i \in Nat, NEW s \in Seq(Item)
    PROVE  \E w1, w2, w3, w4 :
              /\ Joined(w4, RunOf(<<"value", i>>, e.valueLen), s)
              /\ Joined(w3, RunOf(<<"name", i>>, Len(e.name)), w4)
              /\ Joined(w2, LengthBytes(e.valueLen), w3)
              /\ Joined(w1, LengthBytes(Len(e.name)), w2)
              /\ w1 = Pair(e, i, s)
<1> DEFINE w4 == Cat(RunOf(<<"value", i>>, e.valueLen), s)
           w3 == Cat(RunOf(<<"name", i>>, Len(e.name)), w4)
           w2 == Cat(LengthBytes(e.valueLen), w3)
           w1 == Cat(LengthBytes(Len(e.name)), w2)
<1>1. RunOf(<<"value", i>>, e.valueLen) \in Seq(Item) /\ RunOf(<<"name", i>>, Len(e.name)) \in Seq(Item)
  BY RunItems, EntryLengths
<1>2. Joined(w4, RunOf(<<"value", i>>, e.valueLen), s) /\ w4 \in Seq(Item)
  BY <1>1, JoinedAre DEF Joined
<1>3. Joined(w3, RunOf(<<"name", i>>, Len(e.name)), w4) /\ w3 \in Seq(Item)
  BY <1>1, <1>2, JoinedAre DEF Joined
<1>4. Joined(w2, LengthBytes(e.valueLen), w3) /\ w2 \in Seq(Item)
  BY <1>3, EntryLengths, JoinedAre DEF Joined
<1>5. Joined(w1, LengthBytes(Len(e.name)), w2)
  BY <1>4, EntryLengths, JoinedAre
<1>6. w1 = Pair(e, i, s)
  BY DEF Pair
<1> HIDE DEF w1, w2, w3, w4
<1> QED
  BY <1>2, <1>3, <1>4, <1>5, <1>6

\* What ReadPair makes of pair i.
Received(e, i) ==
    [name |-> IF Len(e.name) = 0 THEN <<>> ELSE <<"name", i>>, nameLen |-> Len(e.name),
     value |-> IF e.valueLen = 0 THEN <<>> ELSE <<"value", i>>, valueLen |-> e.valueLen]

\* One turn of the loop of ReadParams: pair i, or an error if the stream is cut.
LEMMA PairRead ==
    ASSUME NEW e \in EnvEntry, NEW i \in Nat, NEW s \in Seq(Item),
           NEW c, Truncated(c, Pair(e, i, s)),
           NEW nl, nl = ReadLength(c), NEW vl, vl = ReadLength(nl.rest),
           NEW nm, nm = GetStr(vl.rest, nl.val), NEW va, va = GetStr(nm.rest, vl.val)
    PROVE  /\ nl.ok /\ vl.ok /\ nm.ok /\ va.ok =>
                 /\ [name |-> nm.of, nameLen |-> nl.val, value |-> va.of, valueLen |-> vl.val]
                      = Received(e, i)
                 /\ Truncated(va.rest, s) /\ va.rest \in Seq(Item)
                 /\ c = Pair(e, i, va.rest)
           /\ c = Pair(e, i, s) => nl.ok /\ vl.ok /\ nm.ok /\ va.ok /\ va.rest = s
<1> DEFINE a1 == LengthBytes(Len(e.name))
           a2 == LengthBytes(e.valueLen)
           a3 == RunOf(<<"name", i>>, Len(e.name))
           a4 == RunOf(<<"value", i>>, e.valueLen)
<1>1. PICK w1, w2, w3, w4 :
              /\ Joined(w4, a4, s) /\ Joined(w3, a3, w4)
              /\ Joined(w2, a2, w3) /\ Joined(w1, a1, w2) /\ w1 = Pair(e, i, s)
  BY PairJoined
<1>2. /\ Len(e.name) \in Nat /\ Len(e.name) < INT_MAX
      /\ e.valueLen \in Nat /\ e.valueLen < INT_MAX
  BY EntryLengths
<1>3. w2 \in Seq(Item) /\ w3 \in Seq(Item) /\ w4 \in Seq(Item)
  BY <1>1 DEF Joined
<1>4. <<"name", i>> \in {"name", "value"} \X Nat /\ <<"value", i>> \in {"name", "value"} \X Nat
  OBVIOUS
<1>5. Truncated(c, w1)
  BY <1>1
<1> DEFINE n1 == Len(e.name)
           n2 == e.valueLen
<1>6. a1 = LengthBytes(n1) /\ a2 = LengthBytes(n2)
      /\ a3 = RunOf(<<"name", i>>, n1) /\ a4 = RunOf(<<"value", i>>, n2)
  OBVIOUS
<1>7. n1 \in Nat /\ n1 < INT_MAX /\ n2 \in Nat /\ n2 < INT_MAX
  BY <1>2
<1> HIDE DEF a1, a2, a3, a4, n1, n2
<1>8. /\ nl.ok => nl.val = n1 /\ Truncated(nl.rest, w2) /\ c = Cat(a1, nl.rest)
      /\ c = w1 => nl.ok /\ nl.rest = w2
  BY <1>1, <1>3, <1>5, <1>6, <1>7, LengthRead
<1>9. ASSUME nl.ok
      PROVE  /\ vl.ok => vl.val = n2 /\ Truncated(vl.rest, w3) /\ nl.rest = Cat(a2, vl.rest)
             /\ nl.rest = w2 => vl.ok /\ vl.rest = w3
  <2>1. Truncated(nl.rest, w2)
    BY <1>8, <1>9
  <2> QED
    BY <2>1, <1>1, <1>3, <1>6, <1>7, LengthRead
<1>10. ASSUME nl.ok, vl.ok
       PROVE  /\ nm.ok => /\ nm.of = IF n1 = 0 THEN <<>> ELSE <<"name", i>>
                          /\ Truncated(nm.rest, w4) /\ vl.rest = Cat(a3, nm.rest)
              /\ vl.rest = w3 => nm.ok /\ nm.rest = w4
  <2>1. Truncated(vl.rest, w3) /\ nm = GetStr(vl.rest, n1)
    BY <1>8, <1>9, <1>10
  <2> QED
    BY <2>1, <1>1, <1>3, <1>4, <1>6, <1>7, StrRead
<1>11. ASSUME nl.ok, vl.ok, nm.ok
       PROVE  /\ va.ok => /\ va.of = IF n2 = 0 THEN <<>> ELSE <<"value", i>>
                          /\ Truncated(va.rest, s) /\ va.rest \in Seq(Item)
                          /\ nm.rest = Cat(a4, va.rest)
              /\ nm.rest = w4 => va.ok /\ va.rest = s
  <2>1. Truncated(nm.rest, w4) /\ va = GetStr(nm.rest, n2)
    BY <1>9, <1>10, <1>11
  <2> QED
    BY <2>1, <1>1, <1>4, <1>6, <1>7, StrRead
<1>12. c = w1 => nl.ok /\ vl.ok /\ nm.ok /\ va.ok /\ va.rest = s
  BY <1>8, <1>9, <1>10, <1>11
<1>13. ASSUME nl.ok, vl.ok, nm.ok, va.ok
       PROVE  /\ [name |-> nm.of, nameLen |-> nl.val, value |-> va.of, valueLen |-> vl.val]
                    = Received(e, i)
              /\ Truncated(va.rest, s) /\ va.rest \in Seq(Item)
  BY <1>8, <1>9, <1>10, <1>11, <1>13 DEF Received, n1, n2
<1>14. ASSUME nl.ok, vl.ok, nm.ok, va.ok
       PROVE  c = Pair(e, i, va.rest)
  <2>1. /\ c = Cat(a1, nl.rest) /\ nl.rest = Cat(a2, vl.rest)
        /\ vl.rest = Cat(a3, nm.rest) /\ nm.rest = Cat(a4, va.rest)
    BY <1>8, <1>9, <1>10, <1>11, <1>14
  <2>2. c = Cat(a1, Cat(a2, Cat(a3, Cat(a4, va.rest))))
    BY <2>1, Zenon
  <2> QED
    BY <2>2 DEF Pair, a1, a2, a3, a4, n1, n2
<1> QED
  BY <1>1, <1>12, <1>13, <1>14

\* What is written behind a pair comes behind what follows it.
LEMMA PairAppend ==
    ASSUME NEW e \in EnvEntry, NEW i \in Nat, NEW s \in Seq(Item), NEW x \in Seq(Item)
    PROVE  /\ Pair(e, i, s) \in Seq(Item)
           /\ Cat(Pair(e, i, s), x) = Pair(e, i, Cat(s, x))
           /\ s \o LengthBytes(Len(e.name)) \o LengthBytes(e.valueLen)
                \o RunOf(<<"name", i>>, Len(e.name)) \o RunOf(<<"value", i>>, e.valueLen)
              = Cat(s, Pair(e, i, <<>>))
<1> DEFINE a1 == LengthBytes(Len(e.name))
           a2 == LengthBytes(e.valueLen)
           a3 == RunOf(<<"name", i>>, Len(e.name))
           a4 == RunOf(<<"value", i>>, e.valueLen)
<1>1. a1 \in Seq(Item) /\ a2 \in Seq(Item) /\ a3 \in Seq(Item) /\ a4 \in Seq(Item)
  BY EntryLengths, RunItems
<1>2. \A y : Pair(e, i, y) = Cat(a1, Cat(a2, Cat(a3, Cat(a4, y))))
  BY DEF Pair
<1>3. s \o a1 \o a2 \o a3 \o a4 = Cat(Cat(Cat(Cat(s, a1), a2), a3), a4)
  BY DEF Cat
<1> HIDE DEF a1, a2, a3, a4
<1>4. /\ Cat(a4, s) \in Seq(Item)
      /\ Cat(a3, Cat(a4, s)) \in Seq(Item)
      /\ Cat(a2, Cat(a3, Cat(a4, s))) \in Seq(Item)
      /\ Cat(a1, Cat(a2, Cat(a3, Cat(a4, s)))) \in Seq(Item)
  BY <1>1, CatClosed
<1>5. Cat(Pair(e, i, s), x) = Pair(e, i, Cat(s, x))
  BY <1>1, <1>2, <1>4, CatAssociative
<1>6. Cat(Cat(Cat(Cat(s, a1), a2), a3), a4) = Cat(s, Pair(e, i, <<>>))
  <2>1. /\ Cat(s, a1) \in Seq(Item) /\ Cat(Cat(s, a1), a2) \in Seq(Item)
        /\ Cat(a3, a4) \in Seq(Item) /\ Cat(a2, Cat(a3, a4)) \in Seq(Item)
    BY <1>1, CatClosed
  <2>2. Cat(Cat(Cat(Cat(s, a1), a2), a3), a4) = Cat(s, Cat(a1, Cat(a2, Cat(a3, a4))))
    BY <1>1, <2>1, CatAssociative
  <2> QED
    BY <1>1, <1>2, <2>2, CatEmpty
<1> QED
  BY <1>2, <1>3, <1>4, <1>5, <1>6 DEF a1, a2, a3, a4

ParamEntry ==
    [name : {<<>>} \cup ({"name"} \X Nat), nameLen : Nat,
     value : {<<>>} \cup ({"value"} \X Nat), valueLen : Nat]

\* t[i] is what cgi-fcgi writes from pair i on.
Chain(t, e) ==
    /\ t \in [1 .. Len(e) + 1 -> Seq(Item)] /\ t[Len(e) + 1] = <<>>
    /\ \A i \in 1 .. Len(e) : t[i] = Pair(e[i], i, t[i + 1])

\* The vector is the beginning of the environment, with room for the NULL.
VectorInv ==
    /\ env \in Seq(EnvEntry)
    /\ params = [vec |-> params.vec, length |-> params.length]
    /\ params.vec \in Seq(ParamEntry) /\ params.length \in Nat
    /\ Len(params.vec) < params.length /\ Len(params.vec) <= Len(env)
    /\ \A i \in 1 .. Len(params.vec) : params.vec[i] = Received(env[i], i)

\* What the history m says of the first k pairs.
Mark(m, k) == IF k = 0 THEN <<>> ELSE m[k]

\* Every pair comes behind the pair before it, and in front of all that follow.
Marked(m, e) ==
    /\ m \in Seq(Seq(Item)) /\ Len(m) = Len(e)
    /\ \A j \in 1 .. Len(e) : Mark(m, j) = Cat(Mark(m, j - 1), Pair(e[j], j, <<>>))
    /\ \A j \in 1 .. Len(e) : \A k \in 0 .. j - 1 :
          \E x \in Seq(Item) : Mark(m, j) = Cat(Mark(m, k), Pair(e[k + 1], k + 1, x))

\* What is still to be read is what was written, or less if it was cut, and
\* comes behind the pairs that have been read.
StreamInv ==
    /\ result \in {"writing", "reading", "0", "-1"}
    /\ Marked(marks, env)
    /\ result = "0" => arrived = UpTo(Len(params.vec))
    /\ result = "-1" => \A k \in 0 .. Len(env) : arrived # UpTo(k)
    /\ result = "writing" => Len(params.vec) = 0 /\ stream = Mark(marks, Len(env))
    /\ result = "reading" => /\ stream \in Seq(Item)
                             /\ arrived = Cat(Mark(marks, Len(params.vec)), stream)
    /\ \E t : /\ Chain(t, env)
              /\ result = "writing" => stream = t[1]
              /\ result = "reading" => Truncated(stream, t[Len(params.vec) + 1])

LEMMA MarkItems ==
    ASSUME NEW m, NEW e \in Seq(EnvEntry), Marked(m, e), NEW k \in 0 .. Len(e)
    PROVE  Mark(m, k) \in Seq(Item)
<1>1. m \in Seq(Seq(Item)) /\ Len(m) = Len(e)
  BY DEF Marked
<1>2. CASE k = 0
  BY <1>2, EmptySeq DEF Mark
<1>3. CASE k # 0
  <2>1. k \in 1 .. Len(m)
    BY <1>1, <1>3, LenProperties
  <2> QED
    BY <1>1, <1>3, <2>1, ElementOfSeq DEF Mark
<1> QED
  BY <1>2, <1>3

LEMMA CatCancels ==
    ASSUME NEW a \in Seq(Item), NEW s \in Seq(Item), NEW t \in Seq(Item), Cat(a, s) = Cat(a, t)
    PROVE  s = t
<1> DEFINE w == Cat(a, s)
<1>1. Joined(w, a, s) /\ Joined(w, a, t)
  BY JoinedAre
<1> HIDE DEF w
<1>2. Len(a) \in Nat /\ Len(s) \in Nat /\ Len(t) \in Nat
  BY LenProperties
<1>3. Len(s) = Len(t)
  BY <1>1, <1>2 DEF Joined
<1>4. \A i \in 1 .. Len(s) : s[i] = t[i]
  BY <1>1, <1>3 DEF Joined
<1> QED
  BY <1>3, <1>4, SeqEqual

LEMMA CatLength ==
    ASSUME NEW a \in Seq(Item), NEW s \in Seq(Item)
    PROVE  Len(Cat(a, s)) = Len(a) + Len(s) /\ Len(a) \in Nat /\ Len(s) \in Nat
BY JoinedAre, LenProperties DEF Joined

\* A stream that goes on behind pair k, but not as a pair followed by anything,
\* does not end behind a pair.
LEMMA EndsInside ==
    ASSUME NEW m, NEW e \in Seq(EnvEntry), Marked(m, e), NEW k \in 0 .. Len(e),
           NEW s \in Seq(Item), s # <<>>,
           \A x \in Seq(Item) : k + 1 <= Len(e) => s # Pair(e[k + 1], k + 1, x),
           NEW j \in 0 .. Len(e)
    PROVE  Cat(Mark(m, k), s) # Mark(m, j)
<1> DEFINE n == Len(e)
<1>1. n \in Nat /\ k \in 0 .. n /\ j \in 0 .. n
  BY LenProperties
<1>2. Mark(m, k) \in Seq(Item) /\ Mark(m, j) \in Seq(Item)
  BY MarkItems
<1>3. Len(s) \in Nat /\ Len(s) # 0
  BY LenProperties, EmptySeq
<1>4. CASE j = k
  <2>1. Len(Cat(Mark(m, k), s)) # Len(Mark(m, k))
    BY <1>2, <1>3, CatLength
  <2> QED
    BY <2>1, <1>4
<1>5. CASE j < k
  <2>1. k \in 1 .. Len(e) /\ j \in 0 .. k - 1 /\ j \in Nat
    BY <1>1, <1>5
  <2>2. PICK x \in Seq(Item) : Mark(m, k) = Cat(Mark(m, j), Pair(e[j + 1], j + 1, x))
    BY <2>1 DEF Marked
  <2>3. Pair(e[j + 1], j + 1, x) \in Seq(Item)
    <3>1. j + 1 \in 1 .. Len(e) /\ j + 1 \in Nat
      BY <1>1, <1>5
    <3>2. e[j + 1] \in EnvEntry
      BY <3>1, ElementOfSeq
    <3> QED
      BY <3>1, <3>2, PairAppend
  <2>4. /\ Len(Mark(m, k)) = Len(Mark(m, j)) + Len(Pair(e[j + 1], j + 1, x))
        /\ Len(Pair(e[j + 1], j + 1, x)) \in Nat /\ Len(Mark(m, j)) \in Nat
    BY <1>2, <2>2, <2>3, CatLength
  <2>5. Len(Cat(Mark(m, k), s)) = Len(Mark(m, k)) + Len(s)
    BY <1>2, CatLength
  <2>6. Len(Cat(Mark(m, k), s)) # Len(Mark(m, j))
    BY <2>4, <2>5, <1>3
  <2> QED
    BY <2>6
<1>6. CASE k < j
  <2>1. j \in 1 .. Len(e) /\ k \in 0 .. j - 1 /\ k + 1 <= Len(e) /\ k \in Nat
    BY <1>1, <1>6
  <2>2. PICK x \in Seq(Item) : Mark(m, j) = Cat(Mark(m, k), Pair(e[k + 1], k + 1, x))
    BY <2>1 DEF Marked
  <2>3. Pair(e[k + 1], k + 1, x) \in Seq(Item)
    <3>1. k + 1 \in 1 .. Len(e) /\ k + 1 \in Nat
      BY <1>1, <1>6
    <3>2. e[k + 1] \in EnvEntry
      BY <3>1, ElementOfSeq
    <3> QED
      BY <3>1, <3>2, PairAppend
  <2>4. s # Pair(e[k + 1], k + 1, x)
    BY <2>1
  <2> QED
    BY <1>2, <2>2, <2>3, <2>4, CatCancels
<1> QED
  BY <1>1, <1>4, <1>5, <1>6

\* What has been read and one more pair.
LEMMA MarkReached ==
    ASSUME NEW m, NEW e \in Seq(EnvEntry), Marked(m, e), NEW i \in 1 .. Len(e),
           NEW x \in Seq(Item)
    PROVE  Cat(Mark(m, i - 1), Pair(e[i], i, x)) = Cat(Mark(m, i), x)
<1>1. i \in Nat /\ i - 1 \in 0 .. Len(e) /\ e[i] \in EnvEntry
  BY LenProperties, ElementOfSeq
<1>2. Mark(m, i - 1) \in Seq(Item)
  BY <1>1, MarkItems
<1>3. <<>> \in Seq(Item)
  BY EmptySeq
<1>4. Pair(e[i], i, <<>>) \in Seq(Item) /\ Cat(Pair(e[i], i, <<>>), x) = Pair(e[i], i, Cat(<<>>, x))
  BY <1>1, <1>3, PairAppend
<1>5. Mark(m, i) = Cat(Mark(m, i - 1), Pair(e[i], i, <<>>))
  BY DEF Marked
<1>6. Cat(<<>>, x) = x
  BY CatEmpty
<1>7. Cat(Cat(Mark(m, i - 1), Pair(e[i], i, <<>>)), x)
        = Cat(Mark(m, i - 1), Cat(Pair(e[i], i, <<>>), x))
  BY <1>2, <1>4, CatAssociative
<1> QED
  BY <1>4, <1>5, <1>6, <1>7

LEMMA WholeIsTruncated ==
    ASSUME NEW s \in Seq(Item)
    PROVE  Truncated(s, s)
<1>1. ASSUME NEW i \in 1 .. Len(s) PROVE s[i].val <= s[i].val
  <2>1. s[i] \in Item
    BY ElementOfSeq
  <2> QED
    BY <2>1 DEF Item
<1>2. Len(s) \in Nat
  BY LenProperties
<1> QED
  BY <1>1, <1>2 DEF Truncated

Grown(f, e, p) == f = Append(e, p)

\* WritePair puts one more pair behind all the others.
LEMMA ChainGrows ==
    ASSUME NEW e \in Seq(EnvEntry), NEW t, Chain(t, e), NEW p \in EnvEntry,
           NEW f, Grown(f, e, p)
    PROVE  \E u : Chain(u, f) /\ u[1] = Cat(t[1], Pair(p, Len(f), <<>>))
<1> DEFINE n == Len(e)
           x == Pair(p, n + 1, <<>>)
           u == [i \in 1 .. n + 2 |-> IF i = n + 2 THEN <<>> ELSE Cat(t[i], x)]
<1>1. n \in Nat /\ t \in [1 .. n + 1 -> Seq(Item)] /\ t[n + 1] = <<>>
      /\ \A i \in 1 .. n : t[i] = Pair(e[i], i, t[i + 1])
  BY LenProperties DEF Chain
<1>2. /\ f \in Seq(EnvEntry) /\ Len(f) = n + 1 /\ f[n + 1] = p
      /\ \A i \in 1 .. n : f[i] = e[i]
  BY AppendProperties DEF Grown
<1>3. <<>> \in Seq(Item)
  BY EmptySeq
<1> HIDE DEF n
<1>4. x \in Seq(Item)
  <2>1. n + 1 \in Nat
    BY <1>1
  <2> QED
    BY <2>1, <1>3, PairAppend
<1>5. ASSUME NEW i \in 1 .. n + 1 PROVE Cat(t[i], x) \in Seq(Item)
  BY <1>1, <1>4, CatClosed
<1> HIDE DEF x
<1>6. u \in [1 .. n + 2 -> Seq(Item)] /\ u[n + 2] = <<>>
  BY <1>1, <1>3, <1>5
<1>7. \A i \in 1 .. n + 1 : u[i] = Cat(t[i], x)
  BY <1>1
<1>8. u[n + 1] = Pair(f[n + 1], n + 1, u[n + 2])
  <2>1. u[n + 1] = Cat(<<>>, x)
    BY <1>1, <1>7
  <2>2. u[n + 1] = x
    BY <2>1, <1>4, CatEmpty
  <2> QED
    BY <2>2, <1>2, <1>6 DEF x
<1>9. ASSUME NEW i \in 1 .. n PROVE u[i] = Pair(f[i], i, u[i + 1])
  <2>1. i \in Nat /\ i \in 1 .. n + 1 /\ i + 1 \in 1 .. n + 1
    BY <1>1
  <2>2. e[i] \in EnvEntry /\ t[i + 1] \in Seq(Item)
    BY <2>1, <1>1, ElementOfSeq DEF n
  <2>3. u[i] = Cat(t[i], x) /\ u[i + 1] = Cat(t[i + 1], x)
    BY <1>7, <2>1
  <2>4. t[i] = Pair(e[i], i, t[i + 1])
    BY <1>1
  <2>5. Cat(Pair(e[i], i, t[i + 1]), x) = Pair(e[i], i, Cat(t[i + 1], x))
    BY <2>1, <2>2, <1>4, PairAppend
  <2> QED
    BY <2>3, <2>4, <2>5, <1>2
<1>10. u[1] = Cat(t[1], Pair(p, Len(f), <<>>))
  BY <1>1, <1>2, <1>7 DEF x
<1> HIDE DEF u
<1>11. \A i \in 1 .. n + 1 : u[i] = Pair(f[i], i, u[i + 1])
  <2> SUFFICES ASSUME NEW i \in 1 .. n + 1 PROVE u[i] = Pair(f[i], i, u[i + 1])
    OBVIOUS
  <2>1. CASE i = n + 1
    <3>1. u[i + 1] = u[n + 2]
      BY <1>1, <2>1
    <3> QED
      BY <1>8, <2>1, <3>1
  <2>2. CASE i \in 1 .. n
    BY <1>9, <2>2
  <2>3. i = n + 1 \/ i \in 1 .. n
    BY <1>1
  <2> QED
    BY <2>1, <2>2, <2>3
<1>12. Chain(u, f)
  <2> DEFINE m == Len(f)
  <2>1. m = n + 1 /\ m + 1 = n + 2
    BY <1>1, <1>2
  <2> HIDE DEF m
  <2>2. /\ u \in [1 .. m + 1 -> Seq(Item)] /\ u[m + 1] = <<>>
        /\ \A i \in 1 .. m : u[i] = Pair(f[i], i, u[i + 1])
    BY <1>6, <1>11, <2>1
  <2> QED
    BY <2>2 DEF Chain, m
<1> QED
  BY <1>10, <1>12

LEMMA MarksGrow ==
    ASSUME NEW e \in Seq(EnvEntry), NEW m, Marked(m, e), NEW p \in EnvEntry,
           NEW f, Grown(f, e, p),
           NEW z, z = Cat(Mark(m, Len(e)), Pair(p, Len(f), <<>>)),
           NEW w, Grown(w, m, z)
    PROVE  Marked(w, f)
<1> DEFINE n == Len(e)
<1>1. n \in Nat /\ n \in 0 .. n /\ m \in Seq(Seq(Item)) /\ Len(m) = n
  BY LenProperties DEF Marked
<1>2. /\ f \in Seq(EnvEntry) /\ Len(f) = n + 1 /\ f[n + 1] = p
      /\ \A i \in 1 .. n : f[i] = e[i]
  BY AppendProperties DEF Grown
<1>3. <<>> \in Seq(Item)
  BY EmptySeq
<1>4. \A k \in 0 .. n : Mark(m, k) \in Seq(Item)
  BY MarkItems
<1> DEFINE x == Pair(p, n + 1, <<>>)
<1>5. n + 1 \in Nat /\ x \in Seq(Item)
  <2>1. n + 1 \in Nat
    BY <1>1
  <2> HIDE DEF n
  <2> QED
    BY <2>1, <1>3, PairAppend
<1>6. z = Cat(Mark(m, n), x)
  BY <1>2
<1>7. z \in Seq(Item)
  BY <1>1, <1>4, <1>5, <1>6, CatClosed
<1>8. /\ w \in Seq(Seq(Item)) /\ Len(w) = n + 1 /\ w[n + 1] = z
      /\ \A i \in 1 .. n : w[i] = m[i]
  BY <1>1, <1>7, AppendProperties DEF Grown
<1> HIDE DEF n, x
<1>9. \A k \in 0 .. n : Mark(w, k) = Mark(m, k)
  BY <1>1, <1>8 DEF Mark
<1>10. Mark(w, n + 1) = z
  BY <1>1, <1>8 DEF Mark
<1>11. ASSUME NEW j \in 1 .. n + 1
       PROVE  Mark(w, j) = Cat(Mark(w, j - 1), Pair(f[j], j, <<>>))
  <2>1. CASE j = n + 1
    <3>1. j - 1 = n
      BY <2>1, <1>1
    <3> QED
      BY <2>1, <3>1, <1>1, <1>2, <1>6, <1>9, <1>10 DEF x
  <2>2. CASE j \in 1 .. n
    <3>1. j - 1 \in 0 .. n /\ j \in 0 .. n
      BY <2>2, <1>1
    <3>2. Mark(m, j) = Cat(Mark(m, j - 1), Pair(e[j], j, <<>>))
      BY <2>2 DEF Marked, n
    <3> QED
      BY <2>2, <3>1, <3>2, <1>2, <1>9
  <2>3. j = n + 1 \/ j \in 1 .. n
    BY <1>1
  <2> QED
    BY <2>1, <2>2, <2>3
<1>12. ASSUME NEW j \in 1 .. n + 1, NEW k \in 0 .. j - 1
       PROVE  \E y \in Seq(Item) : Mark(w, j) = Cat(Mark(w, k), Pair(f[k + 1], k + 1, y))
  <2>1. CASE j \in 1 .. n
    <3>1. PICK y \in Seq(Item) : Mark(m, j) = Cat(Mark(m, k), Pair(e[k + 1], k + 1, y))
      BY <2>1 DEF Marked, n
    <3>2. j \in 0 .. n /\ k \in 0 .. n /\ k + 1 \in 1 .. n
      BY <2>1, <1>1
    <3> QED
      BY <3>1, <3>2, <1>2, <1>9
  <2>2. CASE j = n + 1 /\ k = n
    <3>1. Mark(w, j) = Cat(Mark(w, k), Pair(f[k + 1], k + 1, <<>>))
      BY <2>2, <1>1, <1>2, <1>6, <1>9, <1>10 DEF x
    <3> QED
      BY <3>1, <1>3
  <2>3. CASE j = n + 1 /\ k # n
    <3>1. n \in 1 .. n /\ k \in 0 .. n - 1 /\ k \in 0 .. n /\ k + 1 \in 1 .. n /\ k + 1 \in Nat
      BY <2>3, <1>1
    <3>2. PICK y \in Seq(Item) : Mark(m, n) = Cat(Mark(m, k), Pair(e[k + 1], k + 1, y))
      BY <3>1 DEF Marked, n
    <3>3. e[k + 1] \in EnvEntry
      BY <3>1, ElementOfSeq DEF n
    <3>4. /\ Pair(e[k + 1], k + 1, y) \in Seq(Item)
          /\ Cat(Pair(e[k + 1], k + 1, y), x) = Pair(e[k + 1], k + 1, Cat(y, x))
      BY <3>1, <3>3, <1>5, PairAppend
    <3>5. Mark(m, k) \in Seq(Item)
      BY <3>1, <1>4
    <3>6. Cat(Cat(Mark(m, k), Pair(e[k + 1], k + 1, y)), x)
            = Cat(Mark(m, k), Cat(Pair(e[k + 1], k + 1, y), x))
      BY <3>4, <3>5, <1>5, CatAssociative
    <3>7. z = Cat(Mark(m, k), Pair(e[k + 1], k + 1, Cat(y, x)))
      BY <1>6, <3>2, <3>4, <3>6
    <3>8. Cat(y, x) \in Seq(Item)
      BY <1>5, CatClosed
    <3>9. Mark(w, j) = z /\ Mark(w, k) = Mark(m, k) /\ f[k + 1] = e[k + 1]
      BY <2>3, <3>1, <1>2, <1>9, <1>10
    <3> QED
      BY <3>7, <3>8, <3>9
  <2>4. j \in 1 .. n \/ j = n + 1
    BY <1>1
  <2> QED
    BY <2>1, <2>2, <2>3, <2>4
<1>13. Len(w) = Len(f) /\ Len(f) = n + 1
  BY <1>2, <1>8
<1> QED
  BY <1>8, <1>11, <1>12, <1>13 DEF Marked

LEMMA ParamsInitial ==
    ASSUME ParamsInit
    PROVE  VectorInv /\ StreamInv
<1> DEFINE t == [i \in 1 .. 1 |-> <<>>]
<1>1. env = <<>> /\ Len(env) = 0 /\ env \in Seq(EnvEntry)
  BY EmptySeq DEF ParamsInit
<1>2. params.vec = <<>> /\ params.length = Length /\ params.vec \in Seq(ParamEntry)
      /\ Len(params.vec) = 0
  BY EmptySeq DEF ParamsInit
<1>3. VectorInv
  BY <1>1, <1>2, LengthAssumption DEF VectorInv, ParamsInit
<1>4. Chain(t, env)
  <2>1. <<>> \in Seq(Item)
    BY EmptySeq
  <2> QED
    BY <1>1, <2>1 DEF Chain
<1>5. result = "writing" /\ stream = t[1] /\ stream = <<>> /\ marks = <<>>
  BY DEF ParamsInit
<1> HIDE DEF t
<1>6. Marked(marks, env)
  <2>1. marks \in Seq(Seq(Item)) /\ Len(marks) = 0
    BY <1>5, EmptySeq
  <2> QED
    BY <2>1, <1>1 DEF Marked
<1>7. stream = Mark(marks, Len(env))
  BY <1>1, <1>5 DEF Mark
<1> QED
  BY <1>2, <1>3, <1>4, <1>5, <1>6, <1>7 DEF StreamInv

LEMMA WritePairStep ==
    ASSUME VectorInv, StreamInv, WritePair
    PROVE  VectorInv' /\ StreamInv'
<1>1. PICK name \in Names, valueLen \in ValueLens :
          /\ env' = Append(env, [name |-> name, valueLen |-> valueLen])
          /\ stream' = stream \o LengthBytes(Len(name)) \o LengthBytes(valueLen)
                         \o RunOf(<<"name", Len(env')>>, Len(name))
                         \o RunOf(<<"value", Len(env')>>, valueLen)
  BY DEF WritePair
<1> DEFINE p == [name |-> name, valueLen |-> valueLen]
<1>2. p \in EnvEntry /\ p.name = name /\ p.valueLen = valueLen
  BY DEF EnvEntry
<1>3. /\ result = "writing" /\ result' = result /\ params' = params
      /\ marks' = Append(marks, stream')
  BY DEF WritePair
<1>4. PICK t : Chain(t, env) /\ Len(params.vec) = 0 /\ stream = t[1]
  BY <1>3 DEF StreamInv
<1>5. env \in Seq(EnvEntry)
  BY DEF VectorInv
<1>6. env' = Append(env, p)
  BY <1>1
<1>7. env' \in Seq(EnvEntry) /\ Len(env') \in Nat /\ Len(env) \in Nat /\ Len(env') = Len(env) + 1
  BY <1>2, <1>5, <1>6, AppendProperties, LenProperties
<1>8. stream \in Seq(Item)
  <2>1. 1 \in 1 .. Len(env) + 1
    BY <1>7
  <2> QED
    BY <1>4, <2>1 DEF Chain
<1>9. stream' = Cat(stream, Pair(p, Len(env'), <<>>))
  <2> HIDE DEF p
  <2> DEFINE i == Len(env')
  <2>1. i \in Nat
    BY <1>7
  <2>2. stream' = stream \o LengthBytes(Len(p.name)) \o LengthBytes(p.valueLen)
                     \o RunOf(<<"name", i>>, Len(p.name)) \o RunOf(<<"value", i>>, p.valueLen)
    BY <1>1, <1>2
  <2> HIDE DEF i
  <2>3. stream \o LengthBytes(Len(p.name)) \o LengthBytes(p.valueLen)
           \o RunOf(<<"name", i>>, Len(p.name)) \o RunOf(<<"value", i>>, p.valueLen)
          = Cat(stream, Pair(p, i, <<>>))
    BY <2>1, <1>2, <1>8, PairAppend
  <2>4. stream' = Cat(stream, Pair(p, i, <<>>))
    BY <2>2, <2>3
  <2> QED
    BY <2>4 DEF i
<1> HIDE DEF p
<1>10. PICK u : Chain(u, env') /\ u[1] = Cat(t[1], Pair(p, Len(env'), <<>>))
  <2>1. Grown(env', env, p)
    BY <1>6 DEF Grown
  <2> QED
    BY <2>1, <1>2, <1>4, <1>5, ChainGrows
<1>11. stream' = u[1]
  BY <1>4, <1>9, <1>10
<1> DEFINE z == stream'
<1>14. z = Cat(Mark(marks, Len(env)), Pair(p, Len(env'), <<>>))
  BY <1>3, <1>9 DEF StreamInv
<1>15. Grown(env', env, p) /\ Grown(marks', marks, z)
  BY <1>3, <1>6 DEF Grown
<1> HIDE DEF z
<1>16. Marked(marks, env)
  BY DEF StreamInv
<1>17. Marked(marks', env')
  BY <1>2, <1>5, <1>14, <1>15, <1>16, MarksGrow
<1>18. stream' = Mark(marks', Len(env'))
  <2>1. marks \in Seq(Seq(Item)) /\ Len(marks) = Len(env)
    BY <1>16 DEF Marked
  <2>2. z \in Seq(Item)
    <3>1. 1 \in 1 .. Len(env') + 1
      BY <1>7
    <3> QED
      BY <3>1, <1>10, <1>11 DEF Chain, z
  <2>3. marks'[Len(marks) + 1] = z
    BY <1>15, <2>1, <2>2, AppendProperties DEF Grown
  <2> QED
    BY <1>7, <2>1, <2>3 DEF Mark, z
<1>12. StreamInv'
  BY <1>3, <1>4, <1>10, <1>11, <1>17, <1>18 DEF StreamInv
<1>13. VectorInv'
  BY <1>3, <1>4, <1>7 DEF VectorInv
<1> QED
  BY <1>12, <1>13

LEMMA EndStreamStep ==
    ASSUME VectorInv, StreamInv, EndStream
    PROVE  VectorInv' /\ StreamInv'
<1>1. /\ result = "writing" /\ result' = "reading" /\ env' = env /\ params' = params
      /\ marks' = marks /\ arrived' = stream'
  BY DEF EndStream
<1>2. PICK t : Chain(t, env) /\ Len(params.vec) = 0 /\ stream = t[1]
  BY <1>1 DEF StreamInv
<1>3. stream \in Seq(Item) /\ Len(stream) \in Nat
  <2>1. 1 \in 1 .. Len(env) + 1
    BY LenProperties DEF VectorInv
  <2> QED
    BY <1>2, <2>1, LenProperties DEF Chain
<1>4. Truncated(stream', stream)
  <2>1. CASE UNCHANGED stream
    BY <2>1, <1>3, WholeIsTruncated
  <2>2. ASSUME NEW n \in 0 .. Len(stream) - 1, stream' = SubSeq(stream, 1, n)
        PROVE  Truncated(stream', stream)
    <3> DEFINE r == SubSeq(stream, 1, n)
    <3>1. \A i \in 1 .. n : stream[i] \in Item
      BY <1>3, ElementOfSeq
    <3>2. /\ r \in Seq(Item) /\ Len(r) = IF 1 <= n THEN n - 1 + 1 ELSE 0
          /\ \A i \in 1 .. n - 1 + 1 : r[i] = stream[1 + i - 1]
      BY <3>1, SubSeqProperties
    <3> HIDE DEF r
    <3>3. Len(r) = n /\ \A i \in 1 .. n : r[i] = stream[i]
      <4>1. n \in Nat /\ n - 1 + 1 = n /\ (~ (1 <= n) => n = 0)
        BY <1>3
      <4>2. Len(r) = n
        BY <3>2, <4>1
      <4>3. ASSUME NEW i \in 1 .. n
            PROVE  r[i] = stream[i]
        <5>1. 1 + i - 1 = i
          OBVIOUS
        <5> QED
          BY <3>2, <4>1, <5>1
      <4> QED
        BY <4>2, <4>3
    <3>4. n \in Nat /\ n <= Len(stream) /\ \A i \in 1 .. n : i \in 1 .. Len(stream)
      BY <1>3
    <3>5. Truncated(stream, stream)
      BY <1>3, WholeIsTruncated
    <3>6. Truncated(r, stream)
      BY <3>2, <3>3, <3>4, <3>5 DEF Truncated
    <3> QED
      BY <2>2, <3>6 DEF r
  <2>3. ASSUME stream # <<>>, stream[Len(stream)].val > 1, stream[Len(stream)].kind = "run",
               stream' = [stream EXCEPT ![Len(stream)].val = @ - 1]
        PROVE  Truncated(stream', stream)
    <3> DEFINE n == Len(stream)
               last == [stream[n] EXCEPT !.val = @ - 1]
    <3>1. n \in 1 .. n /\ n \in Nat
      BY <1>3, <2>3, EmptySeq
    <3>2. stream[n] \in Item
      BY <1>3, <3>1, ElementOfSeq
    <3>3. /\ last \in Item /\ last.kind = "run" /\ last.of = stream[n].of
          /\ last.val <= stream[n].val /\ stream[n].kind = "run"
      BY <3>2, <2>3 DEF Item
    <3> DEFINE r == [stream EXCEPT ![n] = last]
    <3>4. stream' = r
      BY <2>3
    <3> HIDE DEF last
    <3>5. /\ r \in Seq(Item) /\ Len(r) = n
          /\ \A i \in 1 .. n : r[i] = IF i = n THEN last ELSE stream[i]
      BY <1>3, <3>1, <3>3, ExceptSeq
    <3> HIDE DEF r
    <3>6. Truncated(stream, stream)
      BY <1>3, WholeIsTruncated
    <3>7. ASSUME NEW i \in 1 .. Len(r)
          PROVE  /\ i < Len(r) => r[i] = stream[i]
                 /\ r[i].kind = stream[i].kind /\ r[i].of = stream[i].of /\ r[i].val <= stream[i].val
                 /\ r[i].kind = "byte" => r[i] = stream[i]
      <4>1. CASE i = n
        BY <4>1, <3>1, <3>3, <3>5
      <4>2. CASE i # n
        <5>1. r[i] = stream[i] /\ i \in 1 .. Len(stream)
          BY <4>2, <3>5
        <5> QED
          BY <5>1, <3>6 DEF Truncated
      <4> QED
        BY <4>1, <4>2
    <3>8. Truncated(r, stream)
      BY <3>1, <3>5, <3>7 DEF Truncated
    <3> QED
      BY <2>3, <3>4, <3>8
  <2> QED
    BY <2>1, <2>2, <2>3 DEF EndStream
<1>5. StreamInv'
  <2>1. Len(params'.vec) + 1 = 1 /\ Len(params'.vec) = 0
    BY <1>1, <1>2
  <2>2. stream' \in Seq(Item)
    BY <1>4 DEF Truncated
  <2>3. arrived' = Cat(Mark(marks', Len(params'.vec)), stream')
    <3>1. Mark(marks', Len(params'.vec)) = <<>>
      BY <2>1 DEF Mark
    <3> QED
      BY <3>1, <2>2, <1>1, CatEmpty
  <2>4. Marked(marks', env')
    BY <1>1 DEF StreamInv
  <2> QED
    BY <1>1, <1>2, <1>4, <2>1, <2>2, <2>3, <2>4 DEF StreamInv
<1>6. VectorInv'
  BY <1>1 DEF VectorInv
<1> QED
  BY <1>5, <1>6

LEMMA ReadPairStep ==
    ASSUME VectorInv, StreamInv, ReadPair
    PROVE  VectorInv' /\ StreamInv'
<1> DEFINE nl == ReadLength(stream)
           vl == ReadLength(nl.rest)
           nm == GetStr(vl.rest, nl.val)
           va == GetStr(nm.rest, vl.val)
           ok == nl.ok /\ vl.ok /\ nm.ok /\ va.ok
           entry == [name |-> nm.of, nameLen |-> nl.val, value |-> va.of, valueLen |-> vl.val]
           k == Len(params.vec)
<1>1. /\ result = "reading" /\ stream # <<>> /\ env' = env
      /\ marks' = marks /\ arrived' = arrived
      /\ IF ok THEN params' = PutParam(params, entry) /\ stream' = va.rest /\ result' = result
         ELSE result' = "-1" /\ params' = params /\ stream' = stream
  BY DEF ReadPair
<1>2. PICK t : Chain(t, env) /\ Truncated(stream, t[k + 1])
  BY <1>1 DEF StreamInv
<1>10. /\ Marked(marks, env) /\ stream \in Seq(Item)
       /\ arrived = Cat(Mark(marks, k), stream)
  BY <1>1 DEF StreamInv
<1>3. k \in Nat /\ Len(env) \in Nat /\ k <= Len(env) /\ env \in Seq(EnvEntry)
      /\ params.vec \in Seq(ParamEntry)
  BY LenProperties DEF VectorInv
<1>4. k + 1 \in 1 .. Len(env)
  <2>1. SUFFICES ASSUME k = Len(env) PROVE FALSE
    BY <1>3
  <2>2. t[k + 1] = <<>>
    BY <1>2, <2>1 DEF Chain
  <2>3. Len(stream) <= 0 /\ stream \in Seq(Item)
    <3>1. Len(t[k + 1]) = 0
      BY <2>2
    <3> QED
      BY <1>2, <3>1 DEF Truncated
  <2> QED
    BY <1>1, <2>3, EmptySeq
<1> DEFINE i == k + 1
           e == env[i]
           s == t[i + 1]
<1>5. e \in EnvEntry /\ i \in Nat /\ s \in Seq(Item) /\ t[i] = Pair(e, i, s)
  <2>1. i + 1 \in 1 .. Len(env) + 1 /\ i \in Nat
    BY <1>3, <1>4
  <2> QED
    BY <2>1, <1>2, <1>3, <1>4, ElementOfSeq DEF Chain
<1>6. i \in 1 .. Len(env) /\ Truncated(stream, t[i])
  BY <1>2, <1>4
<1>7. /\ ok => /\ entry = Received(e, i) /\ Truncated(va.rest, s)
               /\ va.rest \in Seq(Item) /\ stream = Pair(e, i, va.rest)
      /\ \A x \in Seq(Item) : stream = Pair(e, i, x) => ok
  <2>1. Truncated(stream, Pair(e, i, s))
    BY <1>5, <1>6
  <2> HIDE DEF e, i, s
  <2>2. /\ nl.ok /\ vl.ok /\ nm.ok /\ va.ok =>
                 /\ [name |-> nm.of, nameLen |-> nl.val, value |-> va.of, valueLen |-> vl.val]
                      = Received(e, i)
                 /\ Truncated(va.rest, s) /\ va.rest \in Seq(Item)
                 /\ stream = Pair(e, i, va.rest)
        /\ \A x \in Seq(Item) : stream = Pair(e, i, x) => nl.ok /\ vl.ok /\ nm.ok /\ va.ok
    <3> HIDE DEF nl, vl, nm, va
    <3>1. nl = ReadLength(stream) /\ vl = ReadLength(nl.rest)
          /\ nm = GetStr(vl.rest, nl.val) /\ va = GetStr(nm.rest, vl.val)
      BY DEF nl, vl, nm, va
    <3>2. ASSUME NEW x \in Seq(Item), stream = Pair(e, i, x)
          PROVE  nl.ok /\ vl.ok /\ nm.ok /\ va.ok
      <4>1. Truncated(stream, Pair(e, i, x))
        BY <3>2, <1>10, WholeIsTruncated
      <4> QED
        BY <3>1, <3>2, <4>1, <1>5, PairRead
    <3> QED
      BY <2>1, <3>1, <3>2, <1>5, PairRead
  <2> HIDE DEF nl, vl, nm, va
  <2> QED
    BY <2>2, <1>5
<1> HIDE DEF nl, vl, nm, va, ok, entry, e, s
<1>8. CASE ~ ok
  <2>1. ASSUME NEW j \in 0 .. Len(env)
        PROVE  arrived # Mark(marks, j)
    <3>1. \A x \in Seq(Item) : stream # Pair(env[k + 1], k + 1, x)
      BY <1>7, <1>8 DEF e
    <3>2. k \in 0 .. Len(env)
      BY <1>3
    <3> QED
      BY <1>1, <1>3, <1>10, <3>1, <3>2, EndsInside
  <2>2. result' = "-1" /\ params' = params
    BY <1>1, <1>8
  <2>5. \A j \in 0 .. Len(env') : arrived' # UpTo(j)'
    BY <1>1, <2>1 DEF UpTo, Mark
  <2>3. StreamInv'
    BY <1>1, <1>2, <1>10, <2>2, <2>5 DEF StreamInv
  <2>4. VectorInv'
    BY <1>1, <2>2 DEF VectorInv
  <2> QED
    BY <2>3, <2>4
<1>9. CASE ok
  <2>1. params' = PutParam(params, entry) /\ stream' = va.rest /\ result' = "reading"
    BY <1>1, <1>9
  <2>2. entry \in ParamEntry
    <3>1. Len(e.name) \in Nat /\ e.valueLen \in Nat
      BY <1>5, EntryLengths
    <3>2. Received(e, i) \in ParamEntry
      BY <3>1, <1>5 DEF Received, ParamEntry
    <3> QED
      BY <3>2, <1>7, <1>9
  <2> DEFINE vec == params.vec
             new == Append(vec, entry)
  <2>3. /\ new \in Seq(ParamEntry) /\ Len(new) = k + 1 /\ new[k + 1] = entry
        /\ \A j \in 1 .. k : new[j] = vec[j]
    BY <1>3, <2>2, AppendProperties
  <2>4. /\ params'.vec = new
        /\ params' = [vec |-> params'.vec, length |-> params'.length]
        /\ params'.length = IF Len(new) >= params.length THEN 2 * params.length ELSE params.length
    BY <2>1 DEF PutParam
  <2> HIDE DEF new
  <2>5. params.length \in Nat /\ k < params.length
    BY DEF VectorInv
  <2>6. Len(params'.vec) = k + 1
    BY <2>3, <2>4
  <2>7. params'.length \in Nat /\ k + 1 < params'.length
    <3> DEFINE l == Len(new)
               m == params.length
    <3>1. l = k + 1 /\ m \in Nat /\ k < m /\ params'.length = IF l >= m THEN 2 * m ELSE m
      BY <2>3, <2>4, <2>5
    <3> HIDE DEF l, m
    <3>2. (IF l >= m THEN 2 * m ELSE m) \in Nat /\ k + 1 < (IF l >= m THEN 2 * m ELSE m)
      BY <3>1, <1>3
    <3> QED
      BY <3>1, <3>2
  <2>8. ASSUME NEW j \in 1 .. k + 1 PROVE new[j] = Received(env[j], j)
    <3>1. CASE j = k + 1
      BY <3>1, <2>3, <1>7, <1>9 DEF e
    <3>2. CASE j \in 1 .. k
      BY <3>2, <2>3 DEF VectorInv
    <3>3. j = k + 1 \/ j \in 1 .. k
      BY <1>3
    <3> QED
      BY <3>1, <3>2, <3>3
  <2>9. VectorInv'
    <3>1. k + 1 <= Len(env)
      BY <1>4, <1>3
    <3>2. \A j \in 1 .. Len(params'.vec) : params'.vec[j] = Received(env'[j], j)
      BY <2>6, <2>4, <2>8, <1>1
    <3>3. params'.vec \in Seq(ParamEntry) /\ env' \in Seq(EnvEntry)
      BY <2>3, <2>4, <1>1, <1>3
    <3>4. Len(params'.vec) < params'.length /\ Len(params'.vec) <= Len(env')
      BY <2>6, <2>7, <3>1, <1>1
    <3> QED
      BY <3>2, <3>3, <3>4, <2>4, <2>7 DEF VectorInv
  <2>10. StreamInv'
    <3>1. Truncated(stream', t[Len(params'.vec) + 1])
      BY <2>1, <2>6, <1>7, <1>9 DEF s
    <3>2. stream' \in Seq(Item) /\ arrived' = Cat(Mark(marks', Len(params'.vec)), stream')
      <4> DEFINE x == va.rest
      <4>1. x \in Seq(Item) /\ stream = Pair(env[i], i, x) /\ stream' = x
        BY <1>7, <1>9, <2>1 DEF e
      <4> HIDE DEF x
      <4>2. Cat(Mark(marks, i - 1), Pair(env[i], i, x)) = Cat(Mark(marks, i), x)
        BY <4>1, <1>3, <1>6, <1>10, MarkReached
      <4>3. i - 1 = k /\ Len(params'.vec) = i
        BY <2>6, <1>3
      <4> QED
        BY <4>1, <4>2, <4>3, <1>1, <1>10
    <3>3. result' = "reading" /\ Chain(t, env') /\ Marked(marks', env')
      BY <2>1, <1>1, <1>2, <1>10
    <3> QED
      BY <3>1, <3>2, <3>3 DEF StreamInv
  <2> QED
    BY <2>9, <2>10
<1> QED
  BY <1>8, <1>9

LEMMA ReadEndsStep ==
    ASSUME VectorInv, StreamInv, ReadEnds
    PROVE  VectorInv' /\ StreamInv'
<1>1. /\ result = "reading" /\ stream = <<>> /\ result' = "0" /\ env' = env
      /\ stream' = stream /\ params' = params /\ marks' = marks /\ arrived' = arrived
  BY DEF ReadEnds
<1>2. PICK t : Chain(t, env)
  BY DEF StreamInv
<1>3. Marked(marks, env)
  BY DEF StreamInv
<1>4. Len(params.vec) \in 0 .. Len(env) /\ env \in Seq(EnvEntry)
  BY LenProperties DEF VectorInv
<1>5. arrived = UpTo(Len(params.vec))
  <2>1. arrived = Cat(Mark(marks, Len(params.vec)), <<>>)
    BY <1>1 DEF StreamInv
  <2>2. Mark(marks, Len(params.vec)) \in Seq(Item)
    BY <1>3, <1>4, MarkItems
  <2> QED
    BY <2>1, <2>2, CatEmpty DEF Mark, UpTo
<1>6. (arrived = UpTo(Len(params.vec)))'
  BY <1>1, <1>5 DEF UpTo
<1>7. StreamInv'
  BY <1>1, <1>2, <1>3, <1>6 DEF StreamInv
<1>8. VectorInv'
  BY <1>1 DEF VectorInv
<1> QED
  BY <1>7, <1>8

\* A name and the '=' behind it
WithEquals(w, b) == w = b \o <<"=">>

\* What FCGX_GetParam compares.
LEMMA NameFound ==
    ASSUME NEW a \in Names, NEW b \in Names, NEW w, WithEquals(w, b)
    PROVE  (Len(a) < Len(w) /\ SubSeq(w, 1, Len(a)) = a /\ w[Len(a) + 1] = "=") <=> a = b
<1> DEFINE la == Len(a)
           lb == Len(b)
           S == STRING \cup {"="}
<1>1. /\ a \in Seq(STRING \ {"="}) /\ b \in Seq(STRING \ {"="})
      /\ a \in Seq(S) /\ b \in Seq(S) /\ <<"=">> \in Seq(S) /\ Len(<<"=">>) = 1
  <2>1. a \in Seq(STRING \ {"="}) /\ b \in Seq(STRING \ {"="})
    BY NamesAssumption
  <2>2. STRING \ {"="} \subseteq S
    OBVIOUS
  <2>3. a \in Seq(S) /\ b \in Seq(S)
    BY <2>1, <2>2, SeqMonotonic
  <2>4. <<"=">> \in Seq(S) /\ Len(<<"=">>) = 1
    <3>1. ASSUME NEW T, NEW x \in T PROVE <<x>> \in Seq(T) /\ Len(<<x>>) = 1
      OBVIOUS
    <3>2. "=" \in S
      OBVIOUS
    <3> QED
      BY <3>1, <3>2
  <2> QED
    BY <2>1, <2>3, <2>4
<1>2. la \in Nat /\ lb \in Nat
  BY <1>1, LenProperties
<1>3. /\ w \in Seq(S) /\ Len(w) = lb + 1
      /\ \A i \in 1 .. lb + 1 : w[i] = IF i <= lb THEN b[i] ELSE <<"=">>[i - lb]
  BY <1>1, ConcatProperties DEF WithEquals
<1>4. /\ \A i \in 1 .. lb : w[i] = b[i] /\ b[i] # "="
      /\ w[lb + 1] = "="
  <2>1. ASSUME NEW i \in 1 .. lb PROVE w[i] = b[i] /\ b[i] # "="
    <3>1. b[i] \in STRING \ {"="}
      BY <1>1, ElementOfSeq
    <3> QED
      BY <3>1, <1>2, <1>3
  <2>2. w[lb + 1] = <<"=">>[1]
    BY <1>2, <1>3
  <2> QED
    BY <2>1, <2>2
<1> DEFINE r == SubSeq(w, 1, la)
<1>5. ASSUME la < lb + 1
      PROVE  /\ r \in Seq(S) /\ Len(r) = la
             /\ \A i \in 1 .. la : r[i] = w[i]
  <2>1. \A i \in 1 .. la : w[i] \in S
    <3>1. \A i \in 1 .. la : i \in 1 .. Len(w)
      BY <1>2, <1>3, <1>5
    <3> QED
      BY <3>1, <1>3, ElementOfSeq
  <2> HIDE DEF la
  <2>2. /\ r \in Seq(S) /\ Len(r) = IF 1 <= la THEN la - 1 + 1 ELSE 0
        /\ \A i \in 1 .. la - 1 + 1 : r[i] = w[1 + i - 1]
    BY <2>1, <1>2, SubSeqProperties
  <2> HIDE DEF r
  <2>3. Len(r) = la
    BY <2>2, <1>2
  <2>4. \A i \in 1 .. la : r[i] = w[i]
    BY <2>2, <1>2
  <2> QED
    BY <2>2, <2>3, <2>4
<1> HIDE DEF r
<1>6. ASSUME la < lb + 1, r = a, w[la + 1] = "="
      PROVE  a = b
  <2>1. la = lb
    <3> HIDE DEF la, lb
    <3>1. ~ (la + 1 \in 1 .. lb)
      BY <1>4, <1>6
    <3> QED
      BY <3>1, <1>2, <1>6
  <2>2. \A i \in 1 .. la : a[i] = b[i]
    BY <2>1, <1>4, <1>5, <1>6
  <2> QED
    BY <2>1, <2>2, <1>1, SeqEqual
<1>7. ASSUME a = b
      PROVE  la < lb + 1 /\ r = a /\ w[la + 1] = "="
  <2>1. la = lb
    BY <1>7
  <2>2. la < lb + 1 /\ w[la + 1] = "="
    BY <2>1, <1>2, <1>4
  <2>3. \A i \in 1 .. la : r[i] = a[i]
    BY <2>1, <2>2, <1>4, <1>5, <1>7
  <2> QED
    BY <2>2, <2>3, <1>1, <1>5, SeqEqual
<1>8. Len(a) < Len(w) <=> la < lb + 1
  BY <1>3
<1> QED
  BY <1>6, <1>7, <1>8 DEF r

\* FCGX_GetParam finds the first pair with the name.
LEMMA ParamFound ==
    ASSUME VectorInv, NEW name \in Names
    PROVE  LET i == FCGX_GetParam(name, params.vec)
               same == {k \in 1 .. Len(params.vec) : env[k].name = name}
           IN  IF same = {} THEN i = 0 ELSE i \in same /\ \A k \in same : i <= k
<1> DEFINE vec == params.vec
           same == {k \in 1 .. Len(vec) : env[k].name = name}
           found == {k \in 1 .. Len(vec) : Matches(name, vec[k])}
<1>1. ASSUME NEW k \in 1 .. Len(vec)
      PROVE  Matches(name, vec[k]) <=> env[k].name = name
  <2>1. vec[k] = Received(env[k], k)
    BY DEF VectorInv
  <2>2. k \in 1 .. Len(env) /\ env \in Seq(EnvEntry)
    BY LenProperties DEF VectorInv
  <2>3. env[k] \in EnvEntry
    BY <2>2, ElementOfSeq
  <2> DEFINE b == env[k].name
  <2>4. b \in Names
    BY <2>3 DEF EnvEntry
  <2>5. Entry(vec[k]) = b \o <<"=">>
    <3>1. CASE Len(b) = 0
      <4>1. b \in Seq(STRING \ {"="})
        BY <2>4, NamesAssumption
      <4>2. b = <<>>
        BY <4>1, <3>1, EmptySeq
      <4>3. vec[k].name = <<>>
        BY <2>1, <3>1 DEF Received
      <4> QED
        BY <4>2, <4>3 DEF Entry
    <3>2. CASE Len(b) # 0
      <4>1. vec[k].name = <<"name", k>>
        BY <2>1, <3>2 DEF Received
      <4>2. vec[k].name # <<>> /\ vec[k].name[2] = k
        BY <4>1
      <4> QED
        BY <4>2 DEF Entry
    <3> QED
      BY <3>1, <3>2
  <2> DEFINE w == Entry(vec[k])
  <2>6. Matches(name, vec[k])
          <=> (Len(name) < Len(w) /\ SubSeq(w, 1, Len(name)) = name /\ w[Len(name) + 1] = "=")
    BY DEF Matches
  <2> HIDE DEF w
  <2>7. WithEquals(w, b)
    BY <2>5 DEF w, WithEquals
  <2> QED
    BY <2>4, <2>6, <2>7, NameFound
<1>2. found = same
  BY <1>1
<1>3. FCGX_GetParam(name, vec)
        = IF found = {} THEN 0 ELSE CHOOSE i \in found : \A j \in found : i <= j
  BY DEF FCGX_GetParam
<1>4. ASSUME same # {} PROVE \E i \in same : \A j \in same : i <= j
  <2>1. same \subseteq Nat
    OBVIOUS
  <2> QED
    BY <2>1, <1>4, LeastElement
<1> HIDE DEF found, same
<1>5. IF same = {} THEN FCGX_GetParam(name, vec) = 0
      ELSE /\ FCGX_GetParam(name, vec) \in same
           /\ \A k \in same : FCGX_GetParam(name, vec) <= k
  BY <1>2, <1>3, <1>4
<1> QED
  BY <1>5 DEF same

(***************************************************************************)
(* Every environment, with names and values of any length below 2^31 - 1,  *)
(* arrives: the entries that ReadParams has made are the first pairs of    *)
(* cgi-fcgi; it succeeds only with all the pairs of a stream that ended    *)
(* behind a pair, and fails only on a stream that ended inside one; the    *)
(* vector of any initial length grows in time for the NULL                 *)
(* (fcgiapp.c:1107), and FCGX_GetParam returns the first pair of exactly   *)
(* that name.                                                              *)
(***************************************************************************)
THEOREM EnvironmentAlwaysArrives == ParamsSpec => []EnvironmentArrives
<1>1. ParamsInit => VectorInv /\ StreamInv
  BY ParamsInitial
<1>2. ASSUME VectorInv, StreamInv, [ParamsNext]_paramsVars
      PROVE  VectorInv' /\ StreamInv'
  <2>1. CASE UNCHANGED paramsVars
    BY <1>2, <2>1 DEF paramsVars, VectorInv, StreamInv, UpTo, Mark
  <2> QED
    BY <1>2, <2>1, WritePairStep, EndStreamStep, ReadPairStep, ReadEndsStep DEF ParamsNext
<1>3. ASSUME VectorInv, StreamInv
      PROVE  EnvironmentArrives
  <2>1. ASSUME NEW i \in 1 .. Len(params.vec)
        PROVE  LET e == params.vec[i]
               IN  /\ e.nameLen = Len(env[i].name) /\ (e.nameLen > 0 => e.name = <<"name", i>>)
                   /\ e.valueLen = env[i].valueLen /\ (e.valueLen > 0 => e.value = <<"value", i>>)
    <3>1. params.vec[i] = Received(env[i], i)
      BY <1>3 DEF VectorInv
    <3> QED
      BY <3>1 DEF Received
  <2>2. Len(params.vec) < params.length /\ Len(params.vec) <= Len(env)
    BY <1>3 DEF VectorInv
  <2>3. /\ result = "0" => arrived = UpTo(Len(params.vec))
        /\ result = "-1" => \A k \in 0 .. Len(env) : arrived # UpTo(k)
    BY <1>3 DEF StreamInv
  <2>4. \A name \in Names :
          LET i == FCGX_GetParam(name, params.vec)
              same == {k \in 1 .. Len(params.vec) : env[k].name = name}
          IN  IF same = {} THEN i = 0 ELSE i \in same /\ \A k \in same : i <= k
    BY <1>3, ParamFound
  <2> QED
    BY <2>1, <2>2, <2>3, <2>4 DEF EnvironmentArrives
<1> QED
  BY <1>1, <1>2, <1>3, PTL DEF ParamsSpec
=============================================================================
