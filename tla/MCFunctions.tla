----------------------------- MODULE MCFunctions ----------------------------
(***************************************************************************)
(* Instances for TLC of the functions that applications call on streams    *)
(* and parameters: FcgiStreambuf, FcgxPrintf and FcgxParams, one at a time. *)
(***************************************************************************)
EXTENDS FcgiStreambuf, FcgxPrintf, FcgxParams

VARIABLE part
mcVars == <<vars, printf, paramsVars, part>>

TwoLines == <<"a", NL, "b", "c">>

\* Names of which one is the beginning of another, and a long one
ShortNames == {<<>>, <<"a">>, <<"a", "b">>, [i \in 1 .. 128 |-> "a"]}

Star(v) == [how |-> "star", val |-> v]
Dec(v) == [how |-> "digits", val |-> v]
Conversion(op, size, flags, width, prec, arg) ==
    [op |-> op, size |-> size, flags |-> flags, width |-> width, prec |-> prec, arg |-> arg]
All(ops, sizes, widths, precs, args) ==
    {Conversion(op, size, 1, w, p, arg) : op \in ops, size \in sizes,
        w \in widths, p \in precs, arg \in args}

\* Fields on both sides of the first buffer's 100 bytes, also by a negative '*'
Widths == {None, Dec(99), Dec(100), Dec(150), Star(-100)}
Precisions == {None, Dec(0), Dec(88), Star(91)}

\* Integers of up to 22 digits, strings, numbers up to the largest double, long
\* doubles, and conversions that are refused or end in an error
EdgeConversions ==
    All({"d"}, {" "}, Widths, Precisions, {1, 22})
    \cup All({"c", "p"}, {" "}, Widths, Precisions, {1})
    \cup All({"s"}, {" "}, Widths, Precisions, {0, 85, 90, 300})
    \cup All({"f"}, {" ", "L"}, Widths, Precisions, {-1000, 282, 1024})
    \cup All({"e"}, {" "}, Widths, Precisions, {282})
    \cup All({"d", "c", "s", "p", "f", "e", "n", "%", "y"}, {" ", "h", "l", "L"},
             {Dec(5)}, {Star(-1)}, {1})
    \cup {Conversion(op, size, 0, None, None, 120) :
             op \in {"c", "s", "p", "f", "e", "n", "%", "y"}, size \in {" ", "h", "l", "L"}}
    \cup {Conversion("d", "L", 0, None, None, 20),
          Conversion("d", " ", 6, None, None, 1), Conversion("d", " ", 0, Dec(1000000), None, 1),
          Conversion("s", " ", 0, None, Star(1000000), 1), Conversion("u", "L", 1, None, Dec(500), 1),
          Conversion("f", " ", 1, Dec(99), Dec(500), 1024),
          Conversion("f", "L", 1, None, Dec(0), 16384),
          Conversion("e", "L", 1, Star(-150), None, 16384)}

MCInit ==
    /\ part \in {"streams", "printf", "params"}
    /\ Init /\ PrintfInit /\ ParamsInit
    /\ part # "streams" => user = "fcgx"

MCNext ==
    \/ part = "streams" /\ Next /\ UNCHANGED <<printf, paramsVars, part>>
    \/ part = "printf" /\ PrintfNext /\ UNCHANGED <<vars, paramsVars, part>>
    \/ part = "params" /\ ParamsNext /\ UNCHANGED <<vars, printf, part>>

MCSpec == MCInit /\ [][MCNext]_mcVars
=============================================================================
