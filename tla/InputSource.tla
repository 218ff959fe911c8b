---------------------------- MODULE InputSource -----------------------------
(***************************************************************************)
(* What a reader of a request's input relies on, whether it calls FCGX     *)
(* functions or reads through a C++ stream, and however the input is       *)
(* buffered on the way: every byte is returned once and in order, fewer    *)
(* bytes than asked for mean the end, and what was just read can be pushed *)
(* back.                                                                   *)
(***************************************************************************)
EXTENDS Integers, Sequences

CONSTANT Source       \* the bytes of the input

VARIABLES
    left,     \* bytes that will still be returned
    broken,   \* the input ended before its end
    last      \* what the last call returned, and whether it was a full read

vars == <<left, broken, last>>

Prefix(s, n) == SubSeq(s, 1, IF n < Len(s) THEN n ELSE Len(s))
Rest(s, n) == SubSeq(s, n + 1, Len(s))

NoRead == [full |-> FALSE, got |-> <<"none">>]     \* the last call was no read

\* What there is to read, given whether the input breaks off in this step.
Available(breaks) == IF breaks THEN {Prefix(left, k) : k \in 0 .. Len(left)} ELSE {left}
BreaksNow == broken' /\ ~broken

Init == left = Source /\ broken = FALSE /\ last = NoRead

Read(n) ==
    /\ broken => broken'
    /\ \E a \in Available(BreaksNow) :
          /\ last' = [full |-> Len(a) >= n, got |-> Prefix(a, n)]
          /\ left' = Rest(a, n)

\* One byte is looked at.
Peek ==
    /\ broken => broken'
    /\ \E a \in Available(BreaksNow) :
          /\ last' = [full |-> FALSE, got |-> Prefix(a, 1)]
          /\ left' = a

Pushback(c) ==
    /\ left' = <<c>> \o left
    /\ last' = [full |-> FALSE, got |-> <<c>>]
    /\ UNCHANGED broken

\* A pushback is refused only if the call before was not a successful read.
Refuse ==
    /\ ~last.full
    /\ last' = [full |-> FALSE, got |-> <<>>]
    /\ UNCHANGED <<left, broken>>

\* A call that reads nothing, or the change to another request's input
Other == last' = NoRead /\ UNCHANGED <<left, broken>>
NewInput == left' = Source /\ broken' = FALSE /\ last' = NoRead

Next ==
    \/ \E n \in 1 .. Len(Source) + 1 : Read(n)
    \/ Peek \/ Refuse \/ Other \/ NewInput
    \/ \E i \in 1 .. Len(Source) : Pushback(Source[i])

Spec == Init /\ [][Next]_vars
=============================================================================
