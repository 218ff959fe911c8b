-------------------------------- MODULE MCCgi -------------------------------
(* Instances of CgiFcgi for TLC. *)
EXTENDS CgiFcgi

\* n bytes of content, numbered from k.
Content(kind, k, n) == [i \in 1 .. n |-> <<kind, k + i>>]

Pad(n) == [i \in 1 .. n |-> <<"pad", i>>]

Out(k, n, p) == MakeHeader("stdout", requestId, n, p) \o Content("out", k, n) \o Pad(p)
Err(k, n, p) == MakeHeader("stderr", requestId, n, p) \o Content("err", k, n) \o Pad(p)
End(high, low, status, p) ==
    MakeHeader("end", requestId, BodyLen, p) \o EndRequestBody(high, low, status) \o Pad(p)

\* Padded content and an empty record; a request that is refused, with a
\* message; a record of another request; an unknown record.
MCAnswers ==
    { Out(0, 2, 1) \o Err(0, 0, 0) \o End(1, 2, 0, 0),
      Err(0, 1, 0) \o End(0, 0, 3, 0),
      MakeHeader("stdout", requestId + 1, 1, 0) \o Content("out", 0, 1) \o End(0, 0, 0, 0),
      MakeHeader("other", requestId, 1, 0) \o Content("x", 0, 1) \o End(0, 0, 0, 0) }

\* The theorems about the answer are about such answers.
ASSUME AnswersWellFormed == \A s \in MCAnswers : WellFormed(s)
=============================================================================
