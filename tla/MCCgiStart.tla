----------------------------- MODULE MCCgiStart -----------------------------
(* Instances of CgiStart for TLC. *)
EXTENDS CgiStart

\* The commands of the manual page, a second server, an application that is
\* not executable, a command file, and what ParseArgs refuses.
Commands ==
    {<<"-connect", "path", "app", "2">>, <<"-bind", "-connect", "path">>,
     <<"-start", "-supervise", "-connect", "path", "app">>,
     <<"-start", "-connect", "path", "data">>}
CommandFiles == [x \in {"file"} |-> <<"-connect", "path", "app">>]
Variants ==
    {<<"-start", "-connect", "path", "app">>, <<"-bind", "-f", "file">>, <<"-f", "other">>,
     <<"-connect", "far", "app">>, <<"-start", "-connect", "far", "app">>,
     <<"-start", "-bind", "-connect", "path">>,
     <<"-connect", "path", "app", "0">>, <<"-connect", "overlong", "overlong">>,
     <<"-connect", "path", "2", "-other", "1">>, <<"-start", "app", "-connect">>}
AllCommands == Commands \cup Variants

StartCommand == {<<"-start", "-connect", "path", "app", "2">>}
=============================================================================
