------------------------------ MODULE MCAccept ------------------------------
(* Instances of OsAccept for TLC. *)
EXTENDS OsAccept, TLC

\* Two single-threaded processes.
TwoProcs == "a" :> "p" @@ "b" :> "q"

\* Two threads of one process.
TwoThreads == "a" :> "p" @@ "b" :> "p"

\* Two threads of one process, and another process.
ThreadsAndProc == TwoThreads @@ "c" :> "q"

AllKinds == "c1" :> "unix" @@ "c2" :> "denied" @@ "c3" :> "inet"
Inet == "c1" :> "inet" @@ "c2" :> "denied"
Unix == "c1" :> "unix" @@ "c2" :> "unix"
=============================================================================
