------------------------------ MODULE MCWriter ------------------------------
(* Instances of FcgxResponse for TLC. *)
EXTENDS FcgxResponse, TLC

MCBuffLen == "out" :> 40 @@ "err" :> 24
BrokenRooms == {0, 5, 20, 44, 60, 81, Plenty}
=============================================================================
