---------------------------- MODULE MCVideoPath ----------------------------
(* Every capture method, for VideoPath.  Bound: with the caller's pictures a behaviour is    *)
(* followed up to the first race lost; what Fairness says then rules out that it ends there. *)
EXTENDS VideoPath

AllMethods == {"two", "game", "hisense", "lenovo"}

Followed == method = "game" => ~raced
MCNext == (Followed /\ Next) \/ (~Followed /\ UNCHANGED vars)
MCSpec == Init /\ [][MCNext]_vars /\ Fairness
=============================================================================
