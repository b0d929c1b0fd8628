---------------------------- MODULE MCLineReader ----------------------------
(***************************************************************************)
(* Calls of getLine() with no limit, a limit of nothing, and a short one,  *)
(* as the clients, the benchmark server and the dealer make them.          *)
(***************************************************************************)
EXTENDS LineReader

ThreeLimits == {-1, 0, 1}
=============================================================================
