--------------------------- MODULE MCMatchmaking ---------------------------
(***************************************************************************)
(* Instances of Matchmaking for TLC: two servers, two players at the first *)
(* and one at the second, so that matches of both kinds are made.          *)
(***************************************************************************)
EXTENDS Matchmaking

CONSTANTS a, b, c

ThreePlayers == {a, b, c}
TwoAtFirst == (a :> 0) @@ (b :> 0) @@ (c :> 1)
=============================================================================
