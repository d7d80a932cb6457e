------------------------------ MODULE MCPacks ------------------------------
(***************************************************************************)
(* Instances of Packs for TLC: three requests to two servers, and a pool   *)
(* that a pack and a match, or two packs, use up.                           *)
(***************************************************************************)
EXTENDS Packs

CONSTANTS r1, r2, r3

ThreeRequests == {r1, r2, r3}
TwoAtLeader == (r1 :> 0) @@ (r2 :> 0) @@ (r3 :> 1)
=============================================================================
