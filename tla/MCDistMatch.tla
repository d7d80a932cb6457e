---------------------------- MODULE MCDistMatch ----------------------------
(***************************************************************************)
(* Instances of DistMatch for TLC, with two real cards of cards.json.       *)
(***************************************************************************)
EXTENDS DistMatch, TLC

CONSTANTS c1, c2

Fire  == [element |-> "FIRE", atk |-> 8, def |-> 5]
Water == [element |-> "WATER", atk |-> 9, def |-> 3]

\* Every pair of these cards hurts both players: Fire against Fire by 3 each, Water
\* against Water by 6 each, and else Fire by 7 and Water by 5.  From HP 8 two rounds end a
\* match unless both are Fire against Fire, and from HP 12 two or three do, with the same
\* exception; a match that goes on is cut off by the bound on plays.
TwoCards == (c1 :> Fire) @@ (c2 :> Water)

\* Nobody, or the guest, plays automatically.
GuestMayAutoplay == {{}, {2}}

\* Nobody does.
NoAutoplay == {{}}
=============================================================================
