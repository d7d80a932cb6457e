------------------------------ MODULE MCMatch ------------------------------
(***************************************************************************)
(* Instances of Match for TLC, with a real card of cards.json.             *)
(***************************************************************************)
EXTENDS Match

CONSTANT c1

Fire == [element |-> "FIRE", atk |-> 8, def |-> 5]

\* The smallest database: a full round costs both players the same.
OneCard == c1 :> Fire

\* A round or two are still played after the end.
Overtime == -1
=============================================================================
