------------------------------- MODULE Rules -------------------------------
(***************************************************************************)
(* The rules of a round of the card duel: what a card deals to another, and *)
(* what the HP left say about the end and the result.  Used by a match of   *)
(* one server (Match) and by the two replicas of one between servers        *)
(* (DistMatch).                                                             *)
(***************************************************************************)
EXTENDS Integers

CONSTANTS
  CardDB,        \* the card database: a function from card ids to their data
  NoCard         \* the card id "", which GetCard answers with the zero Card

Elements == {"FIRE", "WATER", "PLANT"}
CardIds  == DOMAIN CardDB

ASSUME CardDBAssumption ==
  /\ CardDB \in [CardIds -> [element : Elements, atk : Nat, def : Nat]]
  /\ CardIds # {}
ASSUME NoCardAssumption == NoCard \notin CardIds

Players  == {1, 2}
Other(p) == 3 - p
Results  == {"WIN", "LOSE", "DRAW"}

ElementalATKBonus == 3

ElementalBonus(a, b) ==
  IF <<a, b>> \in {<<"FIRE", "PLANT">>, <<"PLANT", "WATER">>, <<"WATER", "FIRE">>}
    THEN ElementalATKBonus ELSE 0

\* GetCard: an unknown id gives the zero Card.
GetCard(c) ==
  IF c \in CardIds THEN CardDB[c] ELSE [element |-> "", atk |-> 0, def |-> 0]

\* Slip: the max with 0 is dropped, so a weak card heals the opponent.
DamageUnclamped(c, d) ==
  GetCard(c).atk + ElementalBonus(GetCard(c).element, GetCard(d).element) - GetCard(d).def

\* What card c deals to the player who laid card d.
DamageDealt(c, d) ==
  LET hit == GetCard(c).atk + ElementalBonus(GetCard(c).element, GetCard(d).element)
                            - GetCard(d).def
  IN  IF hit > 0 THEN hit ELSE 0

BothPlayed(w) == \A p \in Players : w[p] # NoCard

GameOver(h) == \E p \in Players : h[p] <= 0

\* Slip: the case of a draw is dropped.
ResultWithoutDraw(h, p) == IF h[Other(p)] <= 0 THEN "WIN" ELSE "LOSE"

Result(h, p) ==
  IF h[p] <= 0 THEN IF h[Other(p)] <= 0 THEN "DRAW" ELSE "LOSE" ELSE "WIN"
=============================================================================
