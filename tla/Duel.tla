-------------------------------- MODULE Duel --------------------------------
(***************************************************************************)
(* One duel as its rules have it, with nothing about servers: both players *)
(* lay a card, a round is resolved when both have, each with the other's   *)
(* card, and when somebody is out of HP no card is laid any more and the   *)
(* players are told the one result.  An undisturbed DistMatch implements it. *)
(***************************************************************************)
EXTENDS Rules

CONSTANT HPStart

VARIABLES
  hp,     \* the HP of each player
  laid,   \* the card a player has laid in this round, or NoCard
  told    \* the results each player has been told

vars == <<hp, laid, told>>

Init ==
  /\ hp = [p \in Players |-> HPStart]
  /\ laid = [p \in Players |-> NoCard]
  /\ told = [p \in Players |-> {}]

Lay(p, c) ==
  /\ ~GameOver(hp) /\ laid[p] = NoCard
  /\ laid' = [laid EXCEPT ![p] = c]
  /\ UNCHANGED <<hp, told>>

\* Some of the players, or none, hear of the result; nobody does before the end.
Tell(players) ==
  told' = [p \in Players |-> IF p \in players /\ GameOver(hp') THEN {Result(hp', p)} ELSE told[p]]

Round ==
  /\ BothPlayed(laid)
  /\ hp' = [p \in Players |-> hp[p] - DamageDealt(laid[Other(p)], laid[p])]
  /\ laid' = [p \in Players |-> NoCard]
  /\ \E players \in SUBSET Players : Tell(players)

Hear(p) == Tell({p}) /\ UNCHANGED <<hp, laid>>

Next ==
  \/ \E p \in Players, c \in CardIds : Lay(p, c)
  \/ Round
  \/ \E p \in Players : Hear(p)

Spec == Init /\ [][Next]_vars
=============================================================================
