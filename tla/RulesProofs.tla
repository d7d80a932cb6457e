---------------------------- MODULE RulesProofs ----------------------------
(***************************************************************************)
(* What the proofs about a match of one server and about one between        *)
(* servers need to know of the rules, for every card database.               *)
(***************************************************************************)
EXTENDS Rules, TLAPS

\* Damage is never negative.
LEMMA DamageTyped ==
  ASSUME NEW c, NEW d
  PROVE  DamageDealt(c, d) \in Nat
<1>1. \A x : GetCard(x).atk \in Nat /\ GetCard(x).def \in Nat
  BY CardDBAssumption DEF GetCard
<1>2. \A a, b : ElementalBonus(a, b) \in Nat
  BY DEF ElementalBonus, ElementalATKBonus
<1> DEFINE hit == GetCard(c).atk + ElementalBonus(GetCard(c).element, GetCard(d).element)
                                 - GetCard(d).def
<1>3. hit \in Int
  BY <1>1, <1>2
<1> HIDE DEF hit
<1>4. QED  BY <1>3 DEF DamageDealt, hit

\* There are two players.
LEMMA Opponents ==
  ASSUME NEW p \in Players
  PROVE  /\ Other(p) \in Players /\ Other(p) # p /\ Other(Other(p)) = p
         /\ \A q \in Players : q = p \/ q = Other(p)
BY DEF Players, Other

\* Who has won has an opponent who has lost, and a draw is one for both.
LEMMA ResultsMatch ==
  ASSUME NEW h \in [Players -> Int], GameOver(h), NEW p \in Players
  PROVE  /\ Result(h, p) = "WIN" => Result(h, Other(p)) = "LOSE"
         /\ Result(h, p) = "DRAW" => Result(h, Other(p)) = "DRAW"
<1>1. \E q \in {p, Other(p)} : h[q] <= 0
  BY Opponents DEF GameOver
<1>2. QED  BY <1>1, Opponents DEF Result

LEMMA ResultTyped == \A h, p : Result(h, p) \in Results
BY DEF Result, Results
=============================================================================
