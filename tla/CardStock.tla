----------------------------- MODULE CardStock -----------------------------
(***************************************************************************)
(* What the packs promise, whatever servers and tokens there are: whoever  *)
(* asked for a pack gets at most one answer, a full pack of copies that    *)
(* nobody has got before, and the players of a match are dealt such copies *)
(* too.  Packs implements it.                                               *)
(***************************************************************************)
EXTENDS Integers, FiniteSets

CONSTANTS
  Requests,    \* the pack requests of the clients
  PackSize,    \* the cards of a pack
  HandSize     \* the cards of a player in a match

VARIABLES
  asked,    \* the requests that have been made
  answer,   \* the copies each request was answered with, {} before that
  issued    \* the copies in anybody's hands

vars == <<asked, answer, issued>>

Init ==
  /\ asked = {}
  /\ answer = [r \in Requests |-> {}]
  /\ issued = {}

Ask(r) ==
  /\ r \notin asked /\ asked' = asked \cup {r}
  /\ UNCHANGED <<answer, issued>>

\* A set of n copies is handed out for the first time.
Issue(copies, n) ==
  /\ copies \cap issued = {} /\ Cardinality(copies) = n
  /\ issued' = issued \cup copies

Answer(r) ==
  /\ r \in asked /\ answer[r] = {}
  /\ Issue(answer'[r], PackSize)
  /\ answer' = [answer EXCEPT ![r] = answer'[r]]
  /\ UNCHANGED asked

\* One player of a match, or both at once.
Deal ==
  /\ \E players \in {1, 2} : Issue(issued' \ issued, players * HandSize)
  /\ UNCHANGED <<asked, answer>>

Next == (\E r \in Requests : Ask(r) \/ Answer(r)) \/ Deal

Spec == Init /\ [][Next]_vars
=============================================================================
