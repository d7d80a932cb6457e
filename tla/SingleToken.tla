---------------------------- MODULE SingleToken ----------------------------
(***************************************************************************)
(* What the ring promises to those who use its token, whatever goroutines, *)
(* timers and elections there are: at most one server has a token, it goes *)
(* from each live server to the next live one, it may get lost, and only   *)
(* then the live server of the highest priority makes a new one.           *)
(* TokenRing implements it as long as its faults are mild; Packs takes the *)
(* ring to be like this, with all servers live.                             *)
(***************************************************************************)
EXTENDS Integers

CONSTANT N    \* the number of servers

VARIABLES
  live,   \* the servers that run
  at      \* the server that has the token, as a set of at most one

vars == <<live, at>>

Servers == 0 .. N - 1

\* How many links of the ring lead from i to j; all of them if they are the same.
Hops(i, j) == IF i < j THEN j - i ELSE j - i + N

IsNextLive(i, j) == j \in live /\ \A k \in live : Hops(i, j) <= Hops(i, k)

IsFirstLive(i) == i \in live /\ \A k \in live : i <= k

Init == live = Servers /\ at = {}

Regenerate(i) ==
  /\ at = {} /\ IsFirstLive(i)
  /\ at' = {i}
  /\ UNCHANGED live

Pass(i, j) ==
  /\ at = {i} /\ IsNextLive(i, j)
  /\ at' = {j}
  /\ UNCHANGED live

Lose == at # {} /\ at' = {} /\ UNCHANGED live

\* A server stops, and the token stops with it if it is there.
Stop(i) ==
  /\ i \in live
  /\ live' = live \ {i}
  /\ at' = at \ {i}

Next == (\E i \in Servers : Regenerate(i) \/ Stop(i) \/ \E j \in Servers : Pass(i, j)) \/ Lose

Spec == Init /\ [][Next]_vars
=============================================================================
