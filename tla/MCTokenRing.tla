---------------------------- MODULE MCTokenRing ----------------------------
(***************************************************************************)
(* Instances of TokenRing for TLC: the three servers of docker-compose.yml *)
(* under different fault budgets.                                           *)
(***************************************************************************)
EXTENDS TokenRing

NoFaults == [k \in FaultKinds |-> 0]

\* One server stops for good and one token POST is lost.
OneCrash == [NoFaults EXCEPT !["crash"] = 1, !["lost"] = 1]

\* One POST is delivered although its sender sees a timeout.
OneLate == [NoFaults EXCEPT !["late"] = 1]

\* A server stops and comes back, a delivered POST times out, and cards.json is unreadable
\* once.
Survivable == [NoFaults EXCEPT !["crash"] = 1, !["restart"] = 1, !["late"] = 1, !["cards"] = 1]

\* Two servers stop and one of them comes back.
CrashAndReturn == [NoFaults EXCEPT !["crash"] = 2, !["restart"] = 1]
=============================================================================
