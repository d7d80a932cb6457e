----------------------------- MODULE DistMatch -----------------------------
(***************************************************************************)
(* A distributed match: the host's and the guest's server hold a replica   *)
(* each.  A play is made on the replica of the player's own server, and a  *)
(* goroutine started for it forwards it to the other one by HTTP, where    *)
(* handleMatchAction makes it again.  Nothing orders these goroutines and  *)
(* calls, and each replica resolves its rounds by itself.                  *)
(*                                                                         *)
(* A server is named after its player: 1 is the host, 2 the guest.  Hands  *)
(* are left out: each replica draws its own, and a play names any card.    *)
(* A player leaves in one step; what the parts of the cleanup race with on *)
(* one server is the subject of Match.                                     *)
(***************************************************************************)
EXTENDS Rules, FiniteSets

CONSTANTS
  HPStart,
  Patient,      \* players wait until the previous round is over on both servers
  Autoplayers,  \* the sets of players who may have turned auto-play on
  MaxPlays,     \* bound: how many cards a player lays
  MaxLost,      \* bound: how many POSTs to /matches/{id}/action fail
  MaxLeaves     \* bound: how many players leave

Host    == 1
Guest   == 2
Servers == Players

ASSUME HPAssumption == HPStart \in Nat \ {0}
ASSUME PatientAssumption == Patient \in BOOLEAN
ASSUME AutoplayersAssumption == Autoplayers \subseteq SUBSET Players
ASSUME BoundsAssumption == MaxPlays \in Nat /\ MaxLost \in Nat /\ MaxLeaves \in Nat

VARIABLES
  hp, waiting, state,  \* HP, Waiting and State of each replica
  rounds,     \* Round of each replica, less one
  resolvers,  \* how many resolveRound goroutines wait for the lock of each
  timers,     \* how many scheduleAutoPlay goroutines of each sleep
  life,       \* whether a replica is in ActiveMatches and DistributedMatches
  lookup,     \* the card for which each dispatcher has found the replica
  forwards,   \* the plays on their way to the other server
  applied,    \* history: how often PlayCard was called on a replica for a player
  missed,     \* history: a play was lost, refused or not forwarded
  autoplay, online,
  results,    \* the results each player was told
  lost, leaves

replicas == <<hp, waiting, state, rounds, resolvers, timers>>
clients  == <<autoplay, online, results, leaves>>
vars     == <<replicas, life, lookup, forwards, applied, missed, clients, lost>>

\* The n-th play of a player, on server at, where it has come to some stage.
Forwards == [at : Servers, player : Players, n : 1 .. MaxPlays, card : CardIds,
             stage : {"spawned", "posted", "found"}]

TypeOK ==
  /\ hp \in [Servers -> [Players -> Int]]
  /\ waiting \in [Servers -> [Players -> CardIds \cup {NoCard}]]
  /\ state \in [Servers -> {"AWAITING_PLAYS", "ENDED"}]
  /\ rounds \in [Servers -> Nat] /\ resolvers \in [Servers -> Nat] /\ timers \in [Servers -> Nat]
  /\ life \in [Servers -> {"none", "active", "gone"}]
  /\ lookup \in [Servers -> CardIds \cup {NoCard}]
  /\ forwards \subseteq Forwards
  /\ applied \in [Servers -> [Players -> Nat]]
  /\ missed \in BOOLEAN
  /\ autoplay \in SUBSET Players /\ online \in SUBSET Players
  /\ results \in [Players -> SUBSET Results]
  /\ lost \in 0 .. MaxLost /\ leaves \in 0 .. MaxLeaves

----------------------------------------------------------------------------
(* A play on the player's own server.                                      *)

\* The host's replica is made after the guest's, when the guest has agreed.
CreateDistributedMatchAsHost ==
  /\ life[Host] = "none"
  /\ life' = [life EXCEPT ![Host] = IF Host \in online THEN "active" ELSE "gone"]
  /\ UNCHANGED <<replicas, lookup, forwards, applied, missed, clients, lost>>

\* An assumption about players, no code: p plays when the match goes on and nothing of an
\* earlier round than p's next one is still under way, on either server.
RoundIsOver(p) ==
  /\ state[p] = "AWAITING_PLAYS" /\ waiting[p][p] = NoCard
  /\ \A s \in Servers : resolvers[s] = 0
  /\ \A m \in forwards : m.n > applied[p][p]

\* handlePlay: FindPlayerMatch.
FindPlayerMatch(p, c) ==
  /\ life[p] = "active" /\ p \in online /\ lookup[p] = NoCard
  /\ applied[p][p] < MaxPlays /\ (Patient => RoundIsOver(p))
  /\ lookup' = [lookup EXCEPT ![p] = c]
  /\ UNCHANGED <<replicas, life, forwards, applied, missed, clients, lost>>

\* Slip: PlayCard does not look whether the round is complete.
LayWithoutResolving(s, p, c) ==
  /\ waiting' = [waiting EXCEPT ![s][p] = c]
  /\ applied' = [applied EXCEPT ![s][p] = @ + 1]
  /\ UNCHANGED resolvers

\* PlayCard, for the card of player p on server s.
LayCard(s, p, c) ==
  /\ waiting' = [waiting EXCEPT ![s][p] = c]
  /\ applied' = [applied EXCEPT ![s][p] = @ + 1]
  /\ resolvers' = [resolvers EXCEPT ![s] = IF BothPlayed(waiting'[s]) THEN @ + 1 ELSE @]

PlayCard(p) ==
  /\ lookup[p] # NoCard
  /\ LayCard(p, p, lookup[p])
  /\ forwards' = forwards \cup {[at |-> p, player |-> p, n |-> applied'[p][p],
                                 card |-> lookup[p], stage |-> "spawned"]}
  /\ lookup' = [lookup EXCEPT ![p] = NoCard]
  /\ UNCHANGED <<hp, state, rounds, timers, life, missed, clients, lost>>

----------------------------------------------------------------------------
(* The way of a play to the other server.                                  *)

\* Slip: plays that came from the other server are forwarded as well.
IsForwardedAlways(m) == life[m.at] = "active"

\* The conditions of forwardPlayIfNeeded: the match is still known to be distributed, and
\* the player is one of this server.
IsForwarded(m) == life[m.at] = "active" /\ m.at = m.player /\ m.player \in online

ForwardPlay(m) ==
  /\ m.stage = "spawned" /\ IsForwarded(m)
  /\ forwards' = (forwards \ {m}) \cup {[m EXCEPT !.stage = "posted"]}
  /\ UNCHANGED <<replicas, life, lookup, applied, missed, clients, lost>>

NotForwarded(m) ==
  /\ m.stage = "spawned" /\ ~IsForwarded(m)
  /\ forwards' = forwards \ {m}
  /\ missed' = (missed \/ m.at = m.player)
  /\ UNCHANGED <<replicas, life, lookup, applied, clients, lost>>

\* The POST of ForwardAction fails; nobody looks at the error.
ForwardFails(m) ==
  /\ m.stage = "posted" /\ lost < MaxLost
  /\ forwards' = forwards \ {m}
  /\ missed' = TRUE
  /\ lost' = lost + 1
  /\ UNCHANGED <<replicas, life, lookup, applied, clients>>

\* handleMatchAction looks for the match of that id.
FindMatchByID(m) ==
  /\ m.stage = "posted"
  /\ IF life[Other(m.player)] = "active"
       THEN /\ forwards' = (forwards \ {m}) \cup {[m EXCEPT !.stage = "found"]}
            /\ UNCHANGED missed
       ELSE forwards' = forwards \ {m} /\ missed' = TRUE
  /\ UNCHANGED <<replicas, life, lookup, applied, clients, lost>>

\* PlayCard again, which starts a goroutine to forward the play from here.
PlayForwardedCard(m) ==
  /\ m.stage = "found"
  /\ LayCard(Other(m.player), m.player, m.card)
  /\ forwards' = (forwards \ {m}) \cup {[m EXCEPT !.at = Other(m.player), !.stage = "spawned"]}
  /\ UNCHANGED <<hp, state, rounds, timers, life, lookup, missed, clients, lost>>

----------------------------------------------------------------------------
(* The goroutines of a replica.                                            *)

\* Slip: each replica takes the player of its own server for P1.
HurtLocalFirst(s) ==
  [p \in Players |-> hp[s][p] - DamageDealt(waiting[s][Other(s)], waiting[s][p])]

\* Slip: the guest, once out of HP, does not strike back.
HurtInTurn(s) ==
  [p \in Players |->
     hp[s][p] - IF p = Host /\ hp[s][Guest] <= DamageDealt(waiting[s][Host], waiting[s][Guest])
                  THEN 0 ELSE DamageDealt(waiting[s][Other(p)], waiting[s][p])]

Hurt(s) == [p \in Players |-> hp[s][p] - DamageDealt(waiting[s][Other(p)], waiting[s][p])]

\* Slip: a timer that runs out resolves the round itself.
IsDueOnTimer(s) == resolvers[s] > 0 \/ timers[s] > 0

\* PlayCard and AutoplayIfNeeded start resolveRound.
IsDue(s) == resolvers[s] > 0

\* A replica tells a result only to the player of its own server.
ResolveRound(s) ==
  /\ IsDue(s)
  /\ resolvers' = [resolvers EXCEPT ![s] = @ - 1]
  /\ hp' = [hp EXCEPT ![s] = Hurt(s)]
  /\ waiting' = [waiting EXCEPT ![s] = [p \in Players |-> NoCard]]
  /\ rounds' = [rounds EXCEPT ![s] = @ + 1]
  /\ IF GameOver(hp'[s])
       THEN /\ state' = [state EXCEPT ![s] = "ENDED"]
            /\ results' = [results EXCEPT ![s] =
                             IF s \in online THEN @ \cup {Result(hp'[s], s)} ELSE @]
            /\ UNCHANGED timers
       ELSE /\ state' = [state EXCEPT ![s] = "AWAITING_PLAYS"]
            /\ timers' = [timers EXCEPT ![s] = IF s \in autoplay THEN @ + 1 ELSE @]
            /\ UNCHANGED results
  /\ UNCHANGED <<life, lookup, forwards, applied, missed, autoplay, online, leaves, lost>>

\* AutoplayIfNeeded lays a card for its own player, and does not forward it.  The other
\* player is a placeholder whose AutoPlay is never set.
AutoplayIfNeeded(s) ==
  /\ timers[s] > 0 /\ timers' = [timers EXCEPT ![s] = @ - 1]
  /\ IF state[s] # "AWAITING_PLAYS"
       THEN UNCHANGED <<waiting, resolvers>>
       ELSE /\ IF waiting[s][s] = NoCard /\ s \in autoplay
                 THEN \E c \in CardIds : waiting' = [waiting EXCEPT ![s][s] = c]
                 ELSE UNCHANGED waiting
            /\ resolvers' = [resolvers EXCEPT ![s] = IF BothPlayed(waiting'[s]) THEN @ + 1 ELSE @]
  /\ UNCHANGED <<hp, state, rounds, life, lookup, forwards, applied, missed, clients, lost>>

\* Only the host's server starts monitorMatch: the guest's replica stays.
MonitorMatch ==
  /\ life[Host] = "active" /\ state[Host] = "ENDED"
  /\ life' = [life EXCEPT ![Host] = "gone"]
  /\ UNCHANGED <<replicas, lookup, forwards, applied, missed, clients, lost>>

\* CleanupPlayer, on the player's server.  The notice to the opponent is published there,
\* where nobody has subscribed to it.
CleanupPlayer(p) ==
  /\ p \in online /\ leaves < MaxLeaves
  /\ online' = online \ {p}
  /\ leaves' = leaves + 1
  /\ life' = [life EXCEPT ![p] = IF @ = "active" THEN "gone" ELSE @]
  /\ UNCHANGED <<replicas, lookup, forwards, applied, missed, autoplay, results, lost>>

----------------------------------------------------------------------------
(* The specification.                                                      *)

\* The guest's server has confirmed the match.
Init ==
  /\ hp = [s \in Servers |-> [p \in Players |-> HPStart]]
  /\ waiting = [s \in Servers |-> [p \in Players |-> NoCard]]
  /\ state = [s \in Servers |-> "AWAITING_PLAYS"]
  /\ rounds = [s \in Servers |-> 0]
  /\ resolvers = [s \in Servers |-> 0]
  /\ timers = [s \in Servers |-> 0]
  /\ life = [s \in Servers |-> IF s = Guest THEN "active" ELSE "none"]
  /\ lookup = [s \in Servers |-> NoCard]
  /\ forwards = {}
  /\ applied = [s \in Servers |-> [p \in Players |-> 0]]
  /\ missed = FALSE
  /\ autoplay \in Autoplayers
  /\ online = Players
  /\ results = [p \in Players |-> {}]
  /\ lost = 0
  /\ leaves = 0

Deliver == \E m \in forwards : \/ ForwardPlay(m) \/ NotForwarded(m)
                               \/ FindMatchByID(m) \/ PlayForwardedCard(m)

Replica(s) == ResolveRound(s) \/ AutoplayIfNeeded(s)

Next ==
  \/ CreateDistributedMatchAsHost
  \/ \E p \in Players, c \in CardIds : FindPlayerMatch(p, c)
  \/ \E p \in Players : PlayCard(p) \/ CleanupPlayer(p)
  \/ Deliver
  \/ \E m \in forwards : ForwardFails(m)
  \/ \E s \in Servers : Replica(s)
  \/ MonitorMatch

Spec == Init /\ [][Next]_vars

\* Goroutines and calls go on; players need not play, nor leave.
Fairness ==
  /\ WF_vars(CreateDistributedMatchAsHost) /\ WF_vars(MonitorMatch) /\ WF_vars(Deliver)
  /\ \A s \in Servers : WF_vars(PlayCard(s)) /\ WF_vars(Replica(s))

FairSpec == Spec /\ Fairness

----------------------------------------------------------------------------
(* Properties.                                                             *)

(* A play made on one replica is made at most once on the other: it does    *)
(* not come back although the goroutine that forwards it is started on     *)
(* both, and is not made twice.                                             *)
NoEcho == \A p \in Players : applied[Other(p)][p] <= applied[p][p]

\* Every play reaches the other server, nobody leaves it to auto-play, and players wait.
Undisturbed == Patient /\ ~missed /\ autoplay = {}

(* In an undisturbed match replicas that have resolved as many rounds agree *)
(* on HP, in whatever order the two cards of a round came to each.          *)
ReplicasAgree == Undisturbed /\ rounds[Host] = rounds[Guest] => hp[Host] = hp[Guest]

(* Nor does a player hear of a result then that contradicts what the other *)
(* replica tells its player.                                               *)
ResultsAgree ==
  Undisturbed =>
    \A p \in Players : /\ "WIN" \in results[p] => results[Other(p)] \subseteq {"LOSE"}
                       /\ "DRAW" \in results[p] => results[Other(p)] \subseteq {"DRAW"}

(* If both have laid their k-th card, both replicas resolve the k-th round, *)
(* unless the match is disturbed: no round waits for ever for a goroutine.  *)
RoundsAreResolvedOnBoth ==
  \A k \in 1 .. MaxPlays :
    (\A p \in Players : applied[p][p] >= k)
      ~> (~Undisturbed \/ \A s \in Servers : rounds[s] >= k)

(* GAME_RULES.md:280: when somebody is out of HP the match ends, with its   *)
(* result; a player whose opponent is told a result is told one as well.    *)
EndReachesBoth ==
  \A p \in Players : results[p] # {} ~> (results[Other(p)] # {} \/ Other(p) \notin online)
\* The replica that has resolved the most rounds.
Front == IF rounds[Guest] > rounds[Host] THEN Guest ELSE Host

\* What each player has laid in the round of that replica, on the player's own one.
Laid == [p \in Players |-> IF rounds[p] = rounds[Front] THEN waiting[p][p] ELSE NoCard]

OneDuel == INSTANCE Duel WITH hp <- hp[Front], laid <- Laid, told <- results

(* As long as the match is undisturbed the two replicas, with the plays on  *)
(* their way and the rounds only one of them has resolved, are one duel: the *)
(* round that the first of them resolves is that of the two cards laid, the *)
(* other one adds nothing, and both tell the result of the same HP.          *)
PlaysOneDuel == OneDuel!Init /\ [][Undisturbed' => OneDuel!Next]_(OneDuel!vars)

----------------------------------------------------------------------------
(* What makes the properties inductive.                                     *)

\* The plays of player p that have not been made on the other server yet.
Transit(p) == {m \in forwards : m.player = p /\ m.at = p}

\* Only a play that is new to the other server is on its way there, and a play is made
\* there for each of its goroutines at most.
EachOnce ==
  /\ \A m \in forwards : m.stage # "spawned" => m.at = m.player
  /\ IsFiniteSet(forwards)
  /\ \A p \in Players : applied[Other(p)][p] + Cardinality(Transit(p)) <= applied[p][p]

PlaysBounded ==
  \A p \in Players : /\ applied[p][p] <= MaxPlays
                     /\ lookup[p] # NoCard => applied[p][p] < MaxPlays

\* Replica s has for each player the play of its present round, or waits for it, and one
\* goroutine resolves the round if it has both.
InStep(s) ==
  /\ \A p \in Players :
       /\ applied[s][p] \in {rounds[s], rounds[s] + 1}
       /\ waiting[s][p] # NoCard <=> applied[s][p] = rounds[s] + 1
  /\ resolvers[s] = IF BothPlayed(waiting[s]) THEN 1 ELSE 0

\* The last play of p has been made on the other server too, or is on its way there.
LastOnItsWay(p) ==
  \/ applied[p][p] = applied[Other(p)][p] /\ Transit(p) = {}
  \/ /\ applied[p][p] = applied[Other(p)][p] + 1
     /\ \E m \in Transit(p) : Transit(p) = {m} /\ m.n = applied[p][p]

\* Card c is what p lays in the present round of replica s, which may not have it yet.
Due(s, p, c) ==
  IF waiting[s][p] # NoCard THEN c = waiting[s][p]
  ELSE s = Other(p) /\ \E m \in Transit(p) : m.card = c

\* Replicas in the same round have the same HP and the same cards.
Abreast ==
  rounds[Host] = rounds[Guest] =>
    /\ hp[Host] = hp[Guest] /\ state[Host] = state[Guest]
    /\ \A p \in Players, c \in CardIds : Due(Other(p), p, c) => waiting[p][p] = c

\* A replica that is ahead is so by one round, and the cards of that round are those the
\* other one has or is about to get.
Ahead(s) ==
  rounds[s] > rounds[Other(s)] =>
    /\ rounds[s] = rounds[Other(s)] + 1 /\ state[Other(s)] = "AWAITING_PLAYS"
    /\ \A p \in Players : waiting[s][p] = NoCard
    /\ \E card \in [Players -> CardIds] :
         /\ \A p \in Players : Due(Other(s), p, card[p])
         /\ hp[s] = [p \in Players |->
                       hp[Other(s)][p] - DamageDealt(card[Other(p)], card[p])]

\* A player who has begun a play has seen the previous round end on both servers.
SeenRoundEnd(p) ==
  lookup[p] # NoCard =>
    /\ state[p] = "AWAITING_PLAYS" /\ rounds[p] = rounds[Other(p)]
    /\ applied[p][p] = rounds[p] /\ Transit(p) = {}

\* A replica has ended if somebody is out of HP; then it is done with its rounds, and its
\* player has been told one result at most.
EndedOnce(s) ==
  /\ state[s] = "ENDED" <=> GameOver(hp[s])
  /\ state[s] = "ENDED" => \A p \in Players : waiting[s][p] = NoCard
  /\ results[s] \subseteq IF state[s] = "ENDED" THEN {Result(hp[s], s)} ELSE {}

Lockstep ==
  /\ Abreast
  /\ \A s \in Servers : /\ timers[s] = 0 /\ InStep(s) /\ LastOnItsWay(s) /\ Ahead(s)
                        /\ SeenRoundEnd(s) /\ EndedOnce(s)

InLockstep == Undisturbed => Lockstep
=============================================================================
