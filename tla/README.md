# A verified model of the card-duel cluster

The repository is a cluster of game servers written in Go.  Players connect to a
server over TCP, ask for an opponent, play a card duel of two and open packs of
cards.  The servers form a ring and pass a *token* around it over HTTP.  The token
carries the common pool of cards, and a server pairs players and serves packs only
while it has it.  Everything runs in goroutines: one loop per server for the token
(`MatchmakingService.Run`), one dispatcher per server for the messages of all
clients, one HTTP handler per call of another server, and goroutines for rounds,
auto-plays, forwarded plays, monitors and connections.

This directory holds TLA+ modules of that program, configurations of the model
checker TLC for small instances, and proofs checked by TLAPS for all instances.

## 1. Inventory

| Component | Code | State | Operations | Talks to |
|---|---|---|---|---|
| Token ring and election | `server/matchmaking/service.go`, `api/handlers.go` | `isLeader`, `nextServerAddress`, `currentToken`, two timers, the token channel (capacity 1) | receive, serve, pass, retry, skip a dead successor, regenerate, elect, monitor a skipped node | the other servers by HTTP, the queues |
| Matchmaking | `service.go`, `state/manager.go`, `api/handlers.go` | `MatchmakingQueue`, `ActiveMatches`, `DistributedMatches` | enqueue, snapshot and remove, find-opponent, request-match, create, clean up | the ring, matches, the broker |
| Match | `game/match.go`, `types.go`, `cards.go` | `HP`, `Hands`, `Waiting`, `State`, `done` | play, resolve a round, refill, auto-play, end | dispatcher, monitor goroutine, broker |
| Distributed match | `match.go`, `api/handlers.go`, `s2s/client.go` | a replica of the match on either server | forward a play, apply a forwarded play | HTTP between the two servers |
| Packs and card pool | `token/token.go`, `service.go`, `network/handlers.go` | `PackRequestQueue`, `CardPool` | open, wait with a timeout, draw, refill, answer | the ring, the dispatcher |
| Broker | `pubsub/pubsub.go` | topics, subscribers with a channel of capacity 1 | subscribe, unsubscribe, publish (drops when full) | everything that sends to a client |
| Client connections | `network/client_manager.go`, `network/handlers.go` | one connection, one subscription, one dispatcher | read, write, dispatch, clean up | broker, state manager |
| Terminal client, protocol | `client/main.go`, `protocol/protocol.go` | `inMatch`, `currentHand` | connect, commands, show messages, quit | its server |
| `packs.PackStore`, `game.PackSystem` | `packs/packs.go`, `game/cards.go` | stock, audit log | open | used by a test only, or by nobody |

What makes these parts right, and what is hard about it:

* **Ring.**  Two live leaders, or two tokens, must not coexist; a lost token must
  come back; every live server must get its turn.  Hard: a POST that is delivered but
  times out, timers whose ticks are still in their channel when they are stopped or
  reset, a monitor goroutine that writes `nextServerAddress` beside the loop, crashes
  and returns in every state.
* **Matchmaking.**  Nobody drops out of the queue without an answer, a match has two
  different players and both halves, a player is in one match only, two waiting players find each other.  Hard:
  the queue is read in one critical section and changed in another, the two calls of
  the handshake are not atomic, calls fail after they took effect, players leave at
  any point.
* **Match.**  A round is resolved once both cards lie, hands stay full, a match ends
  once, with results that agree.  Hard: the goroutine that resolves the round is
  started by whoever completes it, stale auto-play timers and late plays go on after
  the end, the cleanup of a player races the end.
* **Distributed match.**  A play is made once on either server, the replicas resolve
  the same rounds and tell results that fit.  Hard: each play has a goroutine and a call
  of its own, each replica resolves and ends by itself, either one may be gone already.
* **Packs.**  A request is answered, no copy of a card is given twice or gets lost, the
  loop never blocks on a client.  Hard: the timeout of the client
  races the answer, requests arrive while a batch is served, the token gets lost.
* **Broker, connections, client.**  What a client shows is what the server has, no
  goroutine waits for a slow client, whoever leaves leaves nothing behind.  Hard: four
  goroutines publish to a client, the one place of its channel may be taken, a message
  refers to an array that changes before it is encoded.

`PROJECT.json` lists the hazards line by line with the properties that cover them.

## 2. Modules

| Module | Models | State it keeps |
|---|---|---|
| `TokenRing` | `Run`, `passTokenToNextServer`, `promoteToLeader`, `resetTimers`, `monitorFailedNode`, `handleReceiveToken` | one variable per field of the service; `pc` is the place of `Run` between two shared accesses |
| `SingleToken` | what the ring promises to those who use it: one token that goes from each live server to the next live one, may get lost, and is then made anew by the first live server | the live servers, the one that has the token |
| `Rules` | `ElementalBonus`, the damage of a round, `GetCard`, the results of a match | none: constants and operators for `Match` and `DistMatch` |
| `Match` | `PlayCard`, `resolveRound`, `AutoplayIfNeeded`, `EndIfGameOver`, `monitorMatch`, `CleanupPlayer` around one match of one server | the fields of `game.Match`, counters of waiting goroutines, the connections |
| `DistMatch` | the two replicas of a match between servers: `PlayCard`, `forwardPlayIfNeeded`, `ForwardAction`, `handleMatchAction`, `resolveRound`, `AutoplayIfNeeded` | the fields of each replica, the plays on their way and their stage |
| `Duel` | what an undisturbed `DistMatch` amounts to: one duel by the rules, without servers | HP, the cards laid, the results told |
| `Packs` | `handleOpenPack`, `processPackRequests`, `Token.DrawCards` | the queues, the batch in hand, the pool, the reply channels |
| `CardStock` | the abstract promise of `Packs`: at most one answer per request, a full pack of fresh copies | who asked, what was answered, what is issued |
| `Matchmaking` | `processMatchmakingQueue`, `findAndCreateDistributedMatch`, `handleFindOpponent`, `handleRequestMatch`, `AddPlayerToQueue`, `CleanupPlayer` | the queues and matches of each server, the place of its loop, requests still under way |
| `Session` | the terminal client, `handleConn`, `readLoop`, `writeLoop`, `Broker`, `handleMessage` and its handlers, `notifyPlayersOfMatch`, the messages of a match | per client its view, its connection and the one place of its subscription; what each publishing goroutine has still to publish |
| `MCTokenRing`, `MCMatch`, `MCDistMatch`, `MCPacks`, `MCMatchmaking`, `MCSession` | constants of the instances TLC runs | |
| `TokenRingProofs`, `RulesProofs`, `MatchProofs`, `DistMatchProofs`, `PacksProofs`, `MatchmakingProofs`, `SessionProofs` | theorems | |
| `SeqLemmas` | facts about sequences for the proofs | |

`Match`, `DistMatch` and `Duel` extend `Rules`; `Packs` instantiates `CardStock`, `TokenRing` instantiates
`SingleToken` and `DistMatch` instantiates `Duel`, each with a refinement mapping: the abstract
module is the promise, and a run checks and a theorem proves that the detailed one keeps it.  The token of
`Packs` moves, gets lost and is made anew as that of `SingleToken` does while no server stops, and the turn of `Matchmaking`
moves so until a late POST duplicates it; neither is composed with `TokenRing`.  Where two components
interact, one module holds both: the dispatcher of `Session` waits for a pack as
`handleOpenPack` does, the match of `Session` publishes while it holds its lock, the cleanup of a
connection takes the match away in `Match`, `DistMatch`, `Matchmaking` and `Session`.

How actions correspond to code.  A Go function that holds a mutex from its first line
to its last is one action (`PlayCard`, every method of `StateManager`), except where it
publishes several messages: in `Session` these are steps of their own.  A function
that holds no mutex throughout is cut where another goroutine, another server or a fault can come
between: `passTokenToNextServer` is cut at each call and at the write of
`nextServerAddress`; `processMatchmakingQueue` at each call of the state manager and
of another server; a forwarded play at the look-up of its match, at the POST, and at the
look-up on the other side.  An HTTP call of the ring or of the matchmaking and the handler that answers it are
one action, with failed, late and refused calls as alternatives.  Definitions named in
comments as a *slip* are plausible bugs in the definition that follows them; no
specification uses them, they are the mutations each property is tried against.

### TokenRing
`tokenChan`, `currentToken` and `inject` say where tokens are, nil ones included; a
timer is off, armed or fired, where fired is a tick left in its channel.  The faults
(`crash`, `restart`, `lost`, `late`, `ping`, `cards`) have a budget `Limit`.
The model is untimed.  With `Timely = FALSE` a timer may run out whenever it is armed.
With `Timely = TRUE`, calls that are answered or refused take no time; then a timer runs out
only when no token can reach the server and, for the election of server 1, server 0 does not lead and
post to it, as long as the faults so far leave the durations their slack (`InTime`): a lap takes 2 N s, the
watchdog 5 N s and the election timer 10 N s, so one POST that costs its timeout of 5 s is borne, but not two
in a lap, nor a ping without an answer.  The address of the dead successor is read for the health
check, read again to remember whom to skip, and then written, in three steps (`HealthCheckFails`, `NoteFailed`,
`Relink`), because a monitor goroutine may write it between any two.  A process that stops loses its memory, so its variables take their initial
values at once.  Assumed: `N >= 2`; a stopped server refuses connections.

### Match
One match, two players, `done` as a one-place channel, `lookup` for the match the
dispatcher found before it plays.  `results` holds what was *published* to a player
who was subscribed; delivery is the subject of `Session`.  `Round` and `Discard` are left
out: they are only reported.  A rejected play changes nothing and is not an action.
Player ids are peer addresses, which a later connection does not reuse.

### DistMatch
The guest's replica exists from the start, the host's is made some time later, as
`findAndCreateDistributedMatch` does.  A play has the stages *spawned* (its goroutine is
started), *posted* and *found* (the other server has looked its replica up), and after it was
made there, *spawned* again, because `PlayCard` starts the same goroutine on both sides.
Hands are left out: each replica draws its own random cards and a play names any card.
`applied` and `missed` are histories.  `Patient` restricts when players play: with `TRUE` they wait
until the previous round is over on both servers (`RoundIsOver`).  That is an assumption about players, not
something the code enforces or a client can see: a client hears only its own server, and who looks at that
server's round result before choosing waits for one side only.  It holds for players who take longer to
choose than a forwarded play takes.  A player of a distributed match who leaves does so in one
step.

### Packs
The ring is abstracted to a token that moves, gets lost and is regenerated by the
leader.  Copies of cards are numbered when they are put into a pool, so that handing
one out twice can be seen; shuffling is left to the numbering.  After the packs the holder may draw for one
match: both hands at once for a local one (`LocalMatch`), or the guest's hand before the guest's server is asked
(`OfferMatch`) and the host's after it has agreed (`HostMatch`).  `hands` are the draws that a player has got,
`discarded` counts those that nobody has: the code does not put them back.  A request waits on
the dispatcher, which is blocked meanwhile, exactly as `handleOpenPack` does.

### Matchmaking
`asking` is a FIND_MATCH between client and dispatcher, `late` a POST whose sender has
given up, `agreed` the matches the guest's server has confirmed so far (a history), `orderly` says that no POST
was late and nobody has asked while waiting or playing so far (a history).
Of the ring it keeps the turn and the duplicated token.  The token starts at server 0,
as the first watchdog leaves it.  Match ids are numbered: the code takes them from
the clock.  `seeks` says who was put into the queue and has had no answer since; the message QUEUED that
follows is left to `Session`, and a match made meanwhile may be announced before it.  Only the server of
the first player starts `monitorMatch`, so only that one removes a match that is over (`RemoveMatch`).

### Session
Two clients of one server and one local match, reduced to rounds and an end.  `up` and `down` are
the connection in either direction with room for one message; more room adds no order of
events, because TCP keeps the order and both ends take one message at a time.  A STATE
carries the round whose hand it shows: `broadcastState_nolock` puts the slice itself into the
message, later rounds shift and refill its array, and `writeLoop` encodes it later still, so
the round that arrives is any from then to the current one.  `missed` is a history of what
the broker dropped.  All answers that a client only prints are one kind of message, PINGs
and unknown commands included.

## 3. Runs

| Run | Question | Bounds, and why they are enough |
|---|---|---|
| `ring_heals` | do election, timers and monitors stay consistent, and does every live server get its turn for ever? | 3 servers (the deployment of `docker-compose.yml`), a crash, a return, a late POST and an unreadable `cards.json`, any timer at any time; fair.  The safety properties are proved for every budget, lost pings included |
| `ring_one_crash` | is the token neither duplicated nor dropped, is a skipped node monitored, and does the ring implement `SingleToken`? | 4 servers, so that the skip `i + 2` is not the predecessor; one stops for good, one POST is lost, calls take no time otherwise: the budget under which the durations suffice.  That the replacement of a skipped node fails too takes two stops: the proof covers it |
| `ring_two_tokens` | refuted: one token at a time | 3 servers, one late POST |
| `ring_forgotten` | refuted: the loop and the monitor never collide | 3 servers, two crashes, one return |
| `match_rounds` | rounds, hands, ends and results; is an ended match removed, does auto-play move it on? | hands of one card, one card that takes 3 HP of 9: three full rounds, or partial ones in between that make one player lose; up to two waiting resolvers; plays go on until HP is below -1, that is past the end; fair.  Other cards and hand sizes are covered by the proofs |
| `match_partial_round` | refuted: a round is resolved only when both have played | HP 6, otherwise as above |
| `dist_patient` | is a play made once on either side, do the replicas agree on rounds, HP and results, are they together one `Duel`, are rounds resolved on both? | two cards that hurt both sides differently, HP 12, three plays each: a match ends in its second or third round, or, if three rounds are Fire against Fire, is cut off; one POST fails, one player leaves, the guest may be on auto-play; fair |
| `dist_end_missed` | refuted: when one player is told the end, the other one is told an end too | nothing fails, nobody leaves, players wait, no auto-play: HP 8, two plays each; fair |
| `packs_served` | are requests answered, cards given once and not lost, and is this the promise of `CardStock`? | 2 servers, 3 requests, two of them at one server; a pool of 3, packs of 2, hands of 1, one match, local or with the other server: a draw finds the pool large enough, too small and empty; one lost token, one unreadable `cards.json`; fair |
| `queue_served` | is nobody lost, matched twice, matched alone, or left waiting beside another? | 2 servers, 3 players, two of them at one server, 3 FIND_MATCH in all, one call that fails, is late or duplicates the token; fair |
| `queue_ghost` | refuted: nobody is left in a match with a player who is gone | as above |
| `session_agrees` | does a client show what the server has, does no publisher and no dispatcher hang, are connection, writer and match of a leaver ended? | 2 clients, one of which may leave at any point, with or without a LEAVE; an evening is two plays of each, so that a STATE can be late by a round and a match can end twice, or a play without a match and a pack, or a chat; two rounds; fair |

The bounds are constants of the modules (`Limit`; `MinHP`, `MaxResolvers`; `MaxPlays`, `MaxLost`,
`MaxLeaves`; `MaxMatches`, `MaxLosses`, `MaxNils`; `MaxAsks`, `MaxFails`; `Wishes`, `Leavers`, `MaxRounds`)
and stand in guards.  The runs of `Match`, `DistMatch` and `Session` do not look for deadlock, since a
match that is over, with its players gone or silent, really stops.  All other runs do: the
ring never stops by itself.

What the properties say that are not plain from their names: `SkippedIsMonitoredAtFirst` (what `ring_forgotten`
refutes holds until a server returns or a ping is lost), `CirculatesOneToken` and `PlaysOneDuel` (the
refinements of `SingleToken` and `Duel`); `UniquePairing` (the "pareamento único" that `PROBLEM_DESCRIPTION.md:25` asks for:
one match at most for each player, and no place in the queue meanwhile, as long as the matchmaking is `orderly`); `NoEcho` (no play comes back or is
made twice), `ReplicasAgree` and `ResultsAgree` (equal rounds mean equal HP, and results fit),
`RoundsAreResolvedOnBoth` (liveness); `TrueView` and `CurrentHand` (a client shows the match and the hand
the server has, once nothing is on its way), `PublishersGoOn`, `DispatcherReturns`, `LeaverIsForgotten`
(liveness); `NoCardLost` (every copy is in the pool, a pack or a match until a token gets lost or a hand is drawn
for nobody), `IssuesFreshPacks` (the refinement of `CardStock`).

### Fairness
Goroutines that can go on do (weak fairness of `Run`, of the goroutines of a match, of
forwarded plays, of monitors, of armed timers, of publishers and of the dispatcher); nothing is assumed
of clients or faults: in `Session` a client may stop reading for ever, so neither its terminal nor
the `writeLoop` that waits for it is fair, and the token need not come, so the dispatcher returns from a pack by its timeout only.
The one strong
fairness is that of receiving the token in `TokenRing`: Go's `select` chooses at random
among ready cases, so a case that is ready again and again is taken.
A timer of the ring is bound to run out only while no token can reach its server (`Starved`): elsewhere each
arrival restarts it, and Go promises nothing of a timer that is restarted for ever.  `EveryServerServed` so also
covers the runs in which a token that goes round for ever keeps the watchdog from running out.

### What the runs found
1. **Two tokens** (`service.go:486`).  A POST that arrives but whose answer comes after 5 s
   leaves the token with both servers; nothing ever removes one of them.
2. **A forgotten server** (`service.go:507`).  The comment at line 329 calls the monitor's write
   of `nextServerAddress` safe because only the leader writes it.  Every server does, in
   another goroutine.  If the write of a skip follows the monitor's, the returned server
   stays out of the ring although nobody monitors it.
3. **Rounds without cards** (`match.go:166`).  A second play before the round is resolved starts a
   second `resolveRound`, which resolves the next round early: a player is hit without
   having played.
4. **An end that does not arrive** (`match.go:163`).  A play is forwarded by a goroutine started
   after the play was made, which gives up if the match is no longer known.  If that play ends the match on
   the host's server and `monitorMatch` removes it first, the guest's replica waits for the
   play for ever and the guest is told no result.
5. **Ghosts** (`manager.go:225`).  A FIND_MATCH handled after the cleanup of its sender puts a
   player who is gone into the queue; whoever is matched with that player waits for ever.
   The same state is reached when a player leaves between snapshot and creation, and in
   every distributed match whose remote player leaves: the other server is never told.

Seen while modelling, without a run of their own:

* *Ring.*  A server 0 that returns starts as leader although another one was elected, and
  no leader ever steps down, which is why `LeaderIsLowestAlive` is stated for histories without
  returns; a timer that runs out while the token is only slow (two POSTs that cost 5 s in a lap, or peers that
  accept and answer late) makes a second one, which nothing removes; a nil token can be passed into the channel after `cards.json` could not be read.
* *Matchmaking.*  Unique pairing is what the token is for, and it ends with the token: after a late POST of the
  token two servers take the same player from the queue; a late request-match confirms a guest
  whom another server is pairing, and leaves that guest alone in a match whose host was dropped; and `AddPlayerToQueue` (`manager.go:213`) takes in a player who is in a match already.
  Each of the three alone refutes `UniquePairing` when `orderly` leaves it out.
* *Match.*  No auto-play is scheduled for the first round, nor for the round in which it is
  switched on, against `GAME_RULES.md:67`.
* *Distributed match.*  Only the host's server starts `monitorMatch` (`service.go:459`): the guest's replica is
  never removed.  The guest who plays again has two matches at its server, and `FindPlayerMatch` (`manager.go:115`)
  answers with either of them, so that a play can go to the one that is over.  The card of an auto-play is not
  forwarded (`match.go:559`), nor is a failed POST repeated (`match.go:523`): from then on the
  replicas disagree, which is why `ReplicasAgree` is stated for undisturbed matches.  The guest can
  play before the host's replica exists; that play is answered with 404 and lost.  Players
  who do not wait can have two plays overtake each other; without any loss both can then be told WIN.
  `CleanupPlayer` of a distributed match tells the opponent on the wrong server.
* *Packs.*  `tests/stress_cluster_test.go:167-172` requires an `OUT_OF_STOCK` answer for each request beyond the stock,
  and `GAME_RULES.md:101-108` promises the same.  `DrawCards` refills a pool that is too small (`token.go:84`), so a draw can fail only
  if a whole refill has fewer cards than a pack, which the assumptions of `Packs` and the 10 copies of `cards.json` exclude: the
  stock is unbounded and the answer never comes.  In the model `FullPacks`, which the refinement needs, says so.  The hand of a guest
  is drawn before the guest's server is asked (`service.go:403`) and lost if that refuses or does not answer; the cards of a request that timed out are given to nobody, against
  `GAME_RULES.md:218`; a leader that cannot regenerate the token drops the requests it has
  dequeued, although the comment at `service.go:137` says they stay in the queue (`EveryRequestServed`
  excludes that case).
* *Messages.*  A MATCH_FOUND or MATCH_END published right after another message is dropped if
  the one place of the client is still taken, and nothing repeats it; `TrueView` is stated for
  clients that did not miss one.  The MATCH_END of an opponent's cleanup can overtake the MATCH_FOUND of
  a match that has just been made, since the match is active before the players are notified:
  the client that stays believes to be in a match for ever.  A message of a client is dropped when the
  dispatcher is busy and has one waiting, its FIND_MATCH included, which is sent only once.  LEAVE and REMATCH
  are unknown to the server.
* `AutoPlay` and `nextServerAddress` are written without a lock, which on
  the platforms used is a stale read at worst, and both orders are explored.

## 4. Proofs

The theorems hold for every value of the constants, under the assumptions named in the
modules: every number of servers, every fault budget and either value of
`Timely` (`TokenRingProofs`), every card database, hand size, starting HP and
bound (`RulesProofs`, `MatchProofs`, `DistMatchProofs`), every set of requests and every size of pool, pack
and match (`PacksProofs`), all servers, players and homes (`MatchmakingProofs`), and whatever two
clients may send, any number of rounds and any leavers (`SessionProofs`).  Five theorems have a condition of
their own, which the theorem states: `TokenIsNotDropped` is about budgets in which `cards.json` can be read
(a nil token fills the channel like any other, and a real one that arrives then is dropped); `OneTokenAtATime`,
`CirculatesWhileMild` and `CirculatesWithOneStop` are about calls that take no time unless they fail (`Timely`) and, in three different
ways, about mild faults, which leave the durations their slack; `UndisturbedIsDuel` is about matches that stay undisturbed.  Other conditions are part of the properties themselves (`Honest`, `orderly`, `Undisturbed`).  The refuted runs
`ring_two_tokens` and `ring_forgotten`, and the notes of section 3, show what happens without these conditions.

* `TokenRingProofs!TypeCorrect`: one lemma per helper (posting, regenerating, ending a pass),
  then one step per action.
* `TokenRingProofs!LeaderElection`: `LeaderIsLowestAlive` is not inductive, because an election
  decides on pings made earlier.  The strengthening `ScannedAreDown` says that everything
  scanned so far is down; it survives because without returns (`Honest`) a server that is down
  stays down.
* `TokenRingProofs!NoElectionOnLeader`: inductive together with the types.
* `TokenRingProofs!MonitorsDoNotPileUp`: the strengthening `SkipInProgress` says that during the skip
  of the original successor no monitor of it runs; it uses that `Skip(i) # Succ(i)` for
  `N >= 2`.
* `TokenRingProofs!SkippedAreMonitored`: with the invariants above and `BypassedIsDown`.  Without returns the monitor of a
  skipped server never ends, because its pings are never answered.
* `TokenRingProofs!TokenIsNotDropped`: one case per action that touches a token.  Wherever one could end, another one is left:
  the channel that has no room holds one, since without an unreadable `cards.json` no token is nil (`NoNils`).
* `TokenRingProofs!OneTokenAtATime`: `OneToken` is far from inductive.  A token is made by a leader whose watchdog has run out and by
  a server that is promoted, so the invariant `RingInv` must say why there is none then.  A leader's watchdog that has run
  out, or an election of server 1, means that no token is alive (`WatchdogIsRight`, `FirstLeads`): `Timely` lets them run
  out only then, and nobody else could make one meanwhile, since only servers 0 and 1 ever lead
  while no two neighbours are down.  A server that is
  down has nothing left (`DownIsReset`), a server bypasses only a successor that is down (`BypassedIsDown`), so that a
  token never goes to a server that is skipped, and `PostsItsToken` says that a failed POST leaves the token where it was.
  The condition `Mild` is the state so far, not a budget: one POST was lost at most, nothing was late,
  no live server missed a ping or came back, `cards.json` could be read, and no two neighbours are down.  A late answer duplicates the token in
  one step; a return of server 0 makes a second leader; with two neighbours down the skip `i + 2` posts to a server that is down.
* `TokenRingProofs!CirculatesWhileMild`, `CirculatesWithOneStop`: the ring implements `SingleToken` where a server is
  live if it is up and has the token if the token is with its loop, its channel or its injection (`Holders`).  An
  answered POST is a `Pass` to the next live server, the same token going from channel to loop a stutter; a promotion or a regeneration
  is `Regenerate`, a stop takes the token along.  The second theorem derives `[]Mild` from a budget: one stop and one lost POST at
  most, and nothing else.  A second lost POST is not allowed, because two of them in a lap can make the watchdog run out while the
  token is still on its way.
* `RulesProofs`: what a round deals is a natural number, and results of two players fit.  Shared by
  the next two.
* `MatchProofs`: the invariant `IInv` is `TypeOK /\ HandsFull /\ EndedIffOut`.  `HandsStayFull` needs the
  lemma that removing the first occurrence of a card shortens a hand by at most one, and
  that a refill brings it back to `HandSize`.  `MatchEndsOnce` follows from damage being at least
  0 (`DamageTyped`) and `EndedIffOut`.  `FullRoundsAreResolved` is inductive with the types.
  `NeverTwoWinners` needs that results come from `Result`, that a winner's opponent stays out of
  HP, and that the notice of a leaving opponent goes only to a player whose opponent is no
  longer online.
* `DistMatchProofs`: in two layers.  `AnyMatch` (types, `EachOnce`, `PlaysBounded`) holds of every match, disturbed or not;
  `EachOnce` counts: the plays made on the other server and those on their way there are together no more
  than those made at home.  `NeverTwice` follows.  `InLockstep` holds in addition of undisturbed
  matches: the replicas are in the same round with the same HP and no contradicting cards
  (`Abreast`), or one is ahead by exactly one round, in which case the cards that brought it
  there are the ones the other replica has or is about to get (`Ahead`), so that the other one computes the same HP;
  at most the last play of each player is on its way (`LastOnItsWay`), and a player who has begun a play has
  seen the round end on both sides (`SeenRoundEnd`).  `Agreement` and `ResultsAgreement` follow; the
  latter also needs `EndedOnce`, that a replica tells its player one result at most.
* `DistMatchProofs!ImplementsDuel`, `UndisturbedIsDuel`: the mapping takes the HP of the replica that is ahead (`Front`) and the cards
  that the players have laid on their own replicas in its round (`Laid`).  The round that the first replica resolves is
  the `Round` of the duel; the same round on the other replica is a stutter, or lets its player
  hear the result, because `InLockstep` says that it has the same cards; a play is `Lay` when its player makes it, and its way to
  the other replica a stutter.  The step that disturbs the match is excluded, and all that follow it.
* `PacksProofs`: the invariant `IInv` says that the pool is the latest copies in order
  (`PoolIsLatest`), that everything handed out is older (`IssuedAreGone`), that a request is queued
  once until it is answered (`QueuedOnce`) and that answers are full packs (`FullPacks`).
  `HandedOutOnce` and `NeverBlocks` follow from it.
* `PacksProofs!NothingLost`: what has left the pool has been issued (`GoneAreIssued`) until a token or a hand gets lost.  That
  regeneration, the one step that throws a pool away, cannot do so earlier needs `HolderServes`: there is no token and
  none has been lost only before the first one is made.
* `PacksProofs!Implements`: `Packs` implements `CardStock` under the mapping that forgets servers, queues, tokens
  and pools and keeps who asked, the answers, and the copies in anybody's hands: a `ServePack` step is an
  `Answer`, a draw for a match a `Deal` unless nobody gets the hand, `OpenPack` an `Ask`, everything else a stutter.
* `MatchmakingProofs`: the strengthening `JobFits` follows the match a server is making through
  `processMatchmakingQueue`: its first player is one of its own, the second one too or one of another server,
  and before the host leaves the queue the match is in `agreed`.  `TwoPlayers` also needs that a queue has
  a player once (`QueuedOnce`, part of the types) and that the own server is not searched.  `NobodyIsForgotten`
  needs no more than that whoever is taken from a queue is in `job` from then to the answer.
* `MatchmakingProofs!PairedOnce`: the invariant `Apart` says that one server at a time has its turn (`OneTurn`), that no request is
  under way whose sender has given up, and for each player (`Kept`) that asking, waiting, being matched and playing exclude each
  other.  `OneTurn` is what a confirmation needs: the guest's own server is away and cannot be pairing the guest.  That
  somebody who waits or is being matched has not been answered (`seeks`) is what a new FIND_MATCH needs.  Lost calls are
  allowed, and so are players who leave at any point.

* `SessionProofs`: what is left to publish by the matchmaker and by a round is one of five sequences
  (`Shapes`), each step of `Publish` taking the first message.  `Ordered` is the causal order of a match: who is
  still to be told the hand of the first round has not played, so a round is not resolved before both
  players have been told, and MATCH_FOUND cannot overtake the end.  `News` and `Hands` then say
  where the last news and the last hand of a client are: still to be published, in its place of the
  broker, on the connection, shown, or dropped (`missed`).  `ViewIsTrue` and `HandIsCurrent` are what is
  left of them when nothing is on its way.  A step that concerns none of this is dealt with by one lemma
  (`Calm`).

Only model-checked is liveness, since fairness and ENABLED are outside the prover's reach: `EveryServerServed`,
`EndedIsRemoved`, `AutoplayMovesOn`, `RoundsAreResolvedOnBoth`, `EveryRequestServed`, `WaitersMeet`, `PublishersGoOn`,
`DispatcherReturns` and `LeaverIsForgotten`.  Every invariant of a passing run, and every action property and
refinement, is the subject of a theorem.

## 5. Not modelled

* `packs.PackStore` (one mutex around each of its operations, used by a test only), `game.PackSystem`
  (made at start-up, used by nobody), and functions without a caller: `ForwardMessage` with `handleForwardMessage`,
  `RemovePlayerOnline`, `ConfirmAndCreateDistributedMatch`, `GetCardInfo`.
* The JSON text of messages, what the client prints, round logs, the parsing of environment
  variables, the configuration of a single server.
* An `http.Get` without a timeout in the health check can hang the loop for good if a peer
  accepts and never answers; a model would only restate that assumption.
* The hands of a distributed match: the replicas draw their own, so nothing about them agrees.
* A client that outlives its server: the program does not connect again.
