------------------------------- MODULE Match -------------------------------
(***************************************************************************)
(* One match of two players of the same server: PlayCard, resolveRound and *)
(* AutoplayIfNeeded of game.Match with the goroutines that run them (the   *)
(* dispatcher of client messages, one goroutine per round to resolve, one  *)
(* per sleeping auto-play), the monitorMatch goroutine that removes the    *)
(* match when it ends, and the cleanup of a player who disconnects.        *)
(*                                                                         *)
(* Every function of game.Match holds m.mu from its first line to its last *)
(* one, so each is one step; the order of the steps is up to the           *)
(* scheduler.  Round and Discard are only reported, and left out.          *)
(***************************************************************************)
EXTENDS Rules, SequencesExt

CONSTANTS
  HPStart,
  HandSize,
  MinHP,         \* bound: nobody plays once a player's HP is this low
  MaxResolvers   \* bound: nobody plays while this many rounds wait to be resolved

ASSUME HPAssumption == HPStart \in Nat \ {0} /\ MinHP \in Int
ASSUME HandSizeAssumption == HandSize \in Nat \ {0}
ASSUME MaxResolversAssumption == MaxResolvers \in Nat \ {0}

VARIABLES
  hp,          \* HP
  hand,        \* Hands, each a sequence of card ids
  waiting,     \* Waiting: the card a player has laid, or NoCard
  state,       \* State, as it is when m.mu is free
  resolvers,   \* how many resolveRound goroutines wait for m.mu
  timers,      \* how many scheduleAutoPlay goroutines sleep
  done,        \* the channel done, of capacity 1, holds its signal
  monitor,     \* where the monitorMatch goroutine is
  active,      \* the match is in ActiveMatches
  lookup,      \* the play the dispatcher has found the match for
  autoplay,    \* AutoPlay of each player
  conn,        \* where the connection of each player is
  results      \* the results published to each player while subscribed

round   == <<hp, hand, waiting, state, resolvers, timers>>
removal == <<done, monitor, active>>
vars    == <<round, removal, lookup, autoplay, conn, results>>

Idle == <<>>

TypeOK ==
  /\ hp \in [Players -> Int]
  /\ hand \in [Players -> Seq(CardIds)]
  /\ waiting \in [Players -> CardIds \cup {NoCard}]
  /\ state \in {"AWAITING_PLAYS", "ENDED"}
  /\ resolvers \in Nat
  /\ timers \in Nat
  /\ done \in BOOLEAN
  /\ monitor \in {"starting", "waiting", "removing", "gone"}
  /\ active \in BOOLEAN
  /\ lookup \in {Idle} \cup (Players \X CardIds)
  /\ autoplay \in [Players -> BOOLEAN]
  /\ conn \in [Players -> {"online", "unsubscribed", "notifying", "gone"}]
  /\ results \in [Players -> SUBSET Results]

----------------------------------------------------------------------------
(* The hands.                                                              *)

\* Slip: cards are drawn while the hand has at most HandSize.
RefillOneMore(h) == {h \o new : new \in [1 .. HandSize + 1 - Len(h) -> CardIds]}

\* Slip: the card drawn is not checked against "".
RefillUnchecked(h) == {h \o new : new \in [1 .. HandSize - Len(h) -> CardIds \cup {NoCard}]}

\* refillHands: random cards up to HandSize.
Refill(h) == {h \o new : new \in [1 .. HandSize - Len(h) -> CardIds]}

----------------------------------------------------------------------------
(* The dispatcher: one goroutine for the messages of all clients.          *)

\* handlePlay: FindPlayerMatch, under the lock of the state manager.  A play that
\* PlayCard rejects (an unknown card or index) changes nothing.
FindPlayerMatch(p, c) ==
  /\ lookup = Idle /\ active /\ conn[p] = "online"
  /\ lookup' = <<p, c>>
  /\ UNCHANGED <<round, removal, autoplay, conn, results>>

\* Slip: both cards are counted before this one is recorded.
PlayCardCountsFirst ==
  /\ lookup # Idle
  /\ resolvers < MaxResolvers /\ \A p \in Players : hp[p] > MinHP
  /\ waiting' = [waiting EXCEPT ![lookup[1]] = lookup[2]]
  /\ resolvers' = IF BothPlayed(waiting) THEN resolvers + 1 ELSE resolvers
  /\ lookup' = Idle
  /\ UNCHANGED <<hp, hand, state, timers, removal, autoplay, conn, results>>

\* handlePlay: PlayCard, on the match found before, whatever became of it since.  It
\* replaces an earlier play of the round and looks neither at State nor at the hand.
PlayCard ==
  /\ lookup # Idle
  /\ resolvers < MaxResolvers /\ \A p \in Players : hp[p] > MinHP
  /\ waiting' = [waiting EXCEPT ![lookup[1]] = lookup[2]]
  /\ resolvers' = IF BothPlayed(waiting') THEN resolvers + 1 ELSE resolvers
  /\ lookup' = Idle
  /\ UNCHANGED <<hp, hand, state, timers, removal, autoplay, conn, results>>

\* handleAutoPlay.
SetAutoPlay(p, enable) ==
  /\ lookup = Idle /\ conn[p] = "online" /\ autoplay[p] # enable
  /\ autoplay' = [autoplay EXCEPT ![p] = enable]
  /\ UNCHANGED <<round, removal, lookup, conn, results>>

----------------------------------------------------------------------------
(* The goroutines of the match.                                            *)

\* Slip: done has no capacity, so the signal is lost unless the monitor waits for it.
SignalUnbuffered == done' = (done \/ monitor = "waiting")

\* The signal of EndIfGameOver; it is dropped if the channel is full.
Signal == done' = TRUE

\* The results EndIfGameOver publishes; nobody hears of them without a subscription.
PublishResults ==
  results' = [p \in Players |-> IF conn[p] = "online" THEN results[p] \cup {Result(hp', p)}
                                                      ELSE results[p]]

\* resolveRound up to the next round.  It does not ask whether both have played.
ResolveRound ==
  /\ resolvers > 0
  /\ resolvers' = resolvers - 1
  /\ hp' = [p \in Players |-> hp[p] - DamageDealt(waiting[Other(p)], waiting[p])]
  /\ \E h1 \in Refill(RemoveFirst(hand[1], waiting[1])),
        h2 \in Refill(RemoveFirst(hand[2], waiting[2])) :
       hand' = [p \in Players |-> IF p = 1 THEN h1 ELSE h2]
  /\ waiting' = [p \in Players |-> NoCard]
  /\ IF GameOver(hp')
       THEN state' = "ENDED" /\ Signal /\ PublishResults /\ UNCHANGED timers
       ELSE /\ state' = "AWAITING_PLAYS"
            /\ timers' = IF \E p \in Players : autoplay[p] THEN timers + 1 ELSE timers
            /\ UNCHANGED <<done, results>>
  /\ UNCHANGED <<monitor, active, lookup, autoplay, conn>>

Missing == {p \in Players : waiting[p] = NoCard /\ autoplay[p] /\ hand[p] # <<>>}

\* Slip: both cards are counted before the missing ones are laid.
AutoplayCountsFirst ==
  /\ timers > 0 /\ timers' = timers - 1
  /\ IF state = "AWAITING_PLAYS"
       THEN /\ \E card \in [Missing -> CardIds] :
                 /\ \A p \in Missing : card[p] \in Range(hand[p])
                 /\ waiting' = [p \in Players |-> IF p \in Missing THEN card[p] ELSE waiting[p]]
            /\ resolvers' = IF BothPlayed(waiting) THEN resolvers + 1 ELSE resolvers
       ELSE UNCHANGED <<waiting, resolvers>>
  /\ UNCHANGED <<hp, hand, state, removal, lookup, autoplay, conn, results>>

\* scheduleAutoPlay wakes up: AutoplayIfNeeded, in whatever round the match is by now.
AutoplayIfNeeded ==
  /\ timers > 0 /\ timers' = timers - 1
  /\ IF state = "AWAITING_PLAYS"
       THEN /\ \E card \in [Missing -> CardIds] :
                 /\ \A p \in Missing : card[p] \in Range(hand[p])
                 /\ waiting' = [p \in Players |-> IF p \in Missing THEN card[p] ELSE waiting[p]]
            /\ resolvers' = IF BothPlayed(waiting') THEN resolvers + 1 ELSE resolvers
       ELSE UNCHANGED <<waiting, resolvers>>
  /\ UNCHANGED <<hp, hand, state, removal, lookup, autoplay, conn, results>>

\* monitorMatch: started after the match is in ActiveMatches, it waits for the signal
\* and then removes the match.
MonitorStarts ==
  /\ monitor = "starting" /\ monitor' = "waiting"
  /\ UNCHANGED <<round, done, active, lookup, autoplay, conn, results>>

MonitorWakes ==
  /\ monitor = "waiting" /\ done
  /\ monitor' = "removing" /\ done' = FALSE
  /\ UNCHANGED <<round, active, lookup, autoplay, conn, results>>

RemoveMatch ==
  /\ monitor = "removing"
  /\ monitor' = "gone" /\ active' = FALSE
  /\ UNCHANGED <<round, done, lookup, autoplay, conn, results>>

----------------------------------------------------------------------------
(* A client leaves: the deferred function of handleConn.                   *)

Disconnect(p) ==
  /\ conn[p] = "online"
  /\ conn' = [conn EXCEPT ![p] = "unsubscribed"]
  /\ UNCHANGED <<round, removal, lookup, autoplay, results>>

\* CleanupPlayer: whoever finds the match still active takes it away and has the
\* opponent told, whether it has ended or not.
CleanupPlayer(p) ==
  /\ conn[p] = "unsubscribed"
  /\ active' = FALSE
  /\ conn' = [conn EXCEPT ![p] = IF active THEN "notifying" ELSE "gone"]
  /\ UNCHANGED <<round, done, monitor, lookup, autoplay, results>>

NotifyOpponent(p) ==
  /\ conn[p] = "notifying"
  /\ conn' = [conn EXCEPT ![p] = "gone"]
  /\ results' = IF conn[Other(p)] = "online"
                  THEN [results EXCEPT ![Other(p)] = @ \cup {"WIN"}] ELSE results
  /\ UNCHANGED <<round, removal, lookup, autoplay>>

----------------------------------------------------------------------------
(* The specification.                                                      *)

\* NewMatch and NewMatchWithCards: full hands, and no auto-play scheduled.
Init ==
  /\ hp = [p \in Players |-> HPStart]
  /\ hand \in [Players -> [1 .. HandSize -> CardIds]]
  /\ waiting = [p \in Players |-> NoCard]
  /\ state = "AWAITING_PLAYS"
  /\ resolvers = 0
  /\ timers = 0
  /\ done = FALSE
  /\ monitor = "starting"
  /\ active = TRUE
  /\ lookup = Idle
  /\ autoplay \in [Players -> BOOLEAN]
  /\ conn = [p \in Players |-> "online"]
  /\ results = [p \in Players |-> {}]

Monitor  == MonitorStarts \/ MonitorWakes \/ RemoveMatch
Leave(p) == CleanupPlayer(p) \/ NotifyOpponent(p)

Next ==
  \/ \E p \in Players, c \in CardIds : FindPlayerMatch(p, c)
  \/ PlayCard
  \/ \E p \in Players, enable \in BOOLEAN : SetAutoPlay(p, enable)
  \/ ResolveRound
  \/ AutoplayIfNeeded
  \/ Monitor
  \/ \E p \in Players : Disconnect(p) \/ Leave(p)

Spec == Init /\ [][Next]_vars

\* Every goroutine goes on; clients need not send anything, nor leave.
Fairness ==
  /\ WF_vars(PlayCard) /\ WF_vars(ResolveRound) /\ WF_vars(AutoplayIfNeeded)
  /\ WF_vars(Monitor)
  /\ \A p \in Players : WF_vars(Leave(p))

FairSpec == Spec /\ Fairness

----------------------------------------------------------------------------
(* Properties.                                                             *)

(* Whenever m.mu is free both hands are full, although a card that is not  *)
(* in the hand, or none at all, may have been laid: auto-play always finds *)
(* a card, and the hands of one match, which share an array after          *)
(* createMatchWithTokenCards, never grow into each other.                  *)
HandsFull == \A p \in Players : Len(hand[p]) = HandSize

(* Once both cards are laid somebody is on the way to resolve the round: a *)
(* play is never swallowed by the race between PlayCard and the auto-play. *)
FullRoundIsResolved == BothPlayed(waiting) => resolvers > 0

(* A match that ended stays so, and nobody who is out of HP comes back,     *)
(* however many plays are still accepted and rounds resolved after the end.  *)
EndIsFinal ==
  [][state = "ENDED" =>
       state' = "ENDED" /\ \A p \in Players : hp[p] <= 0 => hp'[p] <= 0]_vars

(* The results of two players who are both still there agree: whoever is   *)
(* told to have won has an opponent who is out of HP and is not told the    *)
(* same, although rounds are still resolved after the end and the cleanup   *)
(* of a player who leaves publishes a result of its own.                    *)
OneWinner ==
  (\A p \in Players : conn[p] = "online") =>
    \A p \in Players : "WIN" \in results[p] =>
      hp[Other(p)] <= 0 /\ "WIN" \notin results[Other(p)]

(* A match that ended is removed, so both players can be matched again.    *)
EndedIsRemoved == (state = "ENDED") ~> ~active

\* Every player has laid a card or leaves it to the auto-play.
NobodyThinks == \A p \in Players : waiting[p] # NoCard \/ autoplay[p]

(* A scheduled auto-play moves the match on: unless a player who has to    *)
(* think is left, a round gets resolved or the match is over.              *)
AutoplayMovesOn ==
  (timers > 0 /\ NobodyThinks) ~> (resolvers > 0 \/ state = "ENDED" \/ ~NobodyThinks)

(* The comment above resolveRound: a round is resolved when both players   *)
(* have played.                                                             *)
RoundHasBothCards == [][resolvers' < resolvers => BothPlayed(waiting)]_vars

----------------------------------------------------------------------------
(* What makes the properties inductive.                                     *)

\* The match has ended exactly if somebody is out of HP.
EndedIffOut == state = "ENDED" <=> GameOver(hp)
=============================================================================
