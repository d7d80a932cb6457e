---------------------------- MODULE MatchProofs ----------------------------
(***************************************************************************)
(* Proofs about Match, for every card database, hand size and starting HP. *)
(***************************************************************************)
EXTENDS Match, RulesProofs, SeqLemmas

\* A refilled hand is full.
LEMMA RefillFills ==
  ASSUME NEW h \in Seq(CardIds), Len(h) <= HandSize, NEW r \in Refill(h)
  PROVE  r \in Seq(CardIds) /\ Len(r) = HandSize
<1>1. PICK new \in [1 .. HandSize - Len(h) -> CardIds] : r = h \o new
  BY DEF Refill
<1>2. new \in Seq(CardIds) /\ Len(new) = HandSize - Len(h)
  BY HandSizeAssumption, SMT
<1>3. QED  BY <1>1, <1>2, HandSizeAssumption, SMT

\* The state functions of a hand after a round.
LEMMA HandAfterRound ==
  ASSUME NEW h \in Seq(CardIds), Len(h) = HandSize, NEW c, NEW r \in Refill(RemoveFirst(h, c))
  PROVE  r \in Seq(CardIds) /\ Len(r) = HandSize
<1>1. RemoveFirst(h, c) \in Seq(CardIds) /\ Len(RemoveFirst(h, c)) <= HandSize
  BY RemoveFirstLen
<1>2. QED  BY <1>1, RefillFills

\* The types, the full hands and the end of the match, which support each other: a hand
\* is only typed if it is refilled, and it is only full if it was full before.
IInv == TypeOK /\ HandsFull /\ EndedIffOut

LEMMA IInvInit == Init => IInv
<1> SUFFICES ASSUME Init PROVE IInv
  OBVIOUS
<1>1. \A p \in Players : hand[p] \in Seq(CardIds) /\ Len(hand[p]) = HandSize
  BY HandSizeAssumption DEF Init
<1>2. hand \in [Players -> Seq(CardIds)]
  BY <1>1 DEF Init
<1>3. TypeOK
  <2>1. hp \in [Players -> Int] /\ waiting \in [Players -> CardIds \cup {NoCard}]
    BY HPAssumption DEF Init
  <2>2. lookup \in {Idle} \cup (Players \X CardIds)
    BY DEF Init
  <2>3. results \in [Players -> SUBSET Results]
    BY DEF Init
  <2>4. conn \in [Players -> {"online", "unsubscribed", "notifying", "gone"}]
    BY DEF Init
  <2>5. QED  BY <1>2, <2>1, <2>2, <2>3, <2>4 DEF Init, TypeOK
<1>4. HandsFull
  BY <1>1 DEF HandsFull
<1>5. EndedIffOut
  BY HPAssumption DEF Init, EndedIffOut, GameOver
<1>6. QED  BY <1>3, <1>4, <1>5 DEF IInv

LEMMA IInvResolve ==
  ASSUME IInv, ResolveRound
  PROVE  IInv' /\ \A p \in Players : hp'[p] <= hp[p]
<1> USE DEF IInv, TypeOK
<1>1. hp' \in [Players -> Int] /\ \A p \in Players : hp'[p] <= hp[p]
  <2>1. \A p \in Players : DamageDealt(waiting[Other(p)], waiting[p]) \in Nat
    BY DamageTyped
  <2>2. QED  BY <2>1 DEF ResolveRound
<1>2. hand' \in [Players -> Seq(CardIds)] /\ HandsFull'
  <2>1. PICK h1 \in Refill(RemoveFirst(hand[1], waiting[1])),
             h2 \in Refill(RemoveFirst(hand[2], waiting[2])) :
               hand' = [p \in Players |-> IF p = 1 THEN h1 ELSE h2]
    BY DEF ResolveRound
  <2>2. h1 \in Seq(CardIds) /\ Len(h1) = HandSize
    BY HandAfterRound DEF HandsFull, Players
  <2>3. h2 \in Seq(CardIds) /\ Len(h2) = HandSize
    BY HandAfterRound DEF HandsFull, Players
  <2>4. QED  BY <2>1, <2>2, <2>3 DEF HandsFull
<1>3. EndedIffOut'
  BY DEF ResolveRound, EndedIffOut, GameOver
<1>4. /\ state' \in {"AWAITING_PLAYS", "ENDED"}
      /\ resolvers' \in Nat /\ timers' \in Nat
      /\ done' \in BOOLEAN
  <2>1. resolvers' \in Nat
    BY DEF ResolveRound
  <2>2. CASE GameOver(hp')
    BY <2>1, <2>2, Zenon DEF ResolveRound, Signal
  <2>3. CASE ~GameOver(hp')
    <3>1. state' = "AWAITING_PLAYS" /\ done' = done
      BY <2>3, Zenon DEF ResolveRound
    <3>2. timers' \in Nat
      BY <2>3 DEF ResolveRound
    <3>3. QED  BY <2>1, <3>1, <3>2, Zenon
  <2>4. QED  BY <2>2, <2>3
<1>5. results' \in [Players -> SUBSET Results]
  <2>1. CASE GameOver(hp')
    <3>1. \A p \in Players : Result(hp', p) \in Results
      BY DEF Result, Results
    <3>2. PublishResults
      BY <2>1 DEF ResolveRound
    <3>3. QED  BY <3>1, <3>2 DEF PublishResults
  <2>2. CASE ~GameOver(hp')
    BY <2>2 DEF ResolveRound
  <2>3. QED  BY <2>1, <2>2
<1>6. waiting' \in [Players -> CardIds \cup {NoCard}]
  BY DEF ResolveRound
<1>7. UNCHANGED <<monitor, active, lookup, autoplay, conn>>
  BY DEF ResolveRound
<1>8. QED  BY <1>1, <1>2, <1>3, <1>4, <1>5, <1>6, <1>7

\* No other step touches the HP, the hands or the state.
LEMMA IInvOther ==
  ASSUME IInv, [Next]_vars, ~ResolveRound
  PROVE  IInv' /\ UNCHANGED <<hp, hand, state>>
<1> USE DEF IInv, TypeOK, HandsFull, EndedIffOut, GameOver
<1>1. ASSUME NEW p \in Players, NEW c \in CardIds, FindPlayerMatch(p, c)
      PROVE  IInv' /\ UNCHANGED <<hp, hand, state>>
  BY <1>1 DEF FindPlayerMatch, round, removal
<1>2. CASE PlayCard
  <2>1. lookup[1] \in Players /\ lookup[2] \in CardIds
    BY <1>2 DEF PlayCard
  <2>2. QED  BY <1>2, <2>1 DEF PlayCard, removal, Idle
<1>3. ASSUME NEW p \in Players, NEW enable \in BOOLEAN, SetAutoPlay(p, enable)
      PROVE  IInv' /\ UNCHANGED <<hp, hand, state>>
  BY <1>3 DEF SetAutoPlay, round, removal
<1>4. CASE AutoplayIfNeeded
  <2>1. timers' \in Nat /\ resolvers' \in Nat
    BY <1>4 DEF AutoplayIfNeeded
  <2>2. waiting' \in [Players -> CardIds \cup {NoCard}]
    BY <1>4 DEF AutoplayIfNeeded
  <2>3. QED  BY <1>4, <2>1, <2>2 DEF AutoplayIfNeeded, removal
<1>5. CASE Monitor
  BY <1>5 DEF Monitor, MonitorStarts, MonitorWakes, RemoveMatch, round
<1>6. ASSUME NEW p \in Players, Disconnect(p) \/ Leave(p)
      PROVE  IInv' /\ UNCHANGED <<hp, hand, state>>
  <2>1. UNCHANGED <<round, lookup, autoplay, done, monitor>> /\ active' \in BOOLEAN
    BY <1>6, Zenon DEF Disconnect, Leave, CleanupPlayer, NotifyOpponent, removal
  <2>2. conn' \in [Players -> {"online", "unsubscribed", "notifying", "gone"}]
    BY <1>6 DEF Disconnect, Leave, CleanupPlayer, NotifyOpponent
  <2>3. results' \in [Players -> SUBSET Results]
    BY <1>6 DEF Disconnect, Leave, CleanupPlayer, NotifyOpponent, Results
  <2>4. QED  BY <2>1, <2>2, <2>3 DEF round
<1>7. CASE UNCHANGED vars
  BY <1>7 DEF vars, round, removal
<1>8. QED  BY <1>1, <1>2, <1>3, <1>4, <1>5, <1>6, <1>7 DEF Next

LEMMA IInvNext == IInv /\ [Next]_vars => IInv'
BY IInvResolve, IInvOther

LEMMA Invariance == Spec => []IInv
<1>1. QED  BY IInvInit, IInvNext, PTL DEF Spec

(* Every variable of a match keeps its type, for every card database: a    *)
(* hand holds nothing but cards of the database.                           *)
THEOREM TypeCorrect == Spec => []TypeOK
<1>1. IInv => TypeOK
  BY DEF IInv
<1>2. QED  BY <1>1, Invariance, PTL

(* Both hands are full whenever m.mu is free, whatever has been played.    *)
THEOREM HandsStayFull == Spec => []HandsFull
<1>1. IInv => HandsFull
  BY DEF IInv
<1>2. QED  BY <1>1, Invariance, PTL

(* No step brings a match that ended back to life: the only step that      *)
(* writes the state and the HP only lowers the HP.                          *)
THEOREM MatchEndsOnce == Spec => EndIsFinal
<1>1. IInv /\ [Next]_vars =>
        [state = "ENDED" =>
           state' = "ENDED" /\ \A p \in Players : hp[p] <= 0 => hp'[p] <= 0]_vars
  <2> SUFFICES ASSUME IInv, [Next]_vars, state = "ENDED"
               PROVE  state' = "ENDED" /\ \A p \in Players : hp[p] <= 0 => hp'[p] <= 0
    OBVIOUS
  <2>1. CASE ResolveRound
    <3>1. IInv' /\ \A p \in Players : hp'[p] <= hp[p]
      BY <2>1, IInvResolve
    <3>2. hp \in [Players -> Int] /\ hp' \in [Players -> Int]
      BY <3>1 DEF IInv, TypeOK
    <3>3. \A p \in Players : hp[p] <= 0 => hp'[p] <= 0
      BY <3>1, <3>2
    <3>4. GameOver(hp)
      BY DEF IInv, EndedIffOut
    <3>5. GameOver(hp')
      BY <3>3, <3>4 DEF GameOver
    <3>6. QED  BY <3>1, <3>3, <3>5 DEF IInv, EndedIffOut
  <2>2. CASE ~ResolveRound
    BY <2>2, IInvOther
  <2>3. QED  BY <2>1, <2>2
<1>2. QED  BY <1>1, Invariance, PTL DEF Spec, EndIsFinal

(* A round with both cards laid always has a goroutine that will resolve    *)
(* it, for every bound on how many wait.                                     *)
THEOREM FullRoundsAreResolved == Spec => []FullRoundIsResolved
<1>1. Init => FullRoundIsResolved
  BY DEF Init, FullRoundIsResolved, BothPlayed, Players
<1>2. IInv /\ FullRoundIsResolved /\ [Next]_vars => FullRoundIsResolved'
  <2> SUFFICES ASSUME IInv, FullRoundIsResolved, [Next]_vars
               PROVE  FullRoundIsResolved'
    OBVIOUS
  <2> USE DEF FullRoundIsResolved
  <2>1. resolvers \in Nat
    BY DEF IInv, TypeOK
  <2>2. CASE ResolveRound
    BY <2>2 DEF ResolveRound, BothPlayed, Players
  <2>3. CASE PlayCard
    BY <2>3, <2>1 DEF PlayCard
  <2>4. CASE AutoplayIfNeeded
    <3>1. CASE state = "AWAITING_PLAYS"
      BY <2>4, <2>1, <3>1 DEF AutoplayIfNeeded
    <3>2. CASE state # "AWAITING_PLAYS"
      BY <2>4, <3>2 DEF AutoplayIfNeeded, BothPlayed
    <3>3. QED  BY <3>1, <3>2
  <2>5. CASE ~ResolveRound /\ ~PlayCard /\ ~AutoplayIfNeeded
    <3>1. UNCHANGED <<waiting, resolvers>>
      BY <2>5 DEF Next, vars, round, FindPlayerMatch, SetAutoPlay, Monitor, MonitorStarts,
                  MonitorWakes, RemoveMatch, Disconnect, Leave, CleanupPlayer, NotifyOpponent
    <3>2. QED  BY <3>1 DEF BothPlayed
  <2>6. QED  BY <2>2, <2>3, <2>4, <2>5
<1>3. QED  BY <1>1, <1>2, Invariance, PTL DEF Spec

(* Two players who are still there never both learn that they won.  Once a *)
(* winner is told, the opponent is out of HP for good, so that no later     *)
(* round lets the opponent win.                                              *)
THEOREM NeverTwoWinners == Spec => []OneWinner
<1>1. Init => OneWinner
  BY DEF Init, OneWinner
<1>2. IInv /\ OneWinner /\ [Next]_vars => OneWinner'
  <2> SUFFICES ASSUME IInv, OneWinner, [Next]_vars,
                      \A q \in Players : conn'[q] = "online",
                      NEW p \in Players, "WIN" \in results'[p]
               PROVE  hp'[Other(p)] <= 0 /\ "WIN" \notin results'[Other(p)]
    BY DEF OneWinner
  <2>1. Other(p) \in Players /\ Other(Other(p)) = p /\ Other(p) # p
    BY DEF Players, Other
  <2>2. conn \in [Players -> {"online", "unsubscribed", "notifying", "gone"}]
        /\ results \in [Players -> SUBSET Results]
    BY DEF IInv, TypeOK
  <2>3. CASE ResolveRound
    <3>1. IInv' /\ \A q \in Players : hp'[q] <= hp[q]
      BY <2>3, IInvResolve
    <3>2. hp \in [Players -> Int] /\ hp' \in [Players -> Int]
      BY <3>1 DEF IInv, TypeOK
    <3>3. \A q \in Players : conn[q] = "online"
      BY <2>3 DEF ResolveRound
    <3>4. CASE GameOver(hp')
      <4>1. \A q \in Players : results'[q] = results[q] \cup {Result(hp', q)}
        BY <2>3, <3>3, <3>4 DEF ResolveRound, PublishResults
      <4>2. \A q \in Players : "WIN" \in results'[q] => hp'[Other(q)] <= 0
        <5> SUFFICES ASSUME NEW q \in Players, "WIN" \in results'[q]
                     PROVE  hp'[Other(q)] <= 0
          OBVIOUS
        <5>1. Other(q) \in Players
          BY DEF Players, Other
        <5>2. CASE "WIN" \in results[q]
          BY <3>1, <3>2, <3>3, <5>1, <5>2 DEF OneWinner
        <5>3. CASE Result(hp', q) = "WIN"
          BY <3>2, <3>4, <5>1, <5>3 DEF Result, GameOver, Players, Other
        <5>4. QED  BY <4>1, <5>2, <5>3
      <4>3. "WIN" \notin results'[Other(p)]
        <5> SUFFICES ASSUME "WIN" \in results'[Other(p)] PROVE FALSE
          OBVIOUS
        <5>1. hp'[p] <= 0 /\ hp'[Other(p)] <= 0
          BY <2>1, <4>2
        <5>2. Result(hp', p) # "WIN" /\ Result(hp', Other(p)) # "WIN"
          BY <2>1, <5>1 DEF Result
        <5>3. QED  BY <2>1, <3>3, <4>1, <5>2 DEF OneWinner
      <4>4. QED  BY <4>2, <4>3
    <3>5. CASE ~GameOver(hp')
      BY <2>1, <2>3, <3>1, <3>2, <3>3, <3>5 DEF ResolveRound, OneWinner
    <3>6. QED  BY <3>4, <3>5
  <2>4. CASE ~ResolveRound
    <3>1. UNCHANGED <<hp, hand, state>>
      BY <2>4, IInvOther
    <3>2. UNCHANGED <<conn, results>>
      BY <2>1, <2>2, <2>4 DEF Next, vars, FindPlayerMatch, PlayCard, SetAutoPlay, AutoplayIfNeeded,
             Monitor, MonitorStarts, MonitorWakes, RemoveMatch, Disconnect, Leave, CleanupPlayer,
             NotifyOpponent
    <3>3. QED  BY <2>1, <3>1, <3>2 DEF OneWinner
  <2>5. QED  BY <2>3, <2>4
<1>3. QED  BY <1>1, <1>2, Invariance, PTL DEF Spec
=============================================================================
