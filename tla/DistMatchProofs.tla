-------------------------- MODULE DistMatchProofs --------------------------
(***************************************************************************)
(* Proofs about DistMatch, for every card database, starting HP, bound and  *)
(* choice of who may play automatically: a play is never made twice, and    *)
(* the two replicas of an undisturbed match stay in step and agree.          *)
(***************************************************************************)
EXTENDS DistMatch, RulesProofs, FiniteSetTheorems

\* A member of a finite set is exchanged for another element.
LEMMA Exchange ==
  ASSUME NEW S, IsFiniteSet(S), NEW x \in S, NEW y
  PROVE  /\ IsFiniteSet((S \ {x}) \cup {y}) /\ IsFiniteSet(S \ {x})
         /\ Cardinality((S \ {x}) \cup {y}) <= Cardinality(S)
         /\ Cardinality(S \ {x}) + 1 = Cardinality(S)
         /\ Cardinality(S) \in Nat /\ Cardinality(S \ {x}) \in Nat
<1>1. IsFiniteSet(S \ {x}) /\ Cardinality(S \ {x}) = Cardinality(S) - 1
  BY FS_RemoveElement
<1>2. /\ IsFiniteSet((S \ {x}) \cup {y})
      /\ Cardinality((S \ {x}) \cup {y}) =
           IF y \in S \ {x} THEN Cardinality(S \ {x}) ELSE Cardinality(S \ {x}) + 1
  BY <1>1, FS_AddElement
<1>3. Cardinality(S) \in Nat /\ Cardinality(S \ {x}) \in Nat
  BY <1>1, FS_CardinalityType
<1>4. QED  BY <1>1, <1>2, <1>3

----------------------------------------------------------------------------
(* What holds however disturbed the match is.                               *)

AnyMatch == TypeOK /\ EachOnce /\ PlaysBounded

LEMMA TransitFinite ==
  ASSUME EachOnce
  PROVE  \A p \in Players : IsFiniteSet(Transit(p)) /\ Cardinality(Transit(p)) \in Nat
<1>1. \A p \in Players : IsFiniteSet(Transit(p))
  BY FS_Subset DEF EachOnce, Transit
<1>2. QED  BY <1>1, FS_CardinalityType

LEMMA AnyMatchInit == Init => AnyMatch
<1> SUFFICES ASSUME Init PROVE AnyMatch
  OBVIOUS
<1>1. TypeOK
  <2>1. /\ hp \in [Servers -> [Players -> Int]]
        /\ waiting \in [Servers -> [Players -> CardIds \cup {NoCard}]]
        /\ applied \in [Servers -> [Players -> Nat]]
    BY HPAssumption DEF Init
  <2>2. /\ state \in [Servers -> {"AWAITING_PLAYS", "ENDED"}]
        /\ rounds \in [Servers -> Nat] /\ resolvers \in [Servers -> Nat]
        /\ timers \in [Servers -> Nat] /\ lookup \in [Servers -> CardIds \cup {NoCard}]
        /\ life \in [Servers -> {"none", "active", "gone"}]
        /\ results \in [Players -> SUBSET Results]
    BY DEF Init
  <2>3. autoplay \in SUBSET Players /\ online \in SUBSET Players /\ missed \in BOOLEAN
    BY AutoplayersAssumption DEF Init
  <2>4. lost \in 0 .. MaxLost /\ leaves \in 0 .. MaxLeaves /\ forwards \subseteq Forwards
    BY BoundsAssumption DEF Init
  <2>5. QED  BY <2>1, <2>2, <2>3, <2>4 DEF TypeOK
<1>2. EachOnce
  <2>1. \A p \in Players : Transit(p) = {}
    BY DEF Init, Transit
  <2>2. \A p \in Players : applied[p][p] = 0 /\ applied[Other(p)][p] = 0
    BY Opponents DEF Init, Servers
  <2>3. /\ forwards = {} /\ IsFiniteSet({}) /\ Cardinality({}) = 0
    BY FS_EmptySet DEF Init
  <2>4. \A p \in Players : applied[Other(p)][p] + Cardinality(Transit(p)) <= applied[p][p]
    BY <2>1, <2>2, <2>3
  <2>5. QED  BY <2>3, <2>4 DEF EachOnce
<1>3. PlaysBounded
  BY BoundsAssumption DEF Init, PlaysBounded, Servers
<1>4. QED  BY <1>1, <1>2, <1>3 DEF AnyMatch

\* The steps that only touch the life of a replica and the connections.
Quiet ==
  \/ CreateDistributedMatchAsHost \/ MonitorMatch
  \/ \E p \in Players : CleanupPlayer(p)

LEMMA QuietSteps ==
  ASSUME AnyMatch, Quiet
  PROVE  /\ AnyMatch'
         /\ UNCHANGED <<replicas, lookup, forwards, applied, missed, autoplay, results>>
<1>1. UNCHANGED <<replicas, lookup, forwards, applied, missed, autoplay, results, lost>>
  BY DEF Quiet, CreateDistributedMatchAsHost, MonitorMatch, CleanupPlayer, clients
<1>2. /\ life' \in [Servers -> {"none", "active", "gone"}]
      /\ online' \in SUBSET Players
  BY DEF AnyMatch, TypeOK, Quiet, CreateDistributedMatchAsHost, MonitorMatch, CleanupPlayer, clients
<1>3. leaves' \in 0 .. MaxLeaves
  <2>1. leaves \in 0 .. MaxLeaves
    BY DEF AnyMatch, TypeOK
  <2>2. leaves' = leaves \/ (leaves < MaxLeaves /\ leaves' = leaves + 1)
    BY DEF Quiet, CreateDistributedMatchAsHost, MonitorMatch, CleanupPlayer, clients
  <2>3. QED  BY <2>1, <2>2, BoundsAssumption
<1>4. TypeOK'
  BY <1>1, <1>2, <1>3 DEF AnyMatch, TypeOK, replicas
<1>5. EachOnce' /\ PlaysBounded'
  BY <1>1 DEF AnyMatch, EachOnce, PlaysBounded, Transit
<1>6. QED  BY <1>1, <1>4, <1>5 DEF AnyMatch

LEMMA FindPlayerMatchAny ==
  ASSUME AnyMatch, NEW p \in Players, NEW c \in CardIds, FindPlayerMatch(p, c)
  PROVE  AnyMatch'
<1>1. /\ UNCHANGED <<replicas, life, forwards, applied, missed, clients, lost>>
      /\ lookup' = [lookup EXCEPT ![p] = c] /\ applied[p][p] < MaxPlays
  BY DEF FindPlayerMatch
<1>2. TypeOK'
  BY <1>1 DEF AnyMatch, TypeOK, replicas, clients, Servers
<1>3. EachOnce'
  BY <1>1 DEF AnyMatch, EachOnce, Transit
<1>4. PlaysBounded'
  <2> SUFFICES ASSUME NEW q \in Players
               PROVE  /\ applied'[q][q] <= MaxPlays
                      /\ lookup'[q] # NoCard => applied'[q][q] < MaxPlays
    BY DEF PlaysBounded
  <2>1. q = p \/ lookup'[q] = lookup[q]
    BY <1>1 DEF AnyMatch, TypeOK, Servers
  <2>2. QED  BY <1>1, <2>1 DEF AnyMatch, PlaysBounded
<1>5. QED  BY <1>2, <1>3, <1>4 DEF AnyMatch

\* PlayCard on a replica.
LEMMA LayCardTyped ==
  ASSUME TypeOK, NEW s \in Servers, NEW p \in Players, NEW c \in CardIds, LayCard(s, p, c)
  PROVE  /\ waiting' \in [Servers -> [Players -> CardIds \cup {NoCard}]]
         /\ applied' \in [Servers -> [Players -> Nat]]
         /\ resolvers' \in [Servers -> Nat]
         /\ waiting'[s][p] = c /\ applied'[s][p] = applied[s][p] + 1
         /\ resolvers'[s] = IF BothPlayed(waiting'[s]) THEN resolvers[s] + 1 ELSE resolvers[s]
         /\ \A t \in Servers, q \in Players :
              t # s \/ q # p => waiting'[t][q] = waiting[t][q] /\ applied'[t][q] = applied[t][q]
         /\ \A t \in Servers : t # s => /\ waiting'[t] = waiting[t] /\ resolvers'[t] = resolvers[t]
<1>1. /\ waiting \in [Servers -> [Players -> CardIds \cup {NoCard}]]
      /\ applied \in [Servers -> [Players -> Nat]] /\ resolvers \in [Servers -> Nat]
  BY DEF TypeOK
<1>2. waiting[s] \in [Players -> CardIds \cup {NoCard}] /\ applied[s] \in [Players -> Nat]
  BY <1>1
<1>3. /\ DOMAIN waiting' = Servers /\ waiting'[s] = [waiting[s] EXCEPT ![p] = c]
      /\ \A t \in Servers : t # s => waiting'[t] = waiting[t]
  BY <1>1, <1>2 DEF LayCard
<1>4. /\ applied' \in [Servers -> [Players -> Nat]]
      /\ applied'[s] = [applied[s] EXCEPT ![p] = @ + 1]
      /\ \A t \in Servers : t # s => applied'[t] = applied[t]
  BY <1>1, <1>2 DEF LayCard
<1>5. /\ resolvers' \in [Servers -> Nat]
      /\ \A t \in Servers : t # s => resolvers'[t] = resolvers[t]
      /\ resolvers'[s] = IF BothPlayed(waiting'[s]) THEN resolvers[s] + 1 ELSE resolvers[s]
  BY <1>1 DEF LayCard
<1>6. /\ waiting'[s] \in [Players -> CardIds \cup {NoCard}] /\ waiting'[s][p] = c
      /\ applied'[s] \in [Players -> Nat] /\ applied'[s][p] = applied[s][p] + 1
      /\ \A q \in Players : q # p => waiting'[s][q] = waiting[s][q] /\ applied'[s][q] = applied[s][q]
  BY <1>2, <1>3, <1>4
<1>7. waiting' \in [Servers -> [Players -> CardIds \cup {NoCard}]]
  <2>1. waiting' = [t \in Servers |-> waiting'[t]]
    BY <1>1 DEF LayCard
  <2>2. QED  BY <1>1, <1>3, <1>6, <2>1
<1>8. QED  BY <1>3, <1>4, <1>5, <1>6, <1>7

LEMMA PlayCardAny ==
  ASSUME AnyMatch, NEW p \in Players, PlayCard(p)
  PROVE  AnyMatch'
<1> DEFINE m == [at |-> p, player |-> p, n |-> applied'[p][p], card |-> lookup[p],
                 stage |-> "spawned"]
<1>1. /\ lookup[p] # NoCard /\ LayCard(p, p, lookup[p])
      /\ forwards' = forwards \cup {m}
      /\ lookup' = [lookup EXCEPT ![p] = NoCard]
      /\ UNCHANGED <<hp, state, rounds, timers, life, missed, clients, lost>>
  BY DEF PlayCard
<1>2. lookup[p] \in CardIds
  BY <1>1 DEF AnyMatch, TypeOK, Servers
<1>3. /\ waiting' \in [Servers -> [Players -> CardIds \cup {NoCard}]]
      /\ applied' \in [Servers -> [Players -> Nat]]
      /\ resolvers' \in [Servers -> Nat]
      /\ applied'[p][p] = applied[p][p] + 1
      /\ \A t \in Servers, q \in Players : t # p \/ q # p => applied'[t][q] = applied[t][q]
  BY <1>1, <1>2, LayCardTyped DEF AnyMatch, Servers
<1>4. applied[p][p] \in Nat /\ applied[p][p] < MaxPlays
  BY <1>1 DEF AnyMatch, TypeOK, PlaysBounded, Servers
<1>5. m \in Forwards
  BY <1>2, <1>3, <1>4, BoundsAssumption DEF Forwards, Servers
<1>6. TypeOK'
  <2>1. forwards' \subseteq Forwards
    BY <1>1, <1>5 DEF AnyMatch, TypeOK
  <2>2. lookup' \in [Servers -> CardIds \cup {NoCard}]
    BY <1>1 DEF AnyMatch, TypeOK
  <2> HIDE DEF m
  <2>3. QED  BY <1>1, <1>3, <2>1, <2>2 DEF AnyMatch, TypeOK, clients
<1>7. EachOnce'
  <2>1. \A q \in Players : Transit(q)' = IF q = p THEN Transit(p) \cup {m} ELSE Transit(q)
    BY <1>1 DEF Transit
  <2>2. IsFiniteSet(forwards')
    BY <1>1, FS_AddElement DEF AnyMatch, EachOnce
  <2>3. \A q \in Players : applied'[Other(q)][q] + Cardinality(Transit(q)') <= applied'[q][q]
    <3> SUFFICES ASSUME NEW q \in Players
                 PROVE  applied'[Other(q)][q] + Cardinality(Transit(q)') <= applied'[q][q]
      OBVIOUS
    <3>1. applied'[Other(q)][q] = applied[Other(q)][q] /\ applied[Other(q)][q] \in Nat
      BY <1>3, Opponents DEF AnyMatch, TypeOK, Servers
    <3>2. applied[Other(q)][q] + Cardinality(Transit(q)) <= applied[q][q]
      BY DEF AnyMatch, EachOnce
    <3>3. CASE q = p
      <4>1. /\ Cardinality(Transit(p) \cup {m}) =
                 IF m \in Transit(p) THEN Cardinality(Transit(p)) ELSE Cardinality(Transit(p)) + 1
            /\ Cardinality(Transit(p)) \in Nat
        BY TransitFinite, FS_AddElement DEF AnyMatch
      <4>2. Cardinality(Transit(q)') <= Cardinality(Transit(p)) + 1 /\ Cardinality(Transit(q)') \in Nat
        BY <2>1, <3>3, <4>1
      <4>3. applied'[q][q] = applied[q][q] + 1 /\ applied[q][q] \in Nat
        BY <1>3, <1>4, <3>3
      <4>4. QED  BY <3>1, <3>2, <3>3, <4>1, <4>2, <4>3
    <3>4. CASE q # p
      BY <1>3, <2>1, <3>1, <3>2, <3>4 DEF Servers
    <3>5. QED  BY <3>3, <3>4
  <2>4. QED  BY <1>1, <2>2, <2>3 DEF AnyMatch, EachOnce
<1>8. PlaysBounded'
  <2> SUFFICES ASSUME NEW q \in Players
               PROVE  /\ applied'[q][q] <= MaxPlays
                      /\ lookup'[q] # NoCard => applied'[q][q] < MaxPlays
    BY DEF PlaysBounded
  <2>1. CASE q = p
    <3>1. lookup'[q] = NoCard
      BY <1>1, <2>1 DEF AnyMatch, TypeOK, Servers
    <3>2. QED  BY <1>3, <1>4, <2>1, <3>1, BoundsAssumption
  <2>2. CASE q # p
    <3>1. lookup'[q] = lookup[q] /\ applied'[q][q] = applied[q][q]
      BY <1>1, <1>3, <2>2 DEF AnyMatch, TypeOK, Servers
    <3>2. QED  BY <3>1 DEF AnyMatch, PlaysBounded
  <2>3. QED  BY <2>1, <2>2
<1>9. QED  BY <1>6, <1>7, <1>8 DEF AnyMatch

\* A play goes on to the next stage of its way.
LEMMA Staged ==
  ASSUME AnyMatch, NEW m \in forwards, m.at = m.player, NEW st \in {"posted", "found"},
         forwards' = (forwards \ {m}) \cup {[m EXCEPT !.stage = st]}, applied' = applied
  PROVE  /\ EachOnce' /\ forwards' \subseteq Forwards
         /\ \A q \in Players :
              Transit(q)' = IF q = m.player THEN (Transit(q) \ {m}) \cup {[m EXCEPT !.stage = st]}
                                            ELSE Transit(q)
<1> DEFINE next == [m EXCEPT !.stage = st]
<1>1. m \in Forwards /\ forwards \subseteq Forwards
  BY DEF AnyMatch, TypeOK
<1>2. /\ next \in Forwards /\ next.at = m.at /\ next.player = m.player /\ next.stage = st
  BY <1>1 DEF Forwards
<1>3. forwards' = (forwards \ {m}) \cup {next}
  OBVIOUS
<1> HIDE DEF next
<1>4. \A q \in Players : Transit(q)' = IF q = m.player THEN (Transit(q) \ {m}) \cup {next}
                                                       ELSE Transit(q)
  BY <1>2, <1>3 DEF Transit
<1>5. IsFiniteSet(forwards')
  <2>1. IsFiniteSet(forwards)
    BY DEF AnyMatch, EachOnce
  <2>2. IsFiniteSet((forwards \ {m}) \cup {next})
    BY <2>1, Exchange
  <2>3. QED  BY <1>3, <2>2
<1>6. \A q \in Players : applied'[Other(q)][q] + Cardinality(Transit(q)') <= applied'[q][q]
  <2> SUFFICES ASSUME NEW q \in Players
               PROVE  applied[Other(q)][q] + Cardinality(Transit(q)') <= applied[q][q]
    OBVIOUS
  <2>1. applied[Other(q)][q] + Cardinality(Transit(q)) <= applied[q][q]
    BY DEF AnyMatch, EachOnce
  <2>2. applied[Other(q)][q] \in Nat /\ applied[q][q] \in Nat
    BY Opponents DEF AnyMatch, TypeOK, Servers
  <2>3. CASE q = m.player
    <3>1. m \in Transit(q) /\ IsFiniteSet(Transit(q))
      BY <2>3, TransitFinite DEF AnyMatch, Transit
    <3>2. Transit(q)' = (Transit(q) \ {m}) \cup {next}
      BY <1>4, <2>3
    <3>3. Cardinality(Transit(q)') <= Cardinality(Transit(q)) /\ Cardinality(Transit(q)) \in Nat
          /\ Cardinality(Transit(q)') \in Nat
      BY <3>1, <3>2, Exchange, FS_CardinalityType
    <3>4. QED  BY <2>1, <2>2, <3>3
  <2>4. CASE q # m.player
    BY <1>4, <2>1, <2>4
  <2>5. QED  BY <2>3, <2>4
<1>7. EachOnce'
  BY <1>2, <1>3, <1>5, <1>6 DEF AnyMatch, EachOnce
<1>8. QED  BY <1>1, <1>2, <1>3, <1>4, <1>7 DEF next

\* A play goes no further.
LEMMA Dropped ==
  ASSUME AnyMatch, NEW m \in forwards, forwards' = forwards \ {m}, applied' = applied
  PROVE  /\ EachOnce' /\ forwards' \subseteq Forwards
         /\ \A q \in Players : Transit(q)' = Transit(q) \ {m}
<1>1. \A q \in Players : Transit(q)' = Transit(q) \ {m}
  BY DEF Transit
<1>2. IsFiniteSet(forwards') /\ forwards' \subseteq Forwards
  BY FS_Subset DEF AnyMatch, EachOnce, TypeOK
<1>3. \A q \in Players : applied'[Other(q)][q] + Cardinality(Transit(q)') <= applied'[q][q]
  <2> SUFFICES ASSUME NEW q \in Players
               PROVE  applied[Other(q)][q] + Cardinality(Transit(q)') <= applied[q][q]
    OBVIOUS
  <2>1. applied[Other(q)][q] + Cardinality(Transit(q)) <= applied[q][q]
    BY DEF AnyMatch, EachOnce
  <2>2. applied[Other(q)][q] \in Nat /\ applied[q][q] \in Nat
    BY Opponents DEF AnyMatch, TypeOK, Servers
  <2>3. IsFiniteSet(Transit(q)) /\ Transit(q)' \subseteq Transit(q)
    BY <1>1, TransitFinite DEF AnyMatch
  <2>4. /\ Cardinality(Transit(q)') <= Cardinality(Transit(q))
        /\ Cardinality(Transit(q)) \in Nat /\ Cardinality(Transit(q)') \in Nat
    BY <2>3, FS_Subset, FS_CardinalityType
  <2>5. QED  BY <2>1, <2>2, <2>4
<1>4. QED  BY <1>1, <1>2, <1>3 DEF AnyMatch, EachOnce

\* The steps of a play on its way that make it on no replica.
OnTheWay(m) == ForwardPlay(m) \/ NotForwarded(m) \/ ForwardFails(m) \/ FindMatchByID(m)

LEMMA OnTheWaySteps ==
  ASSUME AnyMatch, NEW m \in forwards, OnTheWay(m)
  PROVE  /\ AnyMatch'
         /\ UNCHANGED <<replicas, life, lookup, applied, clients>>
         /\ missed => missed'
         /\ \/ missed'
            \/ \A q \in Players : Transit(q)' = Transit(q)
            \/ \E st \in {"posted", "found"} : m.at = m.player /\ \A q \in Players :
                 Transit(q)' = IF q = m.player THEN (Transit(q) \ {m}) \cup {[m EXCEPT !.stage = st]}
                                               ELSE Transit(q)
<1>1. UNCHANGED <<replicas, life, lookup, applied, clients>> /\ missed' \in BOOLEAN /\ (missed => missed')
  BY DEF AnyMatch, TypeOK, OnTheWay, ForwardPlay, NotForwarded, ForwardFails, FindMatchByID
<1>2. lost' \in 0 .. MaxLost
  <2>1. lost \in 0 .. MaxLost
    BY DEF AnyMatch, TypeOK
  <2>2. lost' = lost \/ (lost < MaxLost /\ lost' = lost + 1)
    BY DEF OnTheWay, ForwardPlay, NotForwarded, ForwardFails, FindMatchByID
  <2>3. QED  BY <2>1, <2>2, BoundsAssumption
<1>3. ASSUME EachOnce', forwards' \subseteq Forwards PROVE AnyMatch'
  <2>1. PlaysBounded'
    BY <1>1 DEF AnyMatch, PlaysBounded
  <2>2. TypeOK'
    BY <1>1, <1>2, <1>3 DEF AnyMatch, TypeOK, replicas, clients
  <2>3. QED  BY <1>3, <2>1, <2>2 DEF AnyMatch
<1>4. CASE \E st \in {"posted", "found"} :
             m.at = m.player /\ forwards' = (forwards \ {m}) \cup {[m EXCEPT !.stage = st]}
  BY <1>1, <1>3, <1>4, Staged
<1>5. CASE forwards' = forwards \ {m} /\ (missed' \/ m.at # m.player)
  <2>1. AnyMatch' /\ \A q \in Players : Transit(q)' = Transit(q) \ {m}
    BY <1>1, <1>3, <1>5, Dropped
  <2>2. m.at # m.player => \A q \in Players : m \notin Transit(q)
    BY DEF Transit
  <2>3. QED  BY <1>1, <1>5, <2>1, <2>2
<1>6. QED
  <2>1. CASE ForwardPlay(m)
    BY <1>4, <2>1 DEF ForwardPlay, IsForwarded
  <2>2. CASE NotForwarded(m) \/ ForwardFails(m)
    BY <1>5, <2>2 DEF NotForwarded, ForwardFails
  <2>3. CASE FindMatchByID(m)
    <3>1. m.at = m.player
      BY <2>3 DEF AnyMatch, EachOnce, FindMatchByID
    <3>2. QED  BY <1>4, <1>5, <2>3, <3>1 DEF FindMatchByID
  <2>4. QED  BY <2>1, <2>2, <2>3 DEF OnTheWay

LEMMA PlayForwardedCardAny ==
  ASSUME AnyMatch, NEW m \in forwards, PlayForwardedCard(m)
  PROVE  /\ AnyMatch'
         /\ m.at = m.player /\ m.player \in Players /\ m.card \in CardIds
         /\ \A q \in Players : Transit(q)' = Transit(q) \ {m}
<1> DEFINE p == m.player
           o == Other(m.player)
           echo == [m EXCEPT !.at = o, !.stage = "spawned"]
<1>1. /\ m.stage = "found" /\ LayCard(o, p, m.card)
      /\ forwards' = (forwards \ {m}) \cup {echo}
      /\ UNCHANGED <<hp, state, rounds, timers, life, lookup, missed, clients, lost>>
  BY DEF PlayForwardedCard
<1>2. m \in Forwards /\ m.at = m.player
  BY <1>1 DEF AnyMatch, TypeOK, EachOnce
<1>3. /\ p \in Players /\ o \in Players /\ o # p /\ m.card \in CardIds
      /\ \A q \in Players : q = p \/ q = o
  BY <1>2, Opponents DEF Forwards
<1>4. /\ echo \in Forwards /\ echo.player = p /\ echo.at = o /\ echo.stage = "spawned"
  BY <1>2, <1>3 DEF Forwards, Servers
<1>5. /\ waiting' \in [Servers -> [Players -> CardIds \cup {NoCard}]]
      /\ applied' \in [Servers -> [Players -> Nat]]
      /\ resolvers' \in [Servers -> Nat]
      /\ applied'[o][p] = applied[o][p] + 1
      /\ \A t \in Servers, q \in Players : t # o \/ q # p => applied'[t][q] = applied[t][q]
  BY <1>1, <1>3, LayCardTyped DEF AnyMatch, Servers
<1> HIDE DEF echo, p, o
<1>6. TypeOK'
  <2>1. forwards' \subseteq Forwards
    BY <1>1, <1>4 DEF AnyMatch, TypeOK
  <2>2. QED  BY <1>1, <1>5, <2>1 DEF AnyMatch, TypeOK, clients
<1>7. \A q \in Players : Transit(q)' = Transit(q) \ {m}
  BY <1>1, <1>3, <1>4 DEF Transit
<1>8. EachOnce'
  <2>1. IsFiniteSet(forwards')
    <3>1. IsFiniteSet(forwards)
      BY DEF AnyMatch, EachOnce
    <3>2. IsFiniteSet((forwards \ {m}) \cup {echo})
      BY <3>1, Exchange
    <3>3. QED  BY <1>1, <3>2
  <2>2. ASSUME NEW q \in Players
        PROVE  applied'[Other(q)][q] + Cardinality(Transit(q)') <= applied'[q][q]
    <3>1. applied[Other(q)][q] + Cardinality(Transit(q)) <= applied[q][q]
      BY DEF AnyMatch, EachOnce
    <3>2. applied[Other(q)][q] \in Nat /\ applied[q][q] \in Nat
      BY Opponents DEF AnyMatch, TypeOK, Servers
    <3>3. IsFiniteSet(Transit(q)) /\ Cardinality(Transit(q)) \in Nat
      BY TransitFinite DEF AnyMatch
    <3>4. CASE q = p
      <4>1. m \in Transit(q)
        BY <1>2, <3>4 DEF Transit, p
      <4>2. Cardinality(Transit(q)') + 1 = Cardinality(Transit(q)) /\ Cardinality(Transit(q)') \in Nat
        BY <1>7, <3>3, <4>1, Exchange
      <4>3. applied'[Other(q)][q] = applied[Other(q)][q] + 1 /\ applied'[q][q] = applied[q][q]
        BY <1>3, <1>5, <3>4 DEF Servers, o, p
      <4>4. QED  BY <3>1, <3>2, <3>3, <4>2, <4>3
    <3>5. CASE q # p
      <4>1. m \notin Transit(q)
        BY <1>2, <3>5 DEF Transit, p
      <4>2. Transit(q)' = Transit(q)
        BY <1>7, <4>1
      <4>3. applied'[Other(q)][q] = applied[Other(q)][q] /\ applied'[q][q] = applied[q][q]
        BY <1>5, <3>5, Opponents DEF Servers
      <4>4. QED  BY <3>1, <4>2, <4>3
    <3>6. QED  BY <3>4, <3>5
  <2>3. \A f \in forwards' : f.stage # "spawned" => f.at = f.player
    BY <1>1, <1>4 DEF AnyMatch, EachOnce
  <2>4. QED  BY <2>1, <2>2, <2>3 DEF EachOnce
<1>9. PlaysBounded'
  <2>1. \A q \in Players : applied'[q][q] = applied[q][q] /\ lookup'[q] = lookup[q]
    BY <1>1, <1>3, <1>5 DEF Servers
  <2>2. QED  BY <2>1 DEF AnyMatch, PlaysBounded
<1>10. QED  BY <1>2, <1>3, <1>6, <1>7, <1>8, <1>9 DEF AnyMatch, p

LEMMA HurtTyped ==
  ASSUME TypeOK, NEW s \in Servers
  PROVE  Hurt(s) \in [Players -> Int]
<1>1. \A p \in Players : DamageDealt(waiting[s][Other(p)], waiting[s][p]) \in Nat
  BY DamageTyped
<1>2. \A p \in Players : hp[s][p] \in Int
  BY DEF TypeOK
<1>3. QED  BY <1>1, <1>2 DEF Hurt

\* What resolveRound does to its replica, and what it leaves alone.
LEMMA ResolveRoundAny ==
  ASSUME AnyMatch, NEW s \in Servers, ResolveRound(s)
  PROVE  /\ AnyMatch'
         /\ UNCHANGED <<lookup, forwards, applied, missed, autoplay>>
         /\ hp'[s] = Hurt(s) /\ rounds'[s] = rounds[s] + 1 /\ resolvers'[s] = resolvers[s] - 1
         /\ \A p \in Players : waiting'[s][p] = NoCard
         /\ state'[s] = IF GameOver(hp'[s]) THEN "ENDED" ELSE "AWAITING_PLAYS"
         /\ results'[s] \subseteq results[s] \cup
              (IF GameOver(hp'[s]) THEN {Result(hp'[s], s)} ELSE {})
         /\ s \notin autoplay => timers'[s] = timers[s]
         /\ \A t \in Servers : t # s =>
              /\ hp'[t] = hp[t] /\ rounds'[t] = rounds[t] /\ resolvers'[t] = resolvers[t]
              /\ waiting'[t] = waiting[t] /\ state'[t] = state[t] /\ results'[t] = results[t]
              /\ timers'[t] = timers[t]
<1>1. TypeOK
  BY DEF AnyMatch
<1>2. UNCHANGED <<life, lookup, forwards, applied, missed, autoplay, online, leaves, lost>>
  BY DEF ResolveRound
<1>3. resolvers[s] \in Nat \ {0}
  BY <1>1 DEF TypeOK, ResolveRound, IsDue
<1>4. /\ hp' \in [Servers -> [Players -> Int]] /\ hp'[s] = Hurt(s)
      /\ \A t \in Servers : t # s => hp'[t] = hp[t]
  BY <1>1, HurtTyped DEF TypeOK, ResolveRound
<1>5. /\ waiting' \in [Servers -> [Players -> CardIds \cup {NoCard}]]
      /\ \A p \in Players : waiting'[s][p] = NoCard
      /\ \A t \in Servers : t # s => waiting'[t] = waiting[t]
  BY <1>1 DEF TypeOK, ResolveRound
<1>6. /\ rounds' \in [Servers -> Nat] /\ rounds'[s] = rounds[s] + 1
      /\ resolvers' \in [Servers -> Nat] /\ resolvers'[s] = resolvers[s] - 1
      /\ \A t \in Servers : t # s => rounds'[t] = rounds[t] /\ resolvers'[t] = resolvers[t]
  <2>1. /\ rounds \in [Servers -> Nat] /\ rounds' = [rounds EXCEPT ![s] = @ + 1]
        /\ resolvers \in [Servers -> Nat] /\ resolvers' = [resolvers EXCEPT ![s] = @ - 1]
    BY <1>1 DEF TypeOK, ResolveRound
  <2>2. resolvers[s] - 1 \in Nat
    BY <1>3
  <2>3. QED  BY <2>1, <2>2
<1>7. /\ state' \in [Servers -> {"AWAITING_PLAYS", "ENDED"}]
      /\ state'[s] = IF GameOver(hp'[s]) THEN "ENDED" ELSE "AWAITING_PLAYS"
      /\ \A t \in Servers : t # s => state'[t] = state[t]
  <2>1. CASE GameOver(hp'[s])
    BY <1>1, <2>1 DEF TypeOK, ResolveRound
  <2>2. CASE ~GameOver(hp'[s])
    BY <1>1, <2>2 DEF TypeOK, ResolveRound
  <2>3. QED  BY <2>1, <2>2
<1>8. /\ results' \in [Players -> SUBSET Results]
      /\ results'[s] \subseteq results[s] \cup
              (IF GameOver(hp'[s]) THEN {Result(hp'[s], s)} ELSE {})
      /\ \A t \in Servers : t # s => results'[t] = results[t]
  <2>1. CASE GameOver(hp'[s])
    <3>1. Result(hp'[s], s) \in Results
      BY ResultTyped
    <3>2. results' = [results EXCEPT ![s] = IF s \in online THEN @ \cup {Result(hp'[s], s)} ELSE @]
      BY <2>1 DEF ResolveRound
    <3>3. QED  BY <1>1, <2>1, <3>1, <3>2 DEF TypeOK, Servers
  <2>2. CASE ~GameOver(hp'[s])
    BY <1>1, <2>2 DEF TypeOK, ResolveRound
  <2>3. QED  BY <2>1, <2>2
<1>9. /\ timers' \in [Servers -> Nat]
      /\ s \notin autoplay => timers'[s] = timers[s]
      /\ \A t \in Servers : t # s => timers'[t] = timers[t]
  <2>1. CASE GameOver(hp'[s])
    BY <1>1, <2>1 DEF TypeOK, ResolveRound
  <2>2. CASE ~GameOver(hp'[s])
    BY <1>1, <2>2 DEF TypeOK, ResolveRound
  <2>3. QED  BY <2>1, <2>2
<1>10. TypeOK'
  BY <1>1, <1>2, <1>4, <1>5, <1>6, <1>7, <1>8, <1>9 DEF TypeOK
<1>11. EachOnce' /\ PlaysBounded'
  BY <1>2 DEF AnyMatch, EachOnce, PlaysBounded, Transit
<1>12. QED  BY <1>2, <1>4, <1>5, <1>6, <1>7, <1>8, <1>9, <1>10, <1>11 DEF AnyMatch

LEMMA AutoplayAny ==
  ASSUME AnyMatch, NEW s \in Servers, AutoplayIfNeeded(s)
  PROVE  AnyMatch' /\ timers[s] # 0 /\ UNCHANGED <<missed, autoplay>>
<1>1. UNCHANGED <<hp, state, rounds, life, lookup, forwards, applied, missed, clients, lost>>
  BY DEF AutoplayIfNeeded
<1>2. timers[s] \in Nat \ {0} /\ timers' \in [Servers -> Nat]
  BY DEF AnyMatch, TypeOK, AutoplayIfNeeded
<1>3. waiting' \in [Servers -> [Players -> CardIds \cup {NoCard}]]
  <2>1. waiting' = waiting \/ \E c \in CardIds : waiting' = [waiting EXCEPT ![s][s] = c]
    BY DEF AutoplayIfNeeded
  <2>2. waiting \in [Servers -> [Players -> CardIds \cup {NoCard}]]
    BY DEF AnyMatch, TypeOK
  <2>3. ASSUME NEW c \in CardIds, waiting' = [waiting EXCEPT ![s][s] = c]
        PROVE  waiting' \in [Servers -> [Players -> CardIds \cup {NoCard}]]
    <3>1. waiting[s] \in [Players -> CardIds \cup {NoCard}]
      BY <2>2
    <3>2. /\ waiting' = [t \in Servers |-> waiting'[t]] /\ waiting'[s] = [waiting[s] EXCEPT ![s] = c]
          /\ \A t \in Servers : t # s => waiting'[t] = waiting[t]
      BY <2>2, <2>3, <3>1
    <3>3. waiting'[s] \in [Players -> CardIds \cup {NoCard}]
      BY <3>1, <3>2
    <3>4. QED  BY <2>2, <3>2, <3>3
  <2>4. QED  BY <2>1, <2>2, <2>3
<1>4. resolvers' \in [Servers -> Nat]
  <2>1. resolvers \in [Servers -> Nat]
    BY DEF AnyMatch, TypeOK
  <2>2. \/ resolvers' = resolvers
        \/ resolvers' = [resolvers EXCEPT ![s] = IF BothPlayed(waiting'[s]) THEN @ + 1 ELSE @]
    BY DEF AutoplayIfNeeded
  <2>3. QED  BY <2>1, <2>2
<1>5. TypeOK'
  BY <1>1, <1>2, <1>3, <1>4 DEF AnyMatch, TypeOK, clients
<1>6. EachOnce' /\ PlaysBounded'
  BY <1>1 DEF AnyMatch, EachOnce, PlaysBounded, Transit
<1>7. QED  BY <1>1, <1>2, <1>5, <1>6 DEF AnyMatch, clients

LEMMA AnyMatchNext == AnyMatch /\ [Next]_vars => AnyMatch'
<1> SUFFICES ASSUME AnyMatch, [Next]_vars PROVE AnyMatch'
  OBVIOUS
<1>1. CASE Quiet
  BY <1>1, QuietSteps
<1>2. ASSUME NEW p \in Players, NEW c \in CardIds, FindPlayerMatch(p, c) PROVE AnyMatch'
  BY <1>2, FindPlayerMatchAny
<1>3. ASSUME NEW p \in Players, PlayCard(p) PROVE AnyMatch'
  BY <1>3, PlayCardAny
<1>4. ASSUME NEW m \in forwards, OnTheWay(m) PROVE AnyMatch'
  BY <1>4, OnTheWaySteps
<1>5. ASSUME NEW m \in forwards, PlayForwardedCard(m) PROVE AnyMatch'
  BY <1>5, PlayForwardedCardAny
<1>6. ASSUME NEW s \in Servers, ResolveRound(s) PROVE AnyMatch'
  BY <1>6, ResolveRoundAny
<1>7. ASSUME NEW s \in Servers, AutoplayIfNeeded(s) PROVE AnyMatch'
  BY <1>7, AutoplayAny
<1>8. CASE UNCHANGED vars
  BY <1>8 DEF AnyMatch, TypeOK, EachOnce, PlaysBounded, Transit, vars, replicas, clients
<1>9. QED  BY <1>1, <1>2, <1>3, <1>4, <1>5, <1>6, <1>7, <1>8
           DEF Next, Deliver, Replica, Quiet, OnTheWay

LEMMA AnyMatchAlways == Spec => []AnyMatch
BY AnyMatchInit, AnyMatchNext, PTL DEF Spec

(* Replicas, plays on their way and what the players are told are well      *)
(* typed; in particular no HP is anything but a number, whatever card is    *)
(* laid against none.                                                        *)
THEOREM TypeCorrect == Spec => []TypeOK
<1>1. AnyMatch => TypeOK
  BY DEF AnyMatch
<1>2. QED  BY <1>1, AnyMatchAlways, PTL

(* However POSTs and goroutines are lost, delayed or overtaken, no play is  *)
(* made more often on the other replica than on its own.                     *)
THEOREM NeverTwice == Spec => []NoEcho
<1>1. ASSUME AnyMatch PROVE NoEcho
  <2> SUFFICES ASSUME NEW p \in Players PROVE applied[Other(p)][p] <= applied[p][p]
    BY DEF NoEcho
  <2>1. applied[Other(p)][p] + Cardinality(Transit(p)) <= applied[p][p]
    BY <1>1 DEF AnyMatch, EachOnce
  <2>2. /\ applied[Other(p)][p] \in Nat /\ applied[p][p] \in Nat
        /\ Cardinality(Transit(p)) \in Nat
    BY <1>1, Opponents, TransitFinite DEF AnyMatch, TypeOK, Servers
  <2>3. QED  BY <2>1, <2>2
<1>2. QED  BY <1>1, AnyMatchAlways, PTL
----------------------------------------------------------------------------
(* The replicas of an undisturbed match.                                    *)

\* The facts about servers and players that the steps below need: a server is named after
\* its player, and there is one other.
LEMMA TwoServers ==
  /\ Servers = Players /\ Host \in Players /\ Guest \in Players /\ Host # Guest
  /\ \A p \in Players : /\ Other(p) \in Players /\ Other(p) # p /\ Other(Other(p)) = p
                        /\ \A q \in Players : q = p \/ q = Other(p)
BY Opponents DEF Servers, Host, Guest, Players

\* Abreast, said of any server.
LEMMA AbreastOf ==
  ASSUME NEW s \in Players
  PROVE  Abreast <=>
           (rounds[s] = rounds[Other(s)] =>
              /\ hp[s] = hp[Other(s)] /\ state[s] = state[Other(s)]
              /\ \A p \in Players, c \in CardIds : Due(Other(p), p, c) => waiting[p][p] = c)
<1>1. (s = Host /\ Other(s) = Guest) \/ (s = Guest /\ Other(s) = Host)
  BY TwoServers DEF Host, Guest, Other, Players
<1>2. QED  BY <1>1 DEF Abreast

LEMMA LockstepInit == AnyMatch /\ Init => InLockstep
<1> SUFFICES ASSUME AnyMatch, Init, autoplay = {} PROVE Lockstep
  BY DEF InLockstep, Undisturbed
<1>1. \A s \in Players : \A p \in Players :
        /\ waiting[s][p] = NoCard /\ applied[s][p] = 0 /\ rounds[s] = 0 /\ timers[s] = 0
        /\ resolvers[s] = 0 /\ hp[s] = [q \in Players |-> HPStart] /\ lookup[s] = NoCard
        /\ state[s] = "AWAITING_PLAYS" /\ results[s] = {}
  BY TwoServers DEF Init
<1>2. \A p \in Players : Transit(p) = {}
  BY DEF Init, Transit
<1>3. Abreast
  BY <1>1, <1>2, TwoServers DEF Abreast, Due
<1>4. ASSUME NEW s \in Players
      PROVE  InStep(s) /\ LastOnItsWay(s) /\ Ahead(s) /\ SeenRoundEnd(s) /\ EndedOnce(s)
  <2>1. InStep(s)
    BY <1>1, TwoServers DEF InStep, BothPlayed
  <2>2. LastOnItsWay(s) /\ Ahead(s) /\ SeenRoundEnd(s)
    BY <1>1, <1>2, TwoServers DEF LastOnItsWay, Ahead, SeenRoundEnd
  <2>3. EndedOnce(s)
    BY <1>1, HPAssumption DEF EndedOnce, GameOver
  <2>4. QED  BY <2>1, <2>2, <2>3
<1>5. QED  BY <1>1, <1>3, <1>4, TwoServers DEF Lockstep

\* The stage a play has reached makes no difference, nor does what comes back.
LEMMA LockstepKept ==
  ASSUME Lockstep, UNCHANGED <<replicas, lookup, applied, results>>,
         \A p \in Players :
           \/ Transit(p)' = Transit(p)
           \/ \E m \in Transit(p) : \E f : /\ Transit(p)' = (Transit(p) \ {m}) \cup {f}
                                           /\ f.n = m.n /\ f.card = m.card
  PROVE  Lockstep'
<1>1. ASSUME NEW p \in Players
      PROVE  \/ Transit(p)' = Transit(p)
             \/ \E m, f : /\ Transit(p) = {m} /\ Transit(p)' = {f}
                          /\ f.n = m.n /\ f.card = m.card
  BY TwoServers DEF Lockstep, LastOnItsWay
<1>2. \A s, p \in Players : \A c : Due(s, p, c)' <=> Due(s, p, c)
  BY <1>1 DEF Due, replicas
<1>3. Abreast'
  BY <1>2, TwoServers DEF Lockstep, Abreast, replicas
<1>4. ASSUME NEW s \in Players
      PROVE  (InStep(s) /\ LastOnItsWay(s) /\ Ahead(s) /\ SeenRoundEnd(s) /\ EndedOnce(s))'
  <2>1. InStep(s)' /\ EndedOnce(s)'
    BY TwoServers DEF Lockstep, InStep, EndedOnce, replicas
  <2>2. LastOnItsWay(s)'
    BY <1>1, TwoServers DEF Lockstep, LastOnItsWay
  <2>3. SeenRoundEnd(s)'
    BY <1>1, TwoServers DEF Lockstep, SeenRoundEnd, replicas
  <2>4. Ahead(s)'
    <3>1. Ahead(s) /\ Other(s) \in Players
      BY TwoServers DEF Lockstep
    <3>2. QED  BY <1>2, <3>1 DEF Ahead, replicas
  <2>5. QED  BY <2>1, <2>2, <2>3, <2>4
<1>5. QED  BY <1>3, <1>4, TwoServers DEF Lockstep, replicas

\* What a patient player sees before a play: the replicas are in the same round.
LEMMA RoundIsOverOnBoth ==
  ASSUME AnyMatch, Lockstep, NEW p \in Players, RoundIsOver(p)
  PROVE  /\ rounds[p] = rounds[Other(p)] /\ applied[p][p] = rounds[p] /\ Transit(p) = {}
         /\ state[p] = "AWAITING_PLAYS"
<1> DEFINE o == Other(p)
<1>1. /\ o \in Players /\ o # p /\ Other(o) = p /\ Servers = Players
      /\ \A q \in Players : q = p \/ q = o
  BY TwoServers
<1>2. /\ state[p] = "AWAITING_PLAYS" /\ waiting[p][p] = NoCard /\ resolvers[o] = 0
      /\ \A m \in forwards : m.n > applied[p][p]
  BY <1>1 DEF RoundIsOver
<1>3. /\ rounds[p] \in Nat /\ rounds[o] \in Nat
      /\ applied[p][p] \in Nat /\ applied[o][p] \in Nat
  BY <1>1 DEF AnyMatch, TypeOK
<1>4. /\ InStep(p) /\ InStep(o) /\ LastOnItsWay(p) /\ Ahead(p) /\ Ahead(o)
  BY <1>1 DEF Lockstep
<1> HIDE DEF o
<1>5. applied[p][p] = rounds[p]
  BY <1>2, <1>3, <1>4 DEF InStep
<1>6. Transit(p) = {} /\ applied[o][p] = rounds[p]
  BY <1>2, <1>3, <1>4, <1>5 DEF LastOnItsWay, Transit, o
<1>7. ~(rounds[o] > rounds[p])
  <2> SUFFICES ASSUME rounds[o] > rounds[p] PROVE FALSE
    OBVIOUS
  <2>1. \E card \in [Players -> CardIds] : \A q \in Players : Due(p, q, card[q])
    BY <1>1, <1>4 DEF Ahead
  <2>2. p = Other(p)
    BY <1>2, <2>1 DEF Due
  <2>3. QED  BY <1>1, <2>2 DEF o
<1>8. ~(rounds[p] > rounds[o])
  <2> SUFFICES ASSUME rounds[p] > rounds[o] PROVE FALSE
    OBVIOUS
  <2>1. /\ rounds[p] = rounds[o] + 1
        /\ \E card \in [Players -> CardIds] : \A q \in Players : Due(o, q, card[q])
    BY <1>4 DEF Ahead, o
  <2>2. waiting[o][o] # NoCard
    <3>1. o # Other(o)
      BY <1>1
    <3>2. QED  BY <1>1, <2>1, <3>1 DEF Due
  <2>3. waiting[o][p] # NoCard
    BY <1>1, <1>4, <1>6, <2>1 DEF InStep
  <2>4. BothPlayed(waiting[o])
    BY <1>1, <2>2, <2>3 DEF BothPlayed
  <2>5. QED  BY <1>2, <1>4, <2>4 DEF InStep
<1>9. QED  BY <1>2, <1>3, <1>5, <1>6, <1>7, <1>8 DEF o

LEMMA LockstepFind ==
  ASSUME AnyMatch, Lockstep, Patient, NEW p \in Players, NEW c \in CardIds, FindPlayerMatch(p, c)
  PROVE  Lockstep'
<1>1. /\ RoundIsOver(p) /\ lookup' = [lookup EXCEPT ![p] = c]
      /\ UNCHANGED <<replicas, life, forwards, applied, missed, clients, lost>>
  BY DEF FindPlayerMatch
<1>2. /\ rounds[p] = rounds[Other(p)] /\ applied[p][p] = rounds[p] /\ Transit(p) = {}
      /\ state[p] = "AWAITING_PLAYS"
  BY <1>1, RoundIsOverOnBoth
<1>3. \A s, q \in Players : \A d : Due(s, q, d)' <=> Due(s, q, d)
  BY <1>1 DEF Due, Transit, replicas
<1>4. Abreast'
  BY <1>1, <1>3, TwoServers DEF Lockstep, Abreast, replicas
<1>5. ASSUME NEW s \in Players
      PROVE  (InStep(s) /\ LastOnItsWay(s) /\ Ahead(s) /\ SeenRoundEnd(s) /\ EndedOnce(s))'
  <2>1. InStep(s)' /\ EndedOnce(s)' /\ LastOnItsWay(s)'
    BY <1>1, TwoServers DEF Lockstep, InStep, EndedOnce, LastOnItsWay, Transit, replicas, clients
  <2>2. SeenRoundEnd(s)'
    <3>1. s = p \/ lookup'[s] = lookup[s]
      BY <1>1, TwoServers DEF AnyMatch, TypeOK
    <3>2. QED  BY <1>1, <1>2, <3>1, TwoServers DEF Lockstep, SeenRoundEnd, Transit, replicas
  <2>3. Ahead(s)'
    <3>1. Ahead(s) /\ Other(s) \in Players
      BY TwoServers DEF Lockstep
    <3>2. QED  BY <1>1, <1>3, <3>1 DEF Ahead, replicas
  <2>4. QED  BY <2>1, <2>2, <2>3
<1>6. QED  BY <1>1, <1>4, <1>5, TwoServers DEF Lockstep, replicas

\* A new play of p: the replicas are in the same round, and p's card is new to both.
LEMMA LockstepPlay ==
  ASSUME AnyMatch, Lockstep, NEW p \in Players, PlayCard(p)
  PROVE  Lockstep'
<1> DEFINE o == Other(p)
           m == [at |-> p, player |-> p, n |-> applied'[p][p], card |-> lookup[p],
                 stage |-> "spawned"]
<1>1. /\ lookup[p] # NoCard /\ LayCard(p, p, lookup[p])
      /\ forwards' = forwards \cup {m}
      /\ lookup' = [lookup EXCEPT ![p] = NoCard]
      /\ UNCHANGED <<hp, state, rounds, timers, life, missed, clients, lost>>
  BY DEF PlayCard
<1>2. /\ o \in Players /\ o # p /\ Other(o) = p /\ Servers = Players
      /\ \A q \in Players : q = p \/ q = o
  BY TwoServers
<1>3. TypeOK /\ lookup[p] \in CardIds
  BY <1>1, <1>2 DEF AnyMatch, TypeOK
<1>4. /\ waiting'[p][p] = lookup[p] /\ applied'[p][p] = applied[p][p] + 1
      /\ resolvers'[p] = IF BothPlayed(waiting'[p]) THEN resolvers[p] + 1 ELSE resolvers[p]
      /\ \A t, q \in Players :
           t # p \/ q # p => waiting'[t][q] = waiting[t][q] /\ applied'[t][q] = applied[t][q]
      /\ resolvers'[o] = resolvers[o] /\ waiting'[o] = waiting[o]
  BY <1>1, <1>2, <1>3, LayCardTyped
<1>5. /\ rounds[p] = rounds[o] /\ applied[p][p] = rounds[p] /\ Transit(p) = {}
      /\ state[p] = "AWAITING_PLAYS"
      /\ InStep(p) /\ InStep(o) /\ LastOnItsWay(p) /\ LastOnItsWay(o) /\ SeenRoundEnd(o)
      /\ EndedOnce(p) /\ EndedOnce(o)
  BY <1>1, <1>2 DEF Lockstep, SeenRoundEnd
<1>6. /\ rounds[p] \in Nat /\ applied[o][p] \in Nat /\ applied[p][o] \in Nat
      /\ applied[o][o] \in Nat
  BY <1>2, <1>3 DEF TypeOK
<1>7. Transit(p)' = {m} /\ Transit(o)' = Transit(o) /\ m.n = applied'[p][p] /\ m.card = lookup[p]
  BY <1>1, <1>2, <1>5 DEF Transit
<1> HIDE DEF m, o
<1>8. applied[o][p] = rounds[p] /\ waiting[o][p] = NoCard /\ waiting[p][p] = NoCard
  BY <1>2, <1>5, <1>6 DEF InStep, LastOnItsWay, o
<1>9. InStep(p)'
  <2>1. resolvers[p] = 0
    BY <1>5, <1>8 DEF InStep, BothPlayed
  <2>2. resolvers'[p] = IF BothPlayed(waiting'[p]) THEN 1 ELSE 0
    BY <1>4, <2>1
  <2>3. \A q \in Players : /\ applied'[p][q] \in {rounds[p], rounds[p] + 1}
                           /\ waiting'[p][q] # NoCard <=> applied'[p][q] = rounds[p] + 1
    BY <1>1, <1>2, <1>4, <1>5, <1>6 DEF InStep
  <2>4. QED  BY <1>1, <2>2, <2>3 DEF InStep
<1>10. InStep(o)'
  BY <1>1, <1>2, <1>4, <1>5 DEF InStep
<1>11. LastOnItsWay(p)'
  BY <1>2, <1>4, <1>5, <1>7, <1>8 DEF LastOnItsWay, o
<1>12. LastOnItsWay(o)'
  BY <1>2, <1>4, <1>5, <1>7 DEF LastOnItsWay
<1>13. SeenRoundEnd(p)' /\ SeenRoundEnd(o)'
  <2>1. lookup'[p] = NoCard /\ lookup'[o] = lookup[o]
    BY <1>1, <1>2, <1>3 DEF TypeOK
  <2>2. QED  BY <1>1, <1>2, <1>4, <1>5, <1>7, <2>1 DEF SeenRoundEnd
<1>14. EndedOnce(p)' /\ EndedOnce(o)'
  BY <1>1, <1>2, <1>4, <1>5 DEF EndedOnce, clients
<1>15. Ahead(p)' /\ Ahead(o)'
  BY <1>1, <1>2, <1>5, <1>6 DEF Ahead, o
<1>16. Abreast'
  <2>1. /\ hp[p] = hp[o] /\ state[p] = state[o]
        /\ \A q \in Players, c \in CardIds : Due(Other(q), q, c) => waiting[q][q] = c
    BY <1>5, AbreastOf DEF Lockstep, o
  <2>2. \A c \in CardIds : Due(o, p, c)' => waiting'[p][p] = c
    BY <1>4, <1>7, <1>8 DEF Due, o
  <2>3. \A c \in CardIds : Due(p, o, c)' => waiting'[o][o] = c
    <3>1. \A c \in CardIds : Due(p, o, c)' => Due(p, o, c)
      BY <1>2, <1>4, <1>7 DEF Due
    <3>2. waiting'[o][o] = waiting[o][o]
      BY <1>2, <1>4
    <3>3. QED  BY <1>2, <2>1, <3>1, <3>2
  <2>4. \A q \in Players, c \in CardIds : Due(Other(q), q, c)' => waiting'[q][q] = c
    <3>1. Other(p) = o /\ Other(o) = p
      BY <1>2 DEF o
    <3>2. QED  BY <1>2, <2>2, <2>3, <3>1
  <2>5. QED  BY <1>1, <2>1, <2>4, AbreastOf, TwoServers DEF Abreast, Host, Guest, o, Other, Players
<1>17. QED
  <2>1. \A s \in Players : timers'[s] = 0
    BY <1>1, TwoServers DEF Lockstep
  <2>2. QED  BY <1>2, <1>9, <1>10, <1>11, <1>12, <1>13, <1>14, <1>15, <1>16, <2>1 DEF Lockstep

\* The play of p comes to the other replica, which waits for it in its present round.
LEMMA LockstepForwarded ==
  ASSUME AnyMatch, Lockstep, NEW m \in forwards, PlayForwardedCard(m)
  PROVE  Lockstep'
<1> DEFINE p == m.player
           o == Other(m.player)
<1>1. /\ p \in Players /\ o \in Players /\ o # p /\ Other(o) = p /\ Servers = Players
      /\ \A q \in Players : q = p \/ q = o
      /\ m.at = p /\ m.card \in CardIds
      /\ \A q \in Players : Transit(q)' = Transit(q) \ {m}
  BY PlayForwardedCardAny, TwoServers
<1>2. /\ LayCard(o, p, m.card)
      /\ UNCHANGED <<hp, state, rounds, timers, life, lookup, missed, clients, lost>>
  BY DEF PlayForwardedCard
<1>3. /\ TypeOK
      /\ InStep(p) /\ InStep(o) /\ LastOnItsWay(p) /\ LastOnItsWay(o) /\ Ahead(p) /\ Ahead(o)
      /\ SeenRoundEnd(p) /\ SeenRoundEnd(o) /\ EndedOnce(p) /\ EndedOnce(o)
  BY <1>1 DEF AnyMatch, Lockstep
<1>4. /\ waiting'[o][p] = m.card /\ applied'[o][p] = applied[o][p] + 1
      /\ resolvers'[o] = IF BothPlayed(waiting'[o]) THEN resolvers[o] + 1 ELSE resolvers[o]
      /\ \A t, q \in Players :
           t # o \/ q # p => waiting'[t][q] = waiting[t][q] /\ applied'[t][q] = applied[t][q]
      /\ resolvers'[p] = resolvers[p] /\ waiting'[p] = waiting[p]
  BY <1>1, <1>2, <1>3, LayCardTyped
<1>5. m \in Transit(p) /\ m \notin Transit(o)
  BY <1>1 DEF Transit
<1>5a. Other(p) = o
  OBVIOUS
<1> HIDE DEF o, p
<1>6. /\ applied[p][p] = applied[o][p] + 1 /\ Transit(p) = {m} /\ m.n = applied[p][p]
  BY <1>3, <1>5 DEF LastOnItsWay, o, p
<1>7. Transit(p)' = {} /\ Transit(o)' = Transit(o)
  BY <1>1, <1>5, <1>6
<1>8. /\ rounds[p] \in Nat /\ rounds[o] \in Nat /\ applied[o][p] \in Nat
      /\ applied[p][p] \in Nat /\ applied[o][o] \in Nat /\ applied[p][o] \in Nat
  BY <1>1, <1>3 DEF TypeOK
<1>9. applied[o][p] = rounds[o] /\ waiting[o][p] = NoCard
  <2>1. applied[o][p] # rounds[o] + 1
    <3> SUFFICES ASSUME applied[o][p] = rounds[o] + 1 PROVE FALSE
      OBVIOUS
    <3>1. applied[p][p] = rounds[o] + 2 /\ applied[p][p] \in {rounds[p], rounds[p] + 1}
      BY <1>1, <1>3, <1>6, <1>8 DEF InStep
    <3>2. rounds[p] > rounds[o]
      BY <1>8, <3>1
    <3>3. rounds[p] = rounds[o] + 1 /\ waiting[p][p] = NoCard
      BY <1>1, <1>3, <3>2 DEF Ahead, o, p
    <3>4. waiting[p][p] # NoCard
      BY <1>1, <1>3, <1>8, <3>1, <3>3 DEF InStep
    <3>5. QED  BY <3>3, <3>4
  <2>2. QED  BY <1>1, <1>3, <1>8, <2>1 DEF InStep
<1>10. ~(rounds[o] > rounds[p])
  <2>1. applied[p][p] \in {rounds[p], rounds[p] + 1}
    BY <1>1, <1>3 DEF InStep
  <2> SUFFICES ASSUME rounds[o] > rounds[p] PROVE FALSE
    OBVIOUS
  <2>2. rounds[o] = rounds[p] + 1 /\ \E card \in [Players -> CardIds] : Due(p, p, card[p])
    BY <1>1, <1>3 DEF Ahead
  <2>3. waiting[p][p] # NoCard
    BY <1>1, <1>5a, <2>2 DEF Due
  <2>4. applied[p][p] = rounds[p] + 1
    BY <1>1, <1>3, <2>3 DEF InStep
  <2>5. QED  BY <1>6, <1>8, <1>9, <2>2, <2>4
<1>11. state[o] = "AWAITING_PLAYS"
  <2>1. CASE rounds[p] = rounds[o]
    <3>1. waiting[p][p] # NoCard
      BY <1>1, <1>3, <1>6, <1>9, <2>1 DEF InStep
    <3>2. state[p] # "ENDED" /\ state[p] = state[o]
      BY <1>1, <1>3, <2>1, <3>1, AbreastOf DEF EndedOnce, Lockstep, o
    <3>3. QED  BY <1>1, <1>3, <3>2 DEF TypeOK
  <2>2. CASE rounds[p] > rounds[o]
    BY <1>1, <1>3, <1>5a, <2>2 DEF Ahead
  <2>3. QED  BY <1>8, <1>10, <2>1, <2>2
<1>12. \A s, q \in Players : \A c : Due(s, q, c)' <=> Due(s, q, c)
  <2>1. m.card # NoCard
    BY <1>1, NoCardAssumption
  <2>2. \A c : Due(o, p, c)' <=> Due(o, p, c)
    <3>1. \A c : Due(o, p, c) <=> c = m.card
      BY <1>6, <1>9, <1>5a DEF Due
    <3>2. \A c : Due(o, p, c)' <=> c = m.card
      BY <1>4, <2>1 DEF Due
    <3>3. QED  BY <3>1, <3>2
  <2>3. \A c : Due(p, p, c)' <=> Due(p, p, c)
    BY <1>1, <1>4, <1>5a DEF Due
  <2>4. \A s \in Players : \A c : Due(s, o, c)' <=> Due(s, o, c)
    BY <1>1, <1>4, <1>7 DEF Due
  <2>5. QED  BY <1>1, <2>2, <2>3, <2>4
<1>13. Abreast'
  <2>1. ASSUME rounds[p] = rounds[o]
        PROVE  /\ hp[p] = hp[o] /\ state[p] = state[o]
               /\ \A q \in Players, c \in CardIds : Due(Other(q), q, c) => waiting[q][q] = c
    BY <1>1, <2>1, AbreastOf DEF Lockstep, o
  <2>2. \A q \in Players : waiting'[q][q] = waiting[q][q] /\ Other(q) \in Players
    BY <1>1, <1>4, TwoServers
  <2>3. rounds'[p] = rounds'[o] =>
          /\ hp'[p] = hp'[o] /\ state'[p] = state'[o]
          /\ \A q \in Players, c \in CardIds : Due(Other(q), q, c)' => waiting'[q][q] = c
    BY <1>2, <1>12, <2>1, <2>2
  <2>4. QED  BY <1>1, <2>3, TwoServers DEF Abreast, Host, Guest, Players
<1>14. InStep(o)' /\ InStep(p)'
  <2>1. resolvers[o] = 0
    BY <1>1, <1>3, <1>9 DEF InStep, BothPlayed
  <2>2. \A q \in Players : /\ applied'[o][q] \in {rounds[o], rounds[o] + 1}
                           /\ waiting'[o][q] # NoCard <=> applied'[o][q] = rounds[o] + 1
    BY <1>1, <1>3, <1>4, <1>8, <1>9, NoCardAssumption DEF InStep
  <2>3. InStep(o)'
    BY <1>2, <1>4, <2>1, <2>2 DEF InStep
  <2>4. InStep(p)'
    BY <1>1, <1>2, <1>3, <1>4 DEF InStep
  <2>5. QED  BY <2>3, <2>4
<1>15. LastOnItsWay(p)' /\ LastOnItsWay(o)'
  <2>1. Other(p) = o /\ Other(o) = p
    BY <1>1 DEF o, p
  <2>2. LastOnItsWay(p)'
    BY <1>1, <1>4, <1>6, <1>7, <2>1 DEF LastOnItsWay
  <2>3. LastOnItsWay(o)'
    BY <1>1, <1>3, <1>4, <1>7, <2>1 DEF LastOnItsWay
  <2>4. QED  BY <2>2, <2>3
<1>16. SeenRoundEnd(p)' /\ SeenRoundEnd(o)'
  BY <1>1, <1>2, <1>3, <1>4, <1>6, <1>7 DEF SeenRoundEnd
<1>17. EndedOnce(p)' /\ EndedOnce(o)'
  <2>1. EndedOnce(p)'
    BY <1>1, <1>2, <1>3, <1>4 DEF EndedOnce, clients
  <2>2. EndedOnce(o)'
    BY <1>1, <1>2, <1>3, <1>11 DEF EndedOnce, clients
  <2>3. QED  BY <2>1, <2>2
<1>18. Ahead(p)' /\ Ahead(o)'
  <2>1. Other(p) = o /\ Other(o) = p
    BY <1>1 DEF o, p
  <2>2. Ahead(o)'
    BY <1>2, <1>10, <2>1 DEF Ahead
  <2>3. Ahead(p)'
    <3>1. \A q \in Players : waiting'[p][q] = waiting[p][q]
      BY <1>4
    <3>2. \A card \in [Players -> CardIds] :
            (\A q \in Players : Due(o, q, card[q])') <=> \A q \in Players : Due(o, q, card[q])
      BY <1>1, <1>12
    <3>3. UNCHANGED <<rounds, state, hp>>
      BY <1>2
    <3>4. QED  BY <1>3, <2>1, <3>1, <3>2, <3>3 DEF Ahead
  <2>4. QED  BY <2>2, <2>3
<1>19. QED
  <2>1. \A s \in Players : timers'[s] = 0
    BY <1>2, TwoServers DEF Lockstep
  <2>2. QED  BY <1>1, <1>13, <1>14, <1>15, <1>16, <1>17, <1>18, <2>1 DEF Lockstep

\* A replica that resolves a round has both cards, and nobody has begun the next round.
LEMMA ResolvedIsFull ==
  ASSUME AnyMatch, Lockstep, NEW s \in Players, ResolveRound(s)
  PROVE  /\ resolvers[s] = 1 /\ state[s] = "AWAITING_PLAYS" /\ results[s] = {}
         /\ \A p \in Players : /\ waiting[s][p] \in CardIds /\ applied[s][p] = rounds[s] + 1
                               /\ lookup[p] = NoCard
         /\ ~(rounds[s] > rounds[Other(s)])
<1>1. /\ TypeOK /\ InStep(s) /\ EndedOnce(s) /\ Ahead(s)
      /\ \A p \in Players : SeenRoundEnd(p) /\ LastOnItsWay(p)
  BY TwoServers DEF AnyMatch, Lockstep
<1>2. rounds[s] \in Nat /\ resolvers[s] \in Nat
  BY <1>1, TwoServers DEF TypeOK
<1>3. resolvers[s] > 0
  BY DEF ResolveRound, IsDue
<1>4. resolvers[s] = 1 /\ BothPlayed(waiting[s])
  BY <1>1, <1>3 DEF InStep
<1>5. \A p \in Players : waiting[s][p] \in CardIds /\ applied[s][p] = rounds[s] + 1
  BY <1>1, <1>4, TwoServers DEF InStep, BothPlayed, TypeOK
<1>6. state[s] = "AWAITING_PLAYS" /\ results[s] = {}
  BY <1>1, <1>4, TwoServers DEF EndedOnce, BothPlayed, TypeOK
<1>7. ~(rounds[s] > rounds[Other(s)])
  BY <1>1, <1>4 DEF Ahead, BothPlayed
<1>8. ASSUME NEW p \in Players PROVE lookup[p] = NoCard
  <2> SUFFICES ASSUME lookup[p] # NoCard PROVE FALSE
    OBVIOUS
  <2>1. applied[p][p] = rounds[p] /\ rounds[p] = rounds[Other(p)] /\ Transit(p) = {}
    BY <1>1 DEF SeenRoundEnd
  <2>2. applied[p][p] = applied[Other(p)][p]
    BY <1>1, <2>1 DEF LastOnItsWay
  <2>3. s = p \/ s = Other(p)
    BY TwoServers
  <2>4. applied[s][p] = rounds[s]
    BY <2>1, <2>2, <2>3
  <2>5. QED  BY <1>2, <1>5, <2>4
<1>9. QED  BY <1>4, <1>5, <1>6, <1>7, <1>8

\* The cards a replica resolves in the round both are in are those the other one has or
\* is about to get.
LEMMA ResolvedIsDue ==
  ASSUME AnyMatch, Lockstep, NEW s \in Players, ResolveRound(s), rounds[s] = rounds[Other(s)]
  PROVE  \A p \in Players : Due(Other(s), p, waiting[s][p])
<1> DEFINE o == Other(s)
<1>1. /\ o \in Players /\ o # s /\ Other(o) = s /\ \A q \in Players : q = s \/ q = o
  BY TwoServers
<1>2. \A p \in Players : waiting[s][p] \in CardIds /\ applied[s][p] = rounds[s] + 1
  BY ResolvedIsFull
<1>3. \A p \in Players, c \in CardIds : Due(Other(p), p, c) => waiting[p][p] = c
  BY AbreastOf DEF Lockstep
<1>4. Due(o, s, waiting[s][s])
  <2>1. CASE waiting[o][s] # NoCard
    <3>1. waiting[o][s] \in CardIds
      BY <1>1, <2>1, TwoServers DEF AnyMatch, TypeOK
    <3>2. QED  BY <1>3, <2>1, <3>1 DEF Due
  <2>2. CASE waiting[o][s] = NoCard
    <3>1. /\ applied[o][s] \in Nat /\ rounds[s] \in Nat
          /\ applied[o][s] # rounds[s] + 1
      BY <1>1, <2>2, TwoServers DEF AnyMatch, TypeOK, Lockstep, InStep
    <3>2. PICK m \in Transit(s) : TRUE
      BY <1>2, <3>1, TwoServers DEF Lockstep, LastOnItsWay
    <3>3. m.card \in CardIds
      BY <3>2 DEF AnyMatch, TypeOK, Transit, Forwards
    <3>4. Due(o, s, m.card)
      BY <2>2, <3>2 DEF Due
    <3>5. QED  BY <1>3, <3>3, <3>4
  <2>3. QED  BY <2>1, <2>2
<1>5. Due(o, o, waiting[s][o])
  <2>1. waiting[s][o] \in CardIds /\ waiting[s][o] # NoCard
    BY <1>1, <1>2, NoCardAssumption
  <2>2. Due(s, o, waiting[s][o])
    BY <2>1 DEF Due
  <2>3. waiting[o][o] = waiting[s][o]
    BY <1>1, <1>3, <2>1, <2>2
  <2>4. QED  BY <2>1, <2>3 DEF Due
<1> HIDE DEF o
<1>6. QED  BY <1>1, <1>4, <1>5 DEF o

\* What the parts of Lockstep that do not compare the replicas' HP and cards say after a
\* round is resolved.
LEMMA ResolvedInStep ==
  ASSUME AnyMatch, Lockstep, autoplay = {}, NEW s \in Players, ResolveRound(s), NEW t \in Players
  PROVE  (timers[t] = 0 /\ InStep(t) /\ LastOnItsWay(t) /\ SeenRoundEnd(t) /\ EndedOnce(t))'
<1>1. /\ UNCHANGED <<lookup, forwards, applied>>
      /\ rounds'[s] = rounds[s] + 1 /\ resolvers'[s] = resolvers[s] - 1
      /\ \A p \in Players : waiting'[s][p] = NoCard
      /\ state'[s] = IF GameOver(hp'[s]) THEN "ENDED" ELSE "AWAITING_PLAYS"
      /\ results'[s] \subseteq results[s] \cup
           (IF GameOver(hp'[s]) THEN {Result(hp'[s], s)} ELSE {})
      /\ timers'[s] = timers[s]
      /\ t # s => /\ hp'[t] = hp[t] /\ rounds'[t] = rounds[t] /\ resolvers'[t] = resolvers[t]
                  /\ waiting'[t] = waiting[t] /\ state'[t] = state[t]
                  /\ results'[t] = results[t] /\ timers'[t] = timers[t]
  BY ResolveRoundAny, TwoServers
<1>2. /\ resolvers[s] = 1 /\ results[s] = {} /\ lookup[t] = NoCard
      /\ \A p \in Players : applied[s][p] = rounds[s] + 1
  BY ResolvedIsFull
<1>3. /\ rounds[s] \in Nat /\ timers[s] = 0 /\ timers[t] = 0
      /\ InStep(t) /\ LastOnItsWay(t) /\ EndedOnce(t)
  BY TwoServers DEF AnyMatch, TypeOK, Lockstep
<1>4. timers'[t] = 0
  BY <1>1, <1>3
<1>5. LastOnItsWay(t)' /\ SeenRoundEnd(t)'
  BY <1>1, <1>2, <1>3 DEF LastOnItsWay, SeenRoundEnd, Transit
<1>6. InStep(t)'
  <2>1. CASE t = s
    <3>1. \A p \in Players : /\ applied'[s][p] \in {rounds'[s], rounds'[s] + 1}
                             /\ waiting'[s][p] # NoCard <=> applied'[s][p] = rounds'[s] + 1
      BY <1>1, <1>2, <1>3
    <3>2. ~BothPlayed(waiting'[s]) /\ resolvers'[s] = 0
      BY <1>1, <1>2 DEF BothPlayed
    <3>3. QED  BY <2>1, <3>1, <3>2 DEF InStep
  <2>2. CASE t # s
    BY <1>1, <1>3, <2>2 DEF InStep
  <2>3. QED  BY <2>1, <2>2
<1>7. EndedOnce(t)'
  <2>1. CASE t = s
    BY <1>1, <1>2, <2>1 DEF EndedOnce
  <2>2. CASE t # s
    BY <1>1, <1>3, <2>2 DEF EndedOnce
  <2>3. QED  BY <2>1, <2>2
<1>8. QED  BY <1>4, <1>5, <1>6, <1>7

\* The replica that resolves the round first is ahead then.
LEMMA ResolvedFirst ==
  ASSUME AnyMatch, Lockstep, NEW s \in Players, ResolveRound(s), rounds[s] = rounds[Other(s)]
  PROVE  Abreast' /\ \A t \in Players : Ahead(t)'
<1> DEFINE o == Other(s)
<1>1. /\ o \in Players /\ o # s /\ Other(o) = s /\ Servers = Players
      /\ \A q \in Players : q = s \/ q = o
  BY TwoServers
<1>2. /\ UNCHANGED forwards
      /\ hp'[s] = Hurt(s) /\ rounds'[s] = rounds[s] + 1
      /\ \A p \in Players : waiting'[s][p] = NoCard
      /\ hp'[o] = hp[o] /\ rounds'[o] = rounds[o] /\ waiting'[o] = waiting[o]
      /\ state'[o] = state[o]
  BY <1>1, ResolveRoundAny
<1>3. /\ state[s] = "AWAITING_PLAYS"
      /\ \A p \in Players : waiting[s][p] \in CardIds
  BY ResolvedIsFull
<1>4. rounds[s] \in Nat /\ waiting[s] \in [Players -> CardIds]
  BY <1>1, <1>3 DEF AnyMatch, TypeOK
<1>5. hp[s] = hp[o] /\ state[o] = "AWAITING_PLAYS"
  BY <1>3, AbreastOf DEF Lockstep
<1>6. \A p \in Players : Due(o, p, waiting[s][p])
  BY ResolvedIsDue
<1>7. \A p \in Players : \A c : Due(o, p, c)' <=> Due(o, p, c)
  BY <1>2 DEF Due, Transit
<1>8. hp'[s] = [p \in Players |-> hp'[o][p] - DamageDealt(waiting[s][Other(p)], waiting[s][p])]
  BY <1>2, <1>5 DEF Hurt
<1>9. Other(s) = o
  OBVIOUS
<1> HIDE DEF o
<1>10. Ahead(s)'
  <2>1. PICK laid \in [Players -> CardIds] : laid = waiting[s]
    BY <1>4
  <2>2. rounds'[s] = rounds'[o] + 1 /\ state'[o] = "AWAITING_PLAYS"
    BY <1>2, <1>5, <1>9
  <2>3. \E card \in [Players -> CardIds] :
          /\ \A p \in Players : Due(o, p, card[p])'
          /\ hp'[s] = [p \in Players |-> hp'[o][p] - DamageDealt(card[Other(p)], card[p])]
    <3>1. \A p \in Players : Due(o, p, laid[p])'
      BY <1>6, <1>7, <2>1
    <3>2. hp'[s] = [p \in Players |-> hp'[o][p] - DamageDealt(laid[Other(p)], laid[p])]
      BY <1>8, <2>1
    <3>3. QED  BY <3>1, <3>2
  <2>4. QED  BY <1>2, <1>9, <2>2, <2>3 DEF Ahead
<1>11. Ahead(o)'
  BY <1>1, <1>2, <1>4, <1>9 DEF Ahead
<1>12. Abreast'
  BY <1>1, <1>2, <1>4, <1>9 DEF Abreast, Host, Guest, Players
<1>13. QED  BY <1>1, <1>10, <1>11, <1>12

\* The replica that resolves the round second comes to the HP of the other one.
LEMMA ResolvedSecond ==
  ASSUME AnyMatch, Lockstep, NEW s \in Players, ResolveRound(s), rounds[Other(s)] > rounds[s]
  PROVE  Abreast' /\ \A t \in Players : Ahead(t)'
<1> DEFINE o == Other(s)
<1>1. /\ o \in Players /\ o # s /\ Other(o) = s /\ Other(s) = o /\ Servers = Players
      /\ \A q \in Players : q = s \/ q = o
  BY TwoServers
<1>2. /\ UNCHANGED forwards
      /\ hp'[s] = Hurt(s) /\ rounds'[s] = rounds[s] + 1
      /\ \A p \in Players : waiting'[s][p] = NoCard
      /\ state'[s] = IF GameOver(hp'[s]) THEN "ENDED" ELSE "AWAITING_PLAYS"
      /\ hp'[o] = hp[o] /\ rounds'[o] = rounds[o] /\ waiting'[o] = waiting[o]
      /\ state'[o] = state[o]
  BY <1>1, ResolveRoundAny
<1>3. \A p \in Players : waiting[s][p] \in CardIds /\ applied[s][p] = rounds[s] + 1
  BY ResolvedIsFull
<1>4. /\ rounds[s] \in Nat /\ rounds[o] \in Nat /\ state[o] \in {"AWAITING_PLAYS", "ENDED"}
  BY <1>1 DEF AnyMatch, TypeOK
<1>5. /\ Ahead(o) /\ InStep(o) /\ LastOnItsWay(s) /\ LastOnItsWay(o) /\ EndedOnce(o)
  BY <1>1 DEF Lockstep
<1> HIDE DEF o
<1>6. /\ rounds[o] = rounds[s] + 1
      /\ \A p \in Players : waiting[o][p] = NoCard
  BY <1>1, <1>5 DEF Ahead
<1>7. hp[o] = Hurt(s)
  <2>1. PICK card \in [Players -> CardIds] :
          /\ \A p \in Players : Due(s, p, card[p])
          /\ hp[o] = [p \in Players |-> hp[s][p] - DamageDealt(card[Other(p)], card[p])]
    BY <1>1, <1>5 DEF Ahead
  <2>2. \A p \in Players : card[p] = waiting[s][p]
    BY <1>3, <2>1, NoCardAssumption DEF Due
  <2>3. \A p \in Players : card[Other(p)] = waiting[s][Other(p)]
    BY <2>2, TwoServers
  <2>4. QED  BY <2>1, <2>2, <2>3 DEF Hurt
<1>8. hp'[s] = hp'[o] /\ state'[s] = state'[o] /\ rounds'[s] = rounds'[o]
  BY <1>2, <1>4, <1>5, <1>6, <1>7 DEF EndedOnce
<1>9. \A p \in Players : applied[o][p] = rounds[s] + 1
  BY <1>4, <1>5, <1>6 DEF InStep
<1>10. \A p \in Players : Transit(p) = {}
  <2>1. \A p \in Players : LastOnItsWay(p) /\ applied[p][p] = applied[Other(p)][p]
    BY <1>1, <1>3, <1>5, <1>9
  <2>2. \A p \in Players : applied[p][p] # applied[Other(p)][p] + 1
    BY <1>1, <1>3, <1>4, <1>9, <2>1
  <2>3. QED  BY <2>1, <2>2 DEF LastOnItsWay
<1>11. \A p \in Players : \A c : ~Due(Other(p), p, c)'
  <2>1. \A t, p \in Players : waiting'[t][p] = NoCard
    BY <1>1, <1>2, <1>6
  <2>2. \A p \in Players : Transit(p)' = {}
    BY <1>2, <1>10 DEF Transit
  <2>3. QED  BY <2>1, <2>2, TwoServers DEF Due
<1>12. Abreast'
  BY <1>1, <1>8, <1>11, TwoServers DEF Abreast, Host, Guest, Players
<1>13. Ahead(s)' /\ Ahead(o)'
  BY <1>1, <1>2, <1>4, <1>8 DEF Ahead
<1>14. QED  BY <1>1, <1>12, <1>13

LEMMA LockstepResolve ==
  ASSUME AnyMatch, Lockstep, autoplay = {}, NEW s \in Players, ResolveRound(s)
  PROVE  Lockstep'
<1>1. /\ rounds[s] \in Nat /\ rounds[Other(s)] \in Nat
      /\ ~(rounds[s] > rounds[Other(s)])
  BY TwoServers, ResolvedIsFull DEF AnyMatch, TypeOK
<1>2. Abreast' /\ \A t \in Players : Ahead(t)'
  <2>1. CASE rounds[s] = rounds[Other(s)]
    BY <2>1, ResolvedFirst
  <2>2. CASE rounds[Other(s)] > rounds[s]
    BY <2>2, ResolvedSecond
  <2>3. QED  BY <1>1, <2>1, <2>2
<1>3. \A t \in Players :
        (timers[t] = 0 /\ InStep(t) /\ LastOnItsWay(t) /\ SeenRoundEnd(t) /\ EndedOnce(t))'
  BY ResolvedInStep
<1>4. QED  BY <1>2, <1>3, TwoServers DEF Lockstep

LEMMA LockstepNext == AnyMatch /\ InLockstep /\ [Next]_vars => InLockstep'
<1> SUFFICES ASSUME AnyMatch, InLockstep, [Next]_vars, Undisturbed' PROVE Lockstep'
  BY DEF InLockstep
<1>1. CASE Quiet
  <2>1. UNCHANGED <<replicas, lookup, forwards, applied, missed, autoplay, results>>
    BY <1>1, QuietSteps
  <2>2. Lockstep
    BY <2>1 DEF InLockstep, Undisturbed
  <2>3. \A p \in Players : Transit(p)' = Transit(p)
    BY <2>1 DEF Transit
  <2>4. QED  BY <2>1, <2>2, <2>3, LockstepKept
<1>2. ASSUME NEW p \in Players, NEW c \in CardIds, FindPlayerMatch(p, c) PROVE Lockstep'
  <2>1. UNCHANGED <<missed, clients>>
    BY <1>2 DEF FindPlayerMatch
  <2>2. Lockstep /\ Patient
    BY <2>1 DEF InLockstep, Undisturbed, clients
  <2>3. QED  BY <1>2, <2>2, LockstepFind
<1>3. ASSUME NEW p \in Players, PlayCard(p) PROVE Lockstep'
  <2>1. UNCHANGED <<missed, clients>>
    BY <1>3 DEF PlayCard
  <2>2. Lockstep
    BY <2>1 DEF InLockstep, Undisturbed, clients
  <2>3. QED  BY <1>3, <2>2, LockstepPlay
<1>4. ASSUME NEW m \in forwards, OnTheWay(m) PROVE Lockstep'
  <2>1. /\ UNCHANGED <<replicas, life, lookup, applied, clients>>
        /\ missed => missed'
        /\ \/ missed'
           \/ \A q \in Players : Transit(q)' = Transit(q)
           \/ \E st \in {"posted", "found"} : m.at = m.player /\ \A q \in Players :
                Transit(q)' = IF q = m.player THEN (Transit(q) \ {m}) \cup {[m EXCEPT !.stage = st]}
                                              ELSE Transit(q)
    BY <1>4, OnTheWaySteps
  <2>2. ~missed' /\ Lockstep
    BY <2>1 DEF InLockstep, Undisturbed, clients
  <2>3. UNCHANGED <<replicas, lookup, applied, results>>
    BY <2>1 DEF clients
  <2>4. CASE \A q \in Players : Transit(q)' = Transit(q)
    BY <2>2, <2>3, <2>4, LockstepKept
  <2>5. CASE \E st \in {"posted", "found"} : m.at = m.player /\ \A q \in Players :
               Transit(q)' = IF q = m.player THEN (Transit(q) \ {m}) \cup {[m EXCEPT !.stage = st]}
                                             ELSE Transit(q)
    <3>1. PICK st \in {"posted", "found"} : m.at = m.player /\ \A q \in Players :
               Transit(q)' = IF q = m.player THEN (Transit(q) \ {m}) \cup {[m EXCEPT !.stage = st]}
                                             ELSE Transit(q)
      BY <2>5
    <3>2. m \in Forwards
      BY DEF AnyMatch, TypeOK
    <3>3. [m EXCEPT !.stage = st].n = m.n /\ [m EXCEPT !.stage = st].card = m.card
      BY <3>2 DEF Forwards
    <3>4. m \in Transit(m.player)
      BY <3>1 DEF Transit
    <3>5. \A q \in Players :
            \/ Transit(q)' = Transit(q)
            \/ \E d \in Transit(q) : \E f : /\ Transit(q)' = (Transit(q) \ {d}) \cup {f}
                                            /\ f.n = d.n /\ f.card = d.card
      BY <3>1, <3>3, <3>4
    <3>6. QED  BY <2>2, <2>3, <3>5, LockstepKept
  <2>6. QED  BY <2>1, <2>2, <2>4, <2>5
<1>5. ASSUME NEW m \in forwards, PlayForwardedCard(m) PROVE Lockstep'
  <2>1. UNCHANGED <<missed, clients>>
    BY <1>5 DEF PlayForwardedCard
  <2>2. Lockstep
    BY <2>1 DEF InLockstep, Undisturbed, clients
  <2>3. QED  BY <1>5, <2>2, LockstepForwarded
<1>6. ASSUME NEW s \in Servers, ResolveRound(s) PROVE Lockstep'
  <2>1. UNCHANGED <<missed, autoplay>>
    BY <1>6, ResolveRoundAny
  <2>2. Lockstep /\ autoplay = {}
    BY <2>1 DEF InLockstep, Undisturbed
  <2>3. QED  BY <1>6, <2>2, TwoServers, LockstepResolve
<1>7. ASSUME NEW s \in Servers, AutoplayIfNeeded(s) PROVE Lockstep'
  <2>1. UNCHANGED <<missed, autoplay>> /\ timers[s] # 0
    BY <1>7, AutoplayAny
  <2>2. Lockstep
    BY <2>1 DEF InLockstep, Undisturbed
  <2>3. QED  BY <2>1, <2>2 DEF Lockstep
<1>8. CASE UNCHANGED vars
  <2>1. /\ UNCHANGED <<replicas, lookup, applied, results, missed, autoplay>>
        /\ \A p \in Players : Transit(p)' = Transit(p)
    BY <1>8 DEF vars, clients, Transit
  <2>2. Lockstep
    BY <2>1 DEF InLockstep, Undisturbed
  <2>3. QED  BY <2>1, <2>2, LockstepKept
<1>9. QED  BY <1>1, <1>2, <1>3, <1>4, <1>5, <1>6, <1>7, <1>8
           DEF Next, Deliver, Replica, Quiet, OnTheWay

LEMMA LockstepAlways == Spec => [](AnyMatch /\ InLockstep)
<1>1. Init => AnyMatch /\ InLockstep
  BY AnyMatchInit, LockstepInit
<1>2. (AnyMatch /\ InLockstep) /\ [Next]_vars => (AnyMatch /\ InLockstep)'
  BY AnyMatchNext, LockstepNext
<1>3. QED  BY <1>1, <1>2, PTL DEF Spec

(* In an undisturbed match the HP of the two replicas are the same whenever *)
(* they have resolved as many rounds, although each computes them by itself *)
(* from cards that reach it in an order of their own.                        *)
THEOREM Agreement == Spec => []ReplicasAgree
<1>1. InLockstep => ReplicasAgree
  BY DEF InLockstep, Lockstep, Abreast, ReplicasAgree
<1>2. QED  BY <1>1, LockstepAlways, PTL

(* The two players of an undisturbed match are never told results that       *)
(* contradict each other, although nothing is sent between the replicas      *)
(* when the match ends.                                                      *)
THEOREM ResultsAgreement == Spec => []ResultsAgree
<1>1. ASSUME AnyMatch, InLockstep PROVE ResultsAgree
  <2> SUFFICES ASSUME Lockstep, NEW p \in Players
               PROVE  /\ "WIN" \in results[p] => results[Other(p)] \subseteq {"LOSE"}
                      /\ "DRAW" \in results[p] => results[Other(p)] \subseteq {"DRAW"}
    BY <1>1 DEF ResultsAgree, InLockstep
  <2> DEFINE o == Other(p)
  <2>1. o \in Players /\ Other(o) = p /\ Other(p) = o /\ Servers = Players
    BY TwoServers
  <2>2. EndedOnce(p) /\ EndedOnce(o) /\ Ahead(p) /\ Ahead(o)
    BY <2>1 DEF Lockstep
  <2>3. CASE results[p] = {} \/ results[o] = {}
    BY <2>3
  <2> HIDE DEF o
  <2>4. CASE results[p] # {} /\ results[o] # {}
    <3>1. /\ state[p] = "ENDED" /\ results[p] \subseteq {Result(hp[p], p)}
          /\ state[o] = "ENDED" /\ results[o] \subseteq {Result(hp[o], o)}
          /\ GameOver(hp[p])
      BY <2>2, <2>4 DEF EndedOnce
    <3>2. rounds[p] = rounds[o]
      <4>1. rounds[p] \in Nat /\ rounds[o] \in Nat
        BY <1>1, <2>1 DEF AnyMatch, TypeOK
      <4>2. ~(rounds[p] > rounds[o]) /\ ~(rounds[o] > rounds[p])
        BY <2>1, <2>2, <3>1 DEF Ahead
      <4>3. QED  BY <4>1, <4>2
    <3>3. hp[p] = hp[o]
      BY <2>1, <3>2, AbreastOf DEF Lockstep
    <3>4. hp[p] \in [Players -> Int]
      BY <1>1, <2>1 DEF AnyMatch, TypeOK
    <3>5. /\ Result(hp[p], p) = "WIN" => Result(hp[p], o) = "LOSE"
          /\ Result(hp[p], p) = "DRAW" => Result(hp[p], o) = "DRAW"
      BY <2>1, <3>1, <3>4, ResultsMatch
    <3>6. QED  BY <2>1, <3>1, <3>3, <3>5
  <2>5. QED  BY <2>1, <2>3, <2>4
<1>2. QED  BY <1>1, LockstepAlways, PTL
----------------------------------------------------------------------------
(* The two replicas as one duel.                                             *)

\* The rules of the duel are those of the replicas.
LEMMA SameRules ==
  /\ OneDuel!Players = Players /\ OneDuel!CardIds = CardIds
  /\ \A p : OneDuel!Other(p) = Other(p)
  /\ \A c, d : OneDuel!DamageDealt(c, d) = DamageDealt(c, d)
  /\ \A w : OneDuel!BothPlayed(w) <=> BothPlayed(w)
  /\ \A h : OneDuel!GameOver(h) <=> GameOver(h)
  /\ \A h, p : OneDuel!Result(h, p) = Result(h, p)
<1>1. OneDuel!Players = Players /\ OneDuel!CardIds = CardIds /\ \A p : OneDuel!Other(p) = Other(p)
  BY DEF OneDuel!Players, Players, OneDuel!CardIds, CardIds, OneDuel!Other, Other
<1>2. \A c : OneDuel!GetCard(c) = GetCard(c)
  BY <1>1 DEF OneDuel!GetCard, GetCard
<1>3. \A a, b : OneDuel!ElementalBonus(a, b) = ElementalBonus(a, b)
  BY DEF OneDuel!ElementalBonus, ElementalBonus, OneDuel!ElementalATKBonus, ElementalATKBonus
<1>4. \A c, d : OneDuel!DamageDealt(c, d) = DamageDealt(c, d)
  BY <1>2, <1>3 DEF OneDuel!DamageDealt, DamageDealt
<1>5. /\ \A w : OneDuel!BothPlayed(w) <=> BothPlayed(w)
      /\ \A h : OneDuel!GameOver(h) <=> GameOver(h)
      /\ \A h, p : OneDuel!Result(h, p) = Result(h, p)
  BY <1>1 DEF OneDuel!BothPlayed, BothPlayed, OneDuel!GameOver, GameOver, OneDuel!Result, Result
<1>6. QED  BY <1>1, <1>4, <1>5

\* The replica in front is one of the two, and no other is further.
LEMMA InFront ==
  ASSUME rounds \in [Players -> Nat], NEW s \in Players, ~(rounds[Other(s)] > rounds[s])
  PROVE  /\ Front \in Players /\ rounds[Front] = rounds[s]
         /\ rounds[s] > rounds[Other(s)] => Front = s
<1>1. (s = Host /\ Other(s) = Guest) \/ (s = Guest /\ Other(s) = Host)
  BY TwoServers DEF Host, Guest, Other, Players
<1>2. Host \in Players /\ Guest \in Players
  BY TwoServers
<1>3. QED  BY <1>1, <1>2 DEF Front

\* Its HP are those of every replica that is as far.
LEMMA FrontHP ==
  ASSUME AnyMatch, Lockstep, NEW s \in Players, ~(rounds[Other(s)] > rounds[s])
  PROVE  hp[Front] = hp[s]
<1>1. rounds \in [Players -> Nat] /\ Other(s) \in Players
  BY TwoServers DEF AnyMatch, TypeOK
<1>2. CASE rounds[s] > rounds[Other(s)]
  BY <1>1, <1>2, InFront
<1>3. CASE rounds[s] = rounds[Other(s)]
  <2>1. Front \in {s, Other(s)}
    BY <1>1, InFront, TwoServers
  <2>2. hp[s] = hp[Other(s)]
    BY <1>3, AbreastOf DEF Lockstep
  <2>3. QED  BY <2>1, <2>2
<1>4. QED  BY <1>1, <1>2, <1>3

LEMMA DuelKept ==
  ASSUME UNCHANGED <<hp, rounds, results>>, \A p \in Players : waiting'[p][p] = waiting[p][p]
  PROVE  UNCHANGED OneDuel!vars
<1>1. Front' = Front /\ hp[Front]' = hp[Front]
  BY DEF Front
<1>2. Laid' = Laid
  BY <1>1 DEF Laid
<1>3. QED  BY <1>1, <1>2 DEF OneDuel!vars

\* A play on the player's own server lays the card of the duel.
LEMMA DuelPlay ==
  ASSUME AnyMatch, Lockstep, NEW p \in Players, PlayCard(p)
  PROVE  OneDuel!Next
<1>1. /\ lookup[p] # NoCard /\ LayCard(p, p, lookup[p])
      /\ UNCHANGED <<hp, rounds, results>>
  BY DEF PlayCard, clients
<1>2. /\ TypeOK /\ lookup[p] \in CardIds /\ Servers = Players /\ Other(p) \in Players
      /\ rounds \in [Players -> Nat] /\ \A q \in Players : q = p \/ q = Other(p)
  BY <1>1, TwoServers DEF AnyMatch, TypeOK
<1>3. /\ state[p] = "AWAITING_PLAYS" /\ rounds[p] = rounds[Other(p)]
      /\ applied[p][p] = rounds[p] /\ InStep(p) /\ EndedOnce(p)
  BY <1>1, <1>2 DEF Lockstep, SeenRoundEnd
<1>4. /\ waiting'[p][p] = lookup[p]
      /\ \A q \in Players : q # p => waiting'[q][q] = waiting[q][q]
  BY <1>1, <1>2, LayCardTyped
<1>5. hp[Front] = hp[p] /\ \A q \in Players : rounds[q] = rounds[Front]
  BY <1>2, <1>3, FrontHP, InFront
<1>6. ~GameOver(hp[Front])
  BY <1>3, <1>5 DEF EndedOnce
<1>7. Laid[p] = NoCard
  BY <1>2, <1>3, <1>5 DEF Laid, InStep
<1>8. Front' = Front /\ hp[Front]' = hp[Front]
  BY <1>1 DEF Front
<1>9. Laid' = [Laid EXCEPT ![p] = lookup[p]]
  BY <1>1, <1>4, <1>5, <1>8 DEF Laid
<1>10. OneDuel!Lay(p, lookup[p])
  BY <1>1, <1>6, <1>7, <1>8, <1>9, SameRules DEF OneDuel!Lay
<1>11. QED  BY <1>2, <1>10, SameRules DEF OneDuel!Next

\* Who resolves a round that ends the match may tell the own player; nobody else is told.
LEMMA TellsOwn ==
  ASSUME AnyMatch, NEW s \in Players, ResolveRound(s), results[s] = {}
  PROVE  \/ results' = results
         \/ results' = [p \in Players |-> IF p \in {s} /\ GameOver(hp'[s])
                                            THEN {Result(hp'[s], p)} ELSE results[p]]
<1>1. results \in [Players -> SUBSET Results]
  BY DEF AnyMatch, TypeOK
<1>2. CASE results' = results
  BY <1>2
<1>3. CASE GameOver(hp'[s]) /\ results' = [results EXCEPT ![s] = @ \cup {Result(hp'[s], s)}]
  BY <1>1, <1>3
<1>4. QED  BY <1>1, <1>2, <1>3, TwoServers DEF ResolveRound

\* The replica that resolves a round first resolves that of the duel.
LEMMA DuelRound ==
  ASSUME AnyMatch, Lockstep, Lockstep', NEW s \in Players, ResolveRound(s),
         rounds[s] = rounds[Other(s)]
  PROVE  OneDuel!Next
<1> DEFINE o == Other(s)
<1>1. /\ o \in Players /\ o # s /\ \A q \in Players : q = s \/ q = o
      /\ Servers = Players /\ AnyMatch'
      /\ rounds \in [Players -> Nat] /\ rounds' \in [Players -> Nat]
  BY TwoServers, ResolveRoundAny DEF AnyMatch, TypeOK
<1>2. /\ hp'[s] = Hurt(s) /\ rounds'[s] = rounds[s] + 1 /\ rounds'[o] = rounds[o]
      /\ waiting'[s][s] = NoCard
  BY <1>1, ResolveRoundAny
<1>3. results[s] = {} /\ \A p \in Players : waiting[s][p] \in CardIds
  BY ResolvedIsFull
<1>4. \A p \in Players : waiting[p][p] = waiting[s][p]
  <2>1. waiting[o][o] = waiting[s][o]
    <3>1. Due(o, o, waiting[s][o])
      BY <1>1, ResolvedIsDue
    <3>2. QED  BY <1>1, <3>1, TwoServers DEF Due
  <2>2. QED  BY <1>1, <2>1
<1>5. hp[Front] = hp[s] /\ rounds[Front] = rounds[s]
  BY <1>1, FrontHP, InFront
<1>6. Laid = [p \in Players |-> waiting[s][p]]
  BY <1>1, <1>4, <1>5 DEF Laid
<1>7. Front' = s
  <2>1. (s = Host /\ o = Guest) \/ (s = Guest /\ o = Host)
    BY <1>1, TwoServers DEF Host, Guest, Other, Players
  <2>2. QED  BY <1>1, <1>2, <2>1 DEF Front
<1>8. Laid' = [p \in Players |-> NoCard]
  BY <1>1, <1>2, <1>7 DEF Laid
<1>9. hp[Front]' = [p \in Players |-> hp[Front][p] - DamageDealt(Laid[Other(p)], Laid[p])]
  BY <1>2, <1>5, <1>6, <1>7, TwoServers DEF Hurt
<1>10. BothPlayed(Laid)
  BY <1>3, <1>6, NoCardAssumption DEF BothPlayed
<1>11. \E players \in SUBSET Players : OneDuel!Tell(players)
  <2>1. CASE results' = results
    <3>1. OneDuel!Tell({})
      BY <1>1, <2>1, SameRules DEF OneDuel!Tell, AnyMatch, TypeOK
    <3>2. QED  BY <3>1
  <2>2. CASE results' = [p \in Players |-> IF p \in {s} /\ GameOver(hp'[s])
                                             THEN {Result(hp'[s], p)} ELSE results[p]]
    <3>1. OneDuel!Tell({s})
      BY <1>7, <2>2, SameRules DEF OneDuel!Tell
    <3>2. QED  BY <3>1
  <2>3. QED  BY <1>3, <2>1, <2>2, TellsOwn
<1>12. OneDuel!Round
  BY <1>8, <1>9, <1>10, <1>11, SameRules DEF OneDuel!Round
<1>13. QED  BY <1>12 DEF OneDuel!Next

\* The other one adds nothing but that its player hears of the result.
LEMMA DuelHeard ==
  ASSUME AnyMatch, Lockstep, Lockstep', NEW s \in Players, ResolveRound(s),
         rounds[Other(s)] > rounds[s]
  PROVE  OneDuel!Next \/ UNCHANGED OneDuel!vars
<1> DEFINE o == Other(s)
<1>1. /\ o \in Players /\ o # s /\ Other(o) = s /\ \A q \in Players : q = s \/ q = o
      /\ Servers = Players /\ AnyMatch'
      /\ rounds \in [Players -> Nat] /\ rounds' \in [Players -> Nat]
  BY TwoServers, ResolveRoundAny DEF AnyMatch, TypeOK
<1>2. /\ rounds'[s] = rounds[s] + 1 /\ waiting'[s][s] = NoCard
      /\ hp'[o] = hp[o] /\ rounds'[o] = rounds[o] /\ waiting'[o] = waiting[o]
  BY <1>1, ResolveRoundAny
<1>3. results[s] = {}
  BY ResolvedIsFull
<1>4. rounds[o] = rounds[s] + 1 /\ waiting[o][o] = NoCard
  BY <1>1 DEF Lockstep, Ahead
<1>5. hp[Front] = hp[o] /\ rounds[Front] = rounds[o]
  BY <1>1, FrontHP, InFront
<1>6. Front' \in Players /\ rounds'[Front'] = rounds'[s] /\ rounds'[s] = rounds'[o]
  BY <1>1, <1>2, <1>4, TwoServers DEF Front
<1>7. hp'[s] = hp'[o] /\ hp[Front]' = hp'[s]
  BY <1>1, <1>6 DEF Lockstep, Abreast, Host, Guest, Players
<1>8. Laid = [p \in Players |-> NoCard]
  BY <1>1, <1>4, <1>5 DEF Laid
<1>9. Laid' = [p \in Players |-> NoCard]
  BY <1>1, <1>2, <1>4 DEF Laid
<1>10. hp[Front]' = hp[Front] /\ Laid' = Laid
  BY <1>2, <1>5, <1>7, <1>8, <1>9
<1>11. CASE results' = results
  BY <1>10, <1>11 DEF OneDuel!vars
<1>12. CASE results' = [p \in Players |-> IF p \in {s} /\ GameOver(hp'[s])
                                            THEN {Result(hp'[s], p)} ELSE results[p]]
  <2>1. OneDuel!Tell({s})
    BY <1>7, <1>12, SameRules DEF OneDuel!Tell
  <2>2. OneDuel!Hear(s)
    BY <1>10, <2>1 DEF OneDuel!Hear
  <2>3. QED  BY <2>2, SameRules DEF OneDuel!Next
<1>13. QED  BY <1>3, <1>11, <1>12, TellsOwn

LEMMA DuelStep ==
  ASSUME AnyMatch, InLockstep, InLockstep', [Next]_vars, Undisturbed'
  PROVE  OneDuel!Next \/ UNCHANGED OneDuel!vars
<1>1. Lockstep' /\ Servers = Players
  BY TwoServers DEF InLockstep
<1>2. ASSUME UNCHANGED <<hp, rounds, waiting, results>> PROVE UNCHANGED OneDuel!vars
  BY <1>2, DuelKept
<1>3. CASE Quiet
  BY <1>2, <1>3, QuietSteps DEF replicas
<1>4. ASSUME NEW p \in Players, NEW c \in CardIds, FindPlayerMatch(p, c)
      PROVE  UNCHANGED OneDuel!vars
  BY <1>2, <1>4 DEF FindPlayerMatch, replicas, clients
<1>5. ASSUME NEW p \in Players, PlayCard(p) PROVE OneDuel!Next
  <2>1. Lockstep
    BY <1>5 DEF PlayCard, clients, InLockstep, Undisturbed
  <2>2. QED  BY <1>5, <2>1, DuelPlay
<1>6. ASSUME NEW m \in forwards, OnTheWay(m) PROVE UNCHANGED OneDuel!vars
  BY <1>2, <1>6, OnTheWaySteps DEF replicas, clients
<1>7. ASSUME NEW m \in forwards, PlayForwardedCard(m) PROVE UNCHANGED OneDuel!vars
  <2>1. /\ LayCard(Other(m.player), m.player, m.card) /\ m.player \in Players
        /\ m.card \in CardIds /\ UNCHANGED <<hp, rounds, results>>
    <3>1. m.player \in Players /\ m.card \in CardIds
      BY <1>7, PlayForwardedCardAny
    <3>2. QED  BY <1>7, <3>1 DEF PlayForwardedCard, clients
  <2>2. Other(m.player) \in Players /\ Other(m.player) # m.player
    BY <2>1, TwoServers
  <2>3. \A t, q \in Players : t # Other(m.player) \/ q # m.player => waiting'[t][q] = waiting[t][q]
    BY <1>1, <2>1, <2>2, LayCardTyped DEF AnyMatch
  <2>4. QED  BY <2>1, <2>2, <2>3, DuelKept
<1>8. ASSUME NEW s \in Players, ResolveRound(s)
      PROVE  OneDuel!Next \/ UNCHANGED OneDuel!vars
  <2>1. Lockstep
    BY <1>1, <1>8, ResolveRoundAny DEF InLockstep, Undisturbed
  <2>2. /\ rounds[s] \in Nat /\ rounds[Other(s)] \in Nat
        /\ ~(rounds[s] > rounds[Other(s)])
    BY <1>8, <2>1, TwoServers, ResolvedIsFull DEF AnyMatch, TypeOK
  <2>3. CASE rounds[s] = rounds[Other(s)]
    BY <1>1, <1>8, <2>1, <2>3, DuelRound
  <2>4. CASE rounds[Other(s)] > rounds[s]
    BY <1>1, <1>8, <2>1, <2>4, DuelHeard
  <2>5. QED  BY <2>2, <2>3, <2>4
<1>9. ASSUME NEW s \in Players, AutoplayIfNeeded(s) PROVE FALSE
  <2>1. UNCHANGED <<missed, autoplay>> /\ timers[s] # 0
    BY <1>1, <1>9, AutoplayAny
  <2>2. QED  BY <1>1, <2>1 DEF InLockstep, Undisturbed, Lockstep
<1>10. CASE UNCHANGED vars
  BY <1>2, <1>10 DEF vars, replicas, clients
<1>11. QED  BY <1>1, <1>3, <1>4, <1>5, <1>6, <1>7, <1>8, <1>9, <1>10
            DEF Next, Deliver, Replica, Quiet, OnTheWay

LEMMA DuelInit == Init => OneDuel!Init
<1> SUFFICES ASSUME Init PROVE OneDuel!Init
  OBVIOUS
<1>1. \A s \in Players : /\ hp[s] = [p \in Players |-> HPStart] /\ waiting[s][s] = NoCard
                         /\ rounds[s] = 0
  BY TwoServers DEF Init
<1>2. Front \in Players /\ results = [p \in Players |-> {}]
  BY TwoServers DEF Init, Front
<1>3. Laid = [p \in Players |-> NoCard]
  BY <1>1, <1>2 DEF Laid
<1>4. QED  BY <1>1, <1>2, <1>3, SameRules DEF OneDuel!Init

(* For every card database, starting HP and bound: whatever order the plays *)
(* of an undisturbed match reach the two replicas in, each step of the match *)
(* is a step of one duel or none.                                            *)
THEOREM ImplementsDuel == Spec => PlaysOneDuel
<1>1. AnyMatch /\ InLockstep /\ InLockstep' /\ [Next]_vars
        => [Undisturbed' => OneDuel!Next]_(OneDuel!vars)
  BY DuelStep
<1>2. QED  BY <1>1, DuelInit, LockstepAlways, PTL DEF Spec, PlaysOneDuel

(* So a match that stays undisturbed is a duel from its start to its end.    *)
THEOREM UndisturbedIsDuel == Spec /\ []Undisturbed => OneDuel!Spec
<1>1. AnyMatch /\ InLockstep /\ InLockstep' /\ [Next]_vars /\ Undisturbed'
        => [OneDuel!Next]_(OneDuel!vars)
  BY DuelStep
<1>2. QED  BY <1>1, DuelInit, LockstepAlways, PTL DEF Spec, OneDuel!Spec
=============================================================================
