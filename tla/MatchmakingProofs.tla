------------------------- MODULE MatchmakingProofs --------------------------
(***************************************************************************)
(* Proofs about Matchmaking, for every number of servers, all players and  *)
(* homes, and every bound on what is asked and what fails.                 *)
(***************************************************************************)
EXTENDS Matchmaking, SeqLemmas, FiniteSetTheorems

(* What the loop of a server knows of the match it is making: the first     *)
(* player is one of its own; so is the second one, or the second one is one *)
(* of another server, which has agreed to the match before the first player *)
(* is taken from the queue.                                                  *)
JobFits(s) ==
  /\ pc[s] \notin {"away", "queue", "pass"} => job[s].p1 \in Players /\ Home[job[s].p1] = s
  /\ pc[s] \in {"remove", "create"} =>
       job[s].p2 \in Players /\ Home[job[s].p2] = s /\ job[s].p1 # job[s].p2
  /\ pc[s] \in {"request", "drop", "leave queue", "host"} =>
       job[s].p2 \in Players /\ Home[job[s].p2] # s
  /\ pc[s] = "notify" => job[s].p2 \in Players
  /\ pc[s] \in {"leave queue", "host"} => job[s] \in agreed

JobsFit == \A s \in Servers : JobFits(s)

\* A request under way is for players of two servers.
LateFits == \A m \in late : Home[m.p1] # Home[m.p2]

IInv ==
  /\ TypeOK
  /\ JobsFit
  /\ LateFits
  /\ NotAgainstOneself
  /\ HostAfterGuest
  /\ NobodyForgotten

\* A match of two players is a Match.
LEMMA MatchOfJob ==
  ASSUME TypeOK, NEW s \in Servers, job[s].p1 \in Players, job[s].p2 \in Players
  PROVE  job[s] \in Match
<1>1. job[s] \in Jobs
  BY DEF TypeOK
<1>2. QED  BY <1>1 DEF Match, Jobs

\* What the queues hold when one of them loses a player.
LEMMA QueueRemoved ==
  ASSUME TypeOK, NEW s \in Servers, NEW p, queue' = [queue EXCEPT ![s] = Without(@, p)]
  PROVE  /\ queue' \in [Servers -> Seq(Players)] /\ QueuedOnce'
         /\ Range(queue'[s]) = Range(queue[s]) \ {p}
         /\ \A t \in Servers : t # s => queue'[t] = queue[t]
<1>1. /\ queue \in [Servers -> Seq(Players)] /\ QueuedOnce
      /\ queue'[s] = RemoveFirst(queue[s], p)
      /\ \A t \in Servers : t # s => queue'[t] = queue[t]
  BY DEF TypeOK, Without
<1>2. queue[s] \in Seq(Players) /\ IsInjective(queue[s])
  BY <1>1 DEF QueuedOnce
<1>3. /\ queue'[s] \in Seq(Players) /\ IsInjective(queue'[s])
      /\ Range(queue'[s]) = Range(queue[s]) \ {p}
  BY <1>1, <1>2, RemoveFirstRange
<1>4. queue' \in [Servers -> Seq(Players)]
  BY <1>1, <1>3
<1>5. ASSUME NEW t \in Servers
      PROVE  IsInjective(queue'[t]) /\ Range(queue'[t]) \subseteq {r \in Players : Home[r] = t}
  <2>1. CASE t = s
    BY <1>1, <1>3, <2>1 DEF QueuedOnce
  <2>2. CASE t # s
    BY <1>1, <2>2 DEF QueuedOnce
  <2>3. QED  BY <2>1, <2>2
<1>6. QED  BY <1>1, <1>3, <1>4, <1>5 DEF QueuedOnce

\* The same when both players of a match are removed.
LEMMA QueueRemovedTwice ==
  ASSUME TypeOK, NEW s \in Servers, NEW p, NEW r,
         queue' = [queue EXCEPT ![s] = Without(Without(@, p), r)]
  PROVE  /\ queue' \in [Servers -> Seq(Players)] /\ QueuedOnce'
         /\ Range(queue'[s]) = Range(queue[s]) \ {p, r}
         /\ \A t \in Servers : t # s => queue'[t] = queue[t]
<1>1. /\ queue \in [Servers -> Seq(Players)] /\ QueuedOnce
      /\ queue'[s] = RemoveFirst(RemoveFirst(queue[s], p), r)
      /\ \A t \in Servers : t # s => queue'[t] = queue[t]
  BY DEF TypeOK, Without
<1>2. queue[s] \in Seq(Players) /\ IsInjective(queue[s])
  BY <1>1 DEF QueuedOnce
<1> DEFINE q == RemoveFirst(queue[s], p)
<1>3. q \in Seq(Players) /\ IsInjective(q) /\ Range(q) = Range(queue[s]) \ {p}
  BY <1>2, RemoveFirstRange
<1>4. queue'[s] = RemoveFirst(q, r)
  BY <1>1
<1> HIDE DEF q
<1>5. /\ queue'[s] \in Seq(Players) /\ IsInjective(queue'[s])
      /\ Range(queue'[s]) = Range(q) \ {r}
  BY <1>3, <1>4, RemoveFirstRange
<1>6. Range(queue'[s]) = Range(queue[s]) \ {p, r}
  BY <1>3, <1>5
<1>7. queue' \in [Servers -> Seq(Players)]
  <2>1. DOMAIN queue' = Servers /\ queue' = [t \in Servers |-> queue'[t]]
    BY <1>1
  <2>2. QED  BY <1>1, <1>5, <2>1
<1>8. ASSUME NEW t \in Servers
      PROVE  IsInjective(queue'[t]) /\ Range(queue'[t]) \subseteq {x \in Players : Home[x] = t}
  <2>1. CASE t = s
    BY <1>1, <1>5, <1>6, <2>1 DEF QueuedOnce
  <2>2. CASE t # s
    BY <1>1, <2>2 DEF QueuedOnce
  <2>3. QED  BY <2>1, <2>2
<1>9. QED  BY <1>1, <1>6, <1>7, <1>8 DEF QueuedOnce

\* And when a player is added, unless that player waits already.
LEMMA QueueAdded ==
  ASSUME TypeOK, NEW p \in Players, AddPlayerToQueue(p)
  PROVE  /\ queue' \in [Servers -> Seq(Players)] /\ QueuedOnce'
         /\ p \in Range(queue'[Home[p]])
         /\ \A t \in Servers : Range(queue[t]) \subseteq Range(queue'[t])
<1>1. queue \in [Servers -> Seq(Players)] /\ QueuedOnce /\ Home[p] \in Servers
  BY HomeAssumption DEF TypeOK
<1>2. CASE p \in Range(queue[Home[p]])
  BY <1>1, <1>2 DEF AddPlayerToQueue, QueuedOnce
<1>3. CASE p \notin Range(queue[Home[p]])
  <2>1. /\ queue'[Home[p]] = Append(queue[Home[p]], p)
        /\ \A t \in Servers : t # Home[p] => queue'[t] = queue[t]
        /\ DOMAIN queue' = Servers /\ queue' = [t \in Servers |-> queue'[t]]
    BY <1>1, <1>3 DEF AddPlayerToQueue
  <2>2. queue[Home[p]] \in Seq(Players) /\ IsInjective(queue[Home[p]])
    BY <1>1 DEF QueuedOnce
  <2>3. /\ queue'[Home[p]] \in Seq(Players) /\ IsInjective(queue'[Home[p]])
        /\ Range(queue'[Home[p]]) = Range(queue[Home[p]]) \cup {p}
    BY <1>3, <2>1, <2>2, AppendRange, AppendProperties
  <2>4. queue' \in [Servers -> Seq(Players)]
    BY <1>1, <2>1, <2>3
  <2>5. ASSUME NEW t \in Servers
        PROVE  /\ IsInjective(queue'[t]) /\ Range(queue'[t]) \subseteq {r \in Players : Home[r] = t}
               /\ Range(queue[t]) \subseteq Range(queue'[t])
    <3>1. CASE t = Home[p]
      BY <1>1, <2>3, <3>1 DEF QueuedOnce
    <3>2. CASE t # Home[p]
      BY <1>1, <2>1, <3>2 DEF QueuedOnce
    <3>3. QED  BY <3>1, <3>2
  <2>6. QED  BY <2>3, <2>4, <2>5 DEF QueuedOnce
<1>4. QED  BY <1>2, <1>3

\* The first player of a queue, and the queue without that player.
LEMMA QueueHead ==
  ASSUME TypeOK, NEW s \in Servers, queue[s] # <<>>
  PROVE  /\ Head(queue[s]) \in Players /\ Home[Head(queue[s])] = s
         /\ Tail(queue[s]) \in Seq(Players) /\ IsInjective(Tail(queue[s]))
         /\ Range(Tail(queue[s])) = Range(queue[s]) \ {Head(queue[s])}
<1>1. /\ queue[s] \in Seq(Players) /\ IsInjective(queue[s])
      /\ Range(queue[s]) \subseteq {r \in Players : Home[r] = s}
  BY DEF TypeOK, QueuedOnce
<1>2. /\ Tail(queue[s]) \in Seq(Players) /\ IsInjective(Tail(queue[s]))
      /\ Head(queue[s]) \in Range(queue[s])
      /\ Range(Tail(queue[s])) = Range(queue[s]) \ {Head(queue[s])}
  BY <1>1, TailRange
<1>3. QED  BY <1>1, <1>2

LEMMA InitInv == Init => IInv
<1> SUFFICES ASSUME Init PROVE IInv
  OBVIOUS
<1>1. TypeOK
  <2>1. queue \in [Servers -> Seq(Players)] /\ QueuedOnce
    BY EmptyRange DEF Init, QueuedOnce
  <2>2. 0 \in 0 .. MaxAsks /\ 0 \in 0 .. MaxFails
    BY BoundsAssumption
  <2>3. NoJob \in Jobs
    BY DEF NoJob, Pair, Jobs
  <2>4. QED  BY <2>1, <2>2, <2>3 DEF Init, TypeOK, Places
<1>2. JobsFit /\ LateFits
  BY DEF Init, JobsFit, JobFits, LateFits
<1>3. NotAgainstOneself /\ HostAfterGuest /\ NobodyForgotten
  BY DEF Init, NotAgainstOneself, HostAfterGuest, NobodyForgotten
<1>4. QED  BY <1>1, <1>2, <1>3 DEF IInv

\* A step of the loop of one server leaves the matches the others are making alone.
LEMMA OtherJobs ==
  ASSUME JobsFit, NEW s \in Servers, agreed \subseteq agreed', JobFits(s)',
         \A t \in Servers : t # s => pc'[t] = pc[t] /\ job'[t] = job[t]
  PROVE  JobsFit'
<1> SUFFICES ASSUME NEW t \in Servers, t # s PROVE JobFits(t)'
  BY DEF JobsFit
<1>1. JobFits(t) /\ pc'[t] = pc[t] /\ job'[t] = job[t]
  BY DEF JobsFit
<1>2. QED  BY <1>1 DEF JobFits

\* Who asks, waits or leaves does not touch what the loops are making.
LEMMA SendFindMatchInv ==
  ASSUME IInv, NEW p \in Players, SendFindMatch(p)
  PROVE  IInv'
<1>1. asks' \in 0 .. MaxAsks /\ asking' \subseteq Players /\ orderly' \in BOOLEAN
  <2>1. asks \in 0 .. MaxAsks /\ asks < MaxAsks /\ asks' = asks + 1
    BY DEF IInv, TypeOK, SendFindMatch
  <2>2. asks' \in 0 .. MaxAsks
    BY <2>1, BoundsAssumption
  <2>3. asking' \subseteq Players
    BY DEF IInv, TypeOK, SendFindMatch
  <2>4. orderly' \in BOOLEAN
    BY DEF IInv, TypeOK, SendFindMatch
  <2>5. QED  BY <2>2, <2>3, <2>4
<1>2. UNCHANGED <<conn, seeks, queue, matches, turn, pc, job, search, late, agreed, made, fails>>
  BY DEF SendFindMatch, service
<1>3. TypeOK'
  BY <1>1, <1>2 DEF IInv, TypeOK, QueuedOnce
<1>4. JobsFit' /\ LateFits'
  BY <1>2 DEF IInv, JobsFit, JobFits, LateFits
<1>5. NotAgainstOneself' /\ HostAfterGuest'
  BY <1>2 DEF IInv, NotAgainstOneself, HostAfterGuest
<1>6. NobodyForgotten'
  BY <1>2 DEF IInv, NobodyForgotten, Online, InHand, Plays
<1>7. QED  BY <1>3, <1>4, <1>5, <1>6 DEF IInv

LEMMA HandleFindMatchInv ==
  ASSUME IInv, NEW p \in Players, HandleFindMatch(p)
  PROVE  IInv'
<1>1. /\ queue' \in [Servers -> Seq(Players)] /\ QueuedOnce'
      /\ p \in Range(queue'[Home[p]])
      /\ \A t \in Servers : Range(queue[t]) \subseteq Range(queue'[t])
  BY QueueAdded DEF IInv, HandleFindMatch
<1>2. UNCHANGED <<conn, asks, orderly, matches, turn, pc, job, search, late, agreed, made, fails>>
  BY DEF HandleFindMatch, service
<1>3. asking' \subseteq Players /\ seeks' \subseteq Players /\ seeks' \subseteq seeks \cup {p}
  BY DEF IInv, TypeOK, HandleFindMatch
<1>4. TypeOK'
  BY <1>1, <1>2, <1>3 DEF IInv, TypeOK
<1>5. JobsFit' /\ LateFits'
  BY <1>2 DEF IInv, JobsFit, JobFits, LateFits
<1>6. NotAgainstOneself' /\ HostAfterGuest'
  BY <1>2 DEF IInv, NotAgainstOneself, HostAfterGuest
<1>7. NobodyForgotten'
  <2> SUFFICES ASSUME NEW q \in seeks', Online(q)'
               PROVE  q \in Range(queue'[Home[q]]) \/ InHand(q)'
    BY DEF NobodyForgotten
  <2>1. CASE q = p
    BY <1>1, <2>1
  <2>2. CASE q # p
    <3>1. q \in seeks /\ Online(q) /\ Home[q] \in Servers
      BY <1>2, <1>3, <2>2, HomeAssumption DEF Online
    <3>2. q \in Range(queue[Home[q]]) \/ InHand(q)
      BY <3>1 DEF IInv, NobodyForgotten
    <3>3. QED  BY <1>1, <1>2, <3>1, <3>2 DEF InHand, Plays
  <2>3. QED  BY <2>1, <2>2
<1>8. QED  BY <1>4, <1>5, <1>6, <1>7 DEF IInv

LEMMA CleanupPlayerInv ==
  ASSUME IInv, NEW p \in Players, CleanupPlayer(p)
  PROVE  IInv'
<1>1. Home[p] \in Servers
  BY HomeAssumption
<1>2. /\ queue' \in [Servers -> Seq(Players)] /\ QueuedOnce'
      /\ Range(queue'[Home[p]]) = Range(queue[Home[p]]) \ {p}
      /\ \A t \in Servers : t # Home[p] => queue'[t] = queue[t]
  BY <1>1, QueueRemoved DEF IInv, CleanupPlayer
<1>3. UNCHANGED <<asks, asking, orderly, seeks, turn, pc, job, search, late, agreed, made, fails>>
  BY DEF CleanupPlayer, service
<1>4. /\ conn' \in [Players -> {"online", "gone"}] /\ conn'[p] = "gone"
      /\ \A q \in Players : q # p => conn'[q] = conn[q]
  BY DEF IInv, TypeOK, CleanupPlayer
<1>5. /\ matches' \in [Servers -> SUBSET Match]
      /\ \A s \in Servers : matches'[s] \subseteq matches[s]
  <2>1. matches \in [Servers -> SUBSET Match]
    BY DEF IInv, TypeOK
  <2>2. UNCHANGED matches \/ \E m \in Match : matches' = [matches EXCEPT ![Home[p]] = @ \ {m}]
    BY <1>1, <2>1, Zenon DEF CleanupPlayer, MatchesOf
  <2>3. QED  BY <2>1, <2>2
<1>6. TypeOK'
  BY <1>2, <1>3, <1>4, <1>5 DEF IInv, TypeOK
<1>7. JobsFit' /\ LateFits'
  BY <1>3 DEF IInv, JobsFit, JobFits, LateFits
<1>8. NotAgainstOneself' /\ HostAfterGuest'
  BY <1>3, <1>5 DEF IInv, NotAgainstOneself, HostAfterGuest
<1>9. NobodyForgotten'
  <2> SUFFICES ASSUME NEW q \in seeks', Online(q)'
               PROVE  q \in Range(queue'[Home[q]]) \/ InHand(q)'
    BY DEF NobodyForgotten
  <2>1. q \in seeks /\ q \in Players /\ q # p /\ Online(q) /\ Home[q] \in Servers
    BY <1>3, <1>4, HomeAssumption DEF IInv, TypeOK, Online
  <2>2. q \in Range(queue[Home[q]]) \/ InHand(q)
    BY <2>1 DEF IInv, NobodyForgotten
  <2>3. QED  BY <1>2, <1>3, <2>1, <2>2 DEF InHand, Plays
<1>10. QED  BY <1>6, <1>7, <1>8, <1>9 DEF IInv

LEMMA RemoveMatchInv ==
  ASSUME IInv, NEW s \in Servers, NEW m \in matches[s], RemoveMatch(s, m)
  PROVE  IInv'
<1>1. UNCHANGED <<conn, asks, asking, orderly, seeks, queue, turn, pc, job, search, late, agreed, made, fails>>
  BY DEF RemoveMatch, service, players
<1>2. /\ matches' \in [Servers -> SUBSET Match]
      /\ \A t \in Servers : matches'[t] \subseteq matches[t]
  BY DEF IInv, TypeOK, RemoveMatch
<1>3. TypeOK'
  BY <1>1, <1>2 DEF IInv, TypeOK, QueuedOnce
<1>4. JobsFit' /\ LateFits'
  BY <1>1 DEF IInv, JobsFit, JobFits, LateFits
<1>5. NotAgainstOneself' /\ HostAfterGuest'
  BY <1>1, <1>2 DEF IInv, NotAgainstOneself, HostAfterGuest
<1>6. NobodyForgotten'
  BY <1>1 DEF IInv, NobodyForgotten, Online, InHand, Plays
<1>7. QED  BY <1>3, <1>4, <1>5, <1>6 DEF IInv

\* A step of the loop of s forgets nobody if it forgets no player of s.
LEMMA StillRemembered ==
  ASSUME IInv, NEW s \in Servers, conn' = conn, seeks' \subseteq seeks,
         \A t \in Servers : t # s => queue'[t] = queue[t] /\ pc'[t] = pc[t] /\ job'[t] = job[t],
         \A p \in seeks' : Home[p] = s /\ Online(p) /\ (p \in Range(queue[s]) \/ InHand(p))
                             => p \in Range(queue'[s]) \/ InHand(p)'
  PROVE  NobodyForgotten'
<1> SUFFICES ASSUME NEW p \in seeks', Online(p)'
             PROVE  p \in Range(queue'[Home[p]]) \/ InHand(p)'
  BY DEF NobodyForgotten
<1>1. p \in seeks /\ Online(p) /\ Home[p] \in Servers
  BY HomeAssumption DEF Online, IInv, TypeOK
<1>2. p \in Range(queue[Home[p]]) \/ InHand(p)
  BY <1>1 DEF IInv, NobodyForgotten
<1>3. CASE Home[p] = s
  BY <1>1, <1>2, <1>3
<1>4. CASE Home[p] # s
  BY <1>1, <1>2, <1>4 DEF InHand
<1>5. QED  BY <1>3, <1>4

\* The loop of one server moves, and turns to another match.
LEMMA Goes ==
  ASSUME TypeOK, NEW s \in Servers, NEW place \in Places, GoTo(s, place)
  PROVE  /\ pc' \in [Servers -> Places] /\ pc'[s] = place
         /\ \A t \in Servers : t # s => pc'[t] = pc[t]
BY DEF TypeOK, GoTo

LEMMA TakesJob ==
  ASSUME TypeOK, NEW s \in Servers, NEW j \in Jobs, job' = [job EXCEPT ![s] = j]
  PROVE  /\ job' \in [Servers -> Jobs] /\ job'[s] = j
         /\ \A t \in Servers : t # s => job'[t] = job[t]
BY DEF TypeOK

LEMMA ReceiveTokenInv ==
  ASSUME IInv, NEW s \in Servers, ReceiveToken(s)
  PROVE  IInv'
<1>1. UNCHANGED <<conn, asks, asking, orderly, seeks, queue, matches, job, search, late, agreed, made, fails>>
  BY DEF ReceiveToken, players
<1>2. turn' \in [Servers -> BOOLEAN]
  BY DEF IInv, TypeOK, ReceiveToken
<1>3. /\ pc' \in [Servers -> Places]
      /\ pc[s] = "away" /\ pc'[s] = "queue"
      /\ \A t \in Servers : t # s => pc'[t] = pc[t]
  BY Goes DEF IInv, ReceiveToken, Places
<1>4. TypeOK'
  BY <1>1, <1>2, <1>3 DEF IInv, TypeOK, QueuedOnce
<1>5. JobFits(s)'
  BY <1>3 DEF JobFits
<1>6. JobsFit' /\ LateFits'
  BY <1>1, <1>3, <1>5, OtherJobs DEF IInv, LateFits
<1>7. NotAgainstOneself' /\ HostAfterGuest'
  BY <1>1 DEF IInv, NotAgainstOneself, HostAfterGuest
<1>8. NobodyForgotten'
  <2>1. ASSUME NEW p \in seeks', Home[p] = s, Online(p), p \in Range(queue[s]) \/ InHand(p)
        PROVE  p \in Range(queue'[s]) \/ InHand(p)'
    BY <1>1, <1>3, <2>1 DEF InHand
  <2>2. QED  BY <1>1, <1>3, <2>1, StillRemembered
<1>9. QED  BY <1>4, <1>6, <1>7, <1>8 DEF IInv

LEMMA TakeSnapshotInv ==
  ASSUME IInv, NEW s \in Servers, TakeSnapshot(s)
  PROVE  IInv'
<1>1. UNCHANGED <<conn, asks, asking, orderly, seeks, queue, matches, turn, late, agreed, made, fails>>
  BY DEF TakeSnapshot, players
<1>2. /\ queue[s] \in Seq(Players) /\ IsInjective(queue[s])
      /\ Range(queue[s]) \subseteq {p \in Players : Home[p] = s}
      /\ Len(queue[s]) \in Nat /\ DOMAIN queue[s] = 1 .. Len(queue[s])
  BY LenProperties DEF IInv, TypeOK, QueuedOnce
<1>3. /\ pc[s] = "queue"
      /\ \A t \in Servers : t # s => pc'[t] = pc[t] /\ job'[t] = job[t]
      /\ pc' \in [Servers -> Places]
      /\ job' \in [Servers -> Jobs]
      /\ search' \in [Servers -> SUBSET Servers] /\ \A t \in Servers : t \notin search'[t]
      /\ JobFits(s)'
  <2>1. search \in [Servers -> SUBSET Servers] /\ \A t \in Servers : t \notin search[t]
    BY DEF IInv, TypeOK
  <2>2. CASE TwoWait(queue[s])
    <3>1. queue[s][1] \in Players /\ Home[queue[s][1]] = s
      BY <1>2, <2>2 DEF TwoWait, Range
    <3>2. queue[s][2] \in Players /\ Home[queue[s][2]] = s
      BY <1>2, <2>2 DEF TwoWait, Range
    <3>3. queue[s][1] # queue[s][2]
      BY <1>2, <2>2 DEF TwoWait, IsInjective
    <3>4. /\ GoTo(s, "remove") /\ search' = search /\ pc[s] = "queue"
          /\ job' = [job EXCEPT ![s] = Pair(0, queue[s][1], queue[s][2])]
      <4> DEFINE n == Len(queue[s])
      <4>1. n \in Nat /\ n >= 2
        BY <1>2, <2>2 DEF TwoWait
      <4> HIDE DEF n
      <4>2. n # 1
        BY <4>1
      <4>3. QED  BY <2>2, <4>2, Zenon DEF n, TakeSnapshot
    <3>5. Pair(0, queue[s][1], queue[s][2]) \in Jobs
      BY <3>1, <3>2 DEF Pair, Jobs
    <3>6. /\ pc' \in [Servers -> Places] /\ pc'[s] = "remove"
          /\ job' \in [Servers -> Jobs] /\ job'[s] = Pair(0, queue[s][1], queue[s][2])
          /\ \A t \in Servers : t # s => pc'[t] = pc[t] /\ job'[t] = job[t]
      <4>1. /\ pc' \in [Servers -> Places] /\ pc'[s] = "remove"
            /\ \A t \in Servers : t # s => pc'[t] = pc[t]
        BY <3>4, Goes DEF IInv, Places
      <4>2. /\ job' \in [Servers -> Jobs] /\ job'[s] = Pair(0, queue[s][1], queue[s][2])
            /\ \A t \in Servers : t # s => job'[t] = job[t]
        BY <3>4, <3>5, TakesJob DEF IInv
      <4>3. QED  BY <4>1, <4>2
    <3>7. JobFits(s)'
      BY <3>1, <3>2, <3>3, <3>6 DEF JobFits, Pair
    <3>8. QED  BY <2>1, <3>4, <3>6, <3>7
  <2>3. CASE Len(queue[s]) = 1
    <3>1. queue[s][1] \in Players /\ Home[queue[s][1]] = s
      BY <1>2, <2>3 DEF Range
    <3>2. /\ GoTo(s, "find") /\ search' = [search EXCEPT ![s] = Others(s)] /\ pc[s] = "queue"
          /\ job' = [job EXCEPT ![s] = Pair(0, queue[s][1], NoPlayer)]
      BY <1>2, <2>3 DEF TakeSnapshot, TwoWait
    <3>3. Pair(0, queue[s][1], NoPlayer) \in Jobs
      BY <3>1 DEF Pair, Jobs
    <3>4. /\ pc' \in [Servers -> Places] /\ pc'[s] = "find"
          /\ job' \in [Servers -> Jobs] /\ job'[s] = Pair(0, queue[s][1], NoPlayer)
          /\ \A t \in Servers : t # s => pc'[t] = pc[t] /\ job'[t] = job[t]
      <4>1. /\ pc' \in [Servers -> Places] /\ pc'[s] = "find"
            /\ \A t \in Servers : t # s => pc'[t] = pc[t]
        BY <3>2, Goes DEF IInv, Places
      <4>2. /\ job' \in [Servers -> Jobs] /\ job'[s] = Pair(0, queue[s][1], NoPlayer)
            /\ \A t \in Servers : t # s => job'[t] = job[t]
        BY <3>2, <3>3, TakesJob DEF IInv
      <4>3. QED  BY <4>1, <4>2
    <3>5. JobFits(s)'
      BY <3>1, <3>4 DEF JobFits, Pair
    <3>6. search' \in [Servers -> SUBSET Servers] /\ \A t \in Servers : t \notin search'[t]
      BY <2>1, <3>2 DEF Others
    <3>7. QED  BY <3>2, <3>4, <3>5, <3>6
  <2>4. CASE ~TwoWait(queue[s]) /\ Len(queue[s]) # 1
    <3>1. GoTo(s, "pass") /\ job' = job /\ search' = search /\ pc[s] = "queue"
      BY <2>4 DEF TakeSnapshot
    <3>2. /\ pc' \in [Servers -> Places] /\ pc'[s] = "pass"
          /\ \A t \in Servers : t # s => pc'[t] = pc[t]
      BY <3>1, Goes DEF IInv, Places
    <3>3. JobFits(s)'
      BY <3>2 DEF JobFits
    <3>4. job \in [Servers -> Jobs]
      BY DEF IInv, TypeOK
    <3>5. QED  BY <2>1, <3>1, <3>2, <3>3, <3>4
  <2>5. QED  BY <2>2, <2>3, <2>4
<1>4. TypeOK'
  BY <1>1, <1>3 DEF IInv, TypeOK, QueuedOnce
<1>5. JobsFit' /\ LateFits'
  BY <1>1, <1>3, OtherJobs DEF IInv, LateFits
<1>6. NotAgainstOneself' /\ HostAfterGuest'
  BY <1>1 DEF IInv, NotAgainstOneself, HostAfterGuest
<1>7. NobodyForgotten'
  <2>1. ASSUME NEW p \in seeks', Home[p] = s, Online(p), p \in Range(queue[s]) \/ InHand(p)
        PROVE  p \in Range(queue'[s]) \/ InHand(p)'
    BY <1>1, <1>3, <2>1 DEF InHand
  <2>2. QED  BY <1>1, <1>3, <2>1, StillRemembered
<1>8. QED  BY <1>4, <1>5, <1>6, <1>7 DEF IInv

LEMMA RemovePairInv ==
  ASSUME IInv, NEW s \in Servers, RemovePair(s)
  PROVE  IInv'
<1>1. UNCHANGED <<conn, asks, asking, orderly, seeks, matches, turn, job, search, late, agreed, made, fails>>
  BY DEF RemovePair, players
<1>2. /\ pc' \in [Servers -> Places]
      /\ pc[s] = "remove" /\ pc'[s] = "create"
      /\ \A t \in Servers : t # s => pc'[t] = pc[t]
  BY Goes DEF IInv, RemovePair, Places
<1>3. /\ queue' \in [Servers -> Seq(Players)] /\ QueuedOnce'
      /\ Range(queue'[s]) = Range(queue[s]) \ {job[s].p1, job[s].p2}
      /\ \A t \in Servers : t # s => queue'[t] = queue[t]
  BY QueueRemovedTwice DEF IInv, RemovePair
<1>4. TypeOK'
  BY <1>1, <1>2, <1>3 DEF IInv, TypeOK
<1>5. JobFits(s)'
  BY <1>1, <1>2 DEF IInv, JobsFit, JobFits
<1>6. JobsFit' /\ LateFits'
  BY <1>1, <1>2, <1>5, OtherJobs DEF IInv, LateFits
<1>7. NotAgainstOneself' /\ HostAfterGuest'
  BY <1>1 DEF IInv, NotAgainstOneself, HostAfterGuest
<1>8. NobodyForgotten'
  <2>1. ASSUME NEW p \in seeks', Home[p] = s, Online(p), p \in Range(queue[s]) \/ InHand(p)
        PROVE  p \in Range(queue'[s]) \/ InHand(p)'
    BY <1>1, <1>2, <1>3, <2>1 DEF InHand, Plays
  <2>2. QED  BY <1>1, <1>2, <1>3, <2>1, StillRemembered
<1>9. QED  BY <1>4, <1>6, <1>7, <1>8 DEF IInv

LEMMA CreateLocalMatchInv ==
  ASSUME IInv, NEW s \in Servers, CreateLocalMatch(s)
  PROVE  IInv'
<1> DEFINE m == Pair(made + 1, job[s].p1, job[s].p2)
<1>1. UNCHANGED <<conn, asks, asking, orderly, seeks, queue, turn, search, late, agreed, fails>>
  BY DEF CreateLocalMatch, players
<1>2. /\ job[s].p1 \in Players /\ Home[job[s].p1] = s
      /\ job[s].p2 \in Players /\ Home[job[s].p2] = s /\ job[s].p1 # job[s].p2
  BY DEF IInv, JobsFit, JobFits, CreateLocalMatch
<1>3. /\ m \in Match /\ m.p1 = job[s].p1 /\ m.p2 = job[s].p2
      /\ m \in Jobs
      /\ made' \in Nat
  <2>1. made + 1 \in Nat
    BY DEF IInv, TypeOK
  <2>2. QED  BY <1>2, <2>1 DEF Match, Pair, Jobs, CreateLocalMatch
<1>4. /\ job' = [job EXCEPT ![s] = m] /\ matches' = [matches EXCEPT ![s] = @ \cup {m}]
      /\ GoTo(s, "notify")
  BY DEF CreateLocalMatch
<1> HIDE DEF m
<1>5. /\ pc' \in [Servers -> Places]
      /\ pc'[s] = "notify" /\ pc[s] = "create" /\ job'[s] = m
      /\ \A t \in Servers : t # s => pc'[t] = pc[t] /\ job'[t] = job[t]
      /\ job' \in [Servers -> Jobs]
  <2>1. pc[s] = "create"
    BY DEF CreateLocalMatch
  <2>2. /\ pc' \in [Servers -> Places] /\ pc'[s] = "notify"
        /\ \A t \in Servers : t # s => pc'[t] = pc[t]
    BY <1>4, Goes DEF IInv, Places
  <2>3. /\ job' \in [Servers -> Jobs] /\ job'[s] = m
        /\ \A t \in Servers : t # s => job'[t] = job[t]
    BY <1>3, <1>4, TakesJob DEF IInv
  <2>4. QED  BY <2>1, <2>2, <2>3
<1>6. /\ matches' \in [Servers -> SUBSET Match]
      /\ \A t \in Servers : matches'[t] \subseteq matches[t] \cup (IF t = s THEN {m} ELSE {})
  <2>1. matches \in [Servers -> SUBSET Match]
    BY DEF IInv, TypeOK
  <2>2. QED  BY <1>3, <1>4, <2>1
<1>7. TypeOK'
  BY <1>1, <1>3, <1>5, <1>6 DEF IInv, TypeOK, QueuedOnce
<1>8. JobFits(s)'
  BY <1>2, <1>3, <1>5 DEF JobFits
<1>9. JobsFit' /\ LateFits'
  BY <1>1, <1>5, <1>8, OtherJobs DEF IInv, LateFits
<1>10. NotAgainstOneself'
  BY <1>2, <1>3, <1>6 DEF IInv, NotAgainstOneself
<1>11. HostAfterGuest'
  BY <1>1, <1>2, <1>3, <1>6 DEF IInv, HostAfterGuest
<1>12. NobodyForgotten'
  <2>1. ASSUME NEW p \in seeks', Home[p] = s, Online(p), p \in Range(queue[s]) \/ InHand(p)
        PROVE  p \in Range(queue'[s]) \/ InHand(p)'
    BY <1>1, <1>3, <1>5, <2>1 DEF InHand, Plays
  <2>2. QED  BY <1>1, <1>3, <1>5, <2>1, StillRemembered
<1>13. QED  BY <1>7, <1>9, <1>10, <1>11, <1>12 DEF IInv

LEMMA NotifyPlayersInv ==
  ASSUME IInv, NEW s \in Servers, NotifyPlayersOfMatch(s)
  PROVE  IInv'
<1>1. /\ UNCHANGED <<conn, asks, asking, orderly, queue, matches, turn, job, search, late, agreed, made, fails>>
      /\ seeks' = seeks \ {p \in Players : Plays(p, job[s]) /\ Home[p] = s}
  BY DEF NotifyPlayersOfMatch, players
<1>2. /\ pc' \in [Servers -> Places]
      /\ pc'[s] = "pass"
      /\ \A t \in Servers : t # s => pc'[t] = pc[t]
  BY Goes DEF IInv, NotifyPlayersOfMatch, Places
<1>3. TypeOK'
  BY <1>1, <1>2 DEF IInv, TypeOK, QueuedOnce
<1>4. JobFits(s)'
  BY <1>2 DEF JobFits
<1>5. JobsFit' /\ LateFits'
  BY <1>1, <1>2, <1>4, OtherJobs DEF IInv, LateFits
<1>6. NotAgainstOneself' /\ HostAfterGuest'
  BY <1>1 DEF IInv, NotAgainstOneself, HostAfterGuest
<1>7. NobodyForgotten'
  <2>1. \A p \in seeks' : p \in seeks /\ p \in Players
    BY <1>1 DEF IInv, TypeOK
  <2>2. ASSUME NEW p \in seeks', Home[p] = s, Online(p), p \in Range(queue[s]) \/ InHand(p)
        PROVE  p \in Range(queue'[s]) \/ InHand(p)'
    BY <1>1, <2>1, <2>2 DEF InHand
  <2>3. QED  BY <1>1, <1>2, <2>1, <2>2, StillRemembered
<1>8. QED  BY <1>3, <1>5, <1>6, <1>7 DEF IInv

LEMMA PassTokenInv ==
  ASSUME IInv, NEW s \in Servers, PassToken(s) \/ PassTokenLate(s)
  PROVE  IInv'
<1>1. UNCHANGED <<conn, asks, asking, seeks, queue, matches, late, agreed, made>>
  BY DEF PassToken, PassTokenLate, players
<1>2. turn' \in [Servers -> BOOLEAN] /\ orderly' \in BOOLEAN
  BY DEF IInv, TypeOK, PassToken, PassTokenLate, players
<1>3. fails' \in 0 .. MaxFails
  <2>1. fails \in 0 .. MaxFails /\ (fails' = fails \/ CallFails)
    BY DEF IInv, TypeOK, PassToken, PassTokenLate
  <2>2. QED  BY <2>1, BoundsAssumption DEF CallFails
<1>4. /\ pc' \in [Servers -> Places]
      /\ pc[s] = "pass" /\ pc'[s] \in {"away", "pass"}
      /\ \A t \in Servers : t # s => pc'[t] = pc[t] /\ job'[t] = job[t]
      /\ job' \in [Servers -> Jobs]
      /\ search' \in [Servers -> SUBSET Servers] /\ \A t \in Servers : t \notin search'[t]
  <2>1. /\ search \in [Servers -> SUBSET Servers] /\ \A t \in Servers : t \notin search[t]
        /\ job \in [Servers -> Jobs]
        /\ pc \in [Servers -> Places]
    BY DEF IInv, TypeOK
  <2>2. CASE PassToken(s)
    <3>1. NoJob \in Jobs
      BY DEF NoJob, Pair, Jobs
    <3>2. search' \in [Servers -> SUBSET Servers] /\ \A t \in Servers : t \notin search'[t]
      BY <2>1, <2>2 DEF PassToken
    <3>3. pc[s] = "pass" /\ GoTo(s, "away") /\ job' = [job EXCEPT ![s] = NoJob]
      BY <2>2 DEF PassToken
    <3>4. /\ pc' \in [Servers -> Places] /\ pc'[s] = "away"
          /\ \A t \in Servers : t # s => pc'[t] = pc[t]
      BY <3>3, Goes DEF IInv, Places
    <3>5. job' \in [Servers -> Jobs] /\ \A t \in Servers : t # s => job'[t] = job[t]
      BY <3>1, <3>3, TakesJob DEF IInv
    <3>6. QED  BY <3>2, <3>3, <3>4, <3>5
  <2>3. CASE PassTokenLate(s)
    BY <2>1, <2>3 DEF PassTokenLate
  <2>4. QED  BY <2>2, <2>3
<1>5. TypeOK'
  BY <1>1, <1>2, <1>3, <1>4 DEF IInv, TypeOK, QueuedOnce
<1>6. JobFits(s)'
  BY <1>4 DEF JobFits
<1>7. JobsFit' /\ LateFits'
  BY <1>1, <1>4, <1>6, OtherJobs DEF IInv, LateFits
<1>8. NotAgainstOneself' /\ HostAfterGuest'
  BY <1>1 DEF IInv, NotAgainstOneself, HostAfterGuest
<1>9. NobodyForgotten'
  <2>1. ASSUME NEW p \in seeks', Home[p] = s, Online(p), p \in Range(queue[s]) \/ InHand(p)
        PROVE  p \in Range(queue'[s]) \/ InHand(p)'
    BY <1>1, <1>4, <2>1 DEF InHand
  <2>2. QED  BY <1>1, <1>4, <2>1, StillRemembered
<1>10. QED  BY <1>5, <1>7, <1>8, <1>9 DEF IInv

\* The search for an opponent touches neither the queues nor anybody's answer.
LEMMA FindOpponentInv ==
  ASSUME IInv, NEW s \in Servers, NEW t \in Servers, FindOpponent(s, t)
  PROVE  IInv'
<1> DEFINE j == Pair(made + 1, job[s].p1, Head(queue[t]))
<1>1. /\ UNCHANGED <<conn, asks, asking, orderly, seeks, queue, matches, turn, search, late, agreed, fails>>
      /\ pc[s] = "find" /\ GoTo(s, "request") /\ made' = made + 1
      /\ job' = [job EXCEPT ![s] = j]
  BY DEF FindOpponent, players
<1>2. /\ job[s].p1 \in Players /\ Home[job[s].p1] = s
      /\ Head(queue[t]) \in Players /\ Home[Head(queue[t])] = t
  <2>1. queue[t] # <<>>
    BY DEF FindOpponent
  <2>2. QED  BY <1>1, <2>1, QueueHead DEF IInv, JobsFit, JobFits
<1>3. t # s
  BY DEF IInv, TypeOK, FindOpponent, IsNext
<1>4. made' \in Nat
  BY <1>1 DEF IInv, TypeOK
<1>5. j \in Jobs /\ j.p1 = job[s].p1 /\ j.p2 = Head(queue[t])
  BY <1>1, <1>2, <1>4 DEF Jobs, Pair
<1> HIDE DEF j
<1>6. /\ pc' \in [Servers -> Places] /\ pc'[s] = "request"
      /\ job' \in [Servers -> Jobs] /\ job'[s] = j
      /\ \A u \in Servers : u # s => pc'[u] = pc[u] /\ job'[u] = job[u]
  <2>1. /\ pc' \in [Servers -> Places] /\ pc'[s] = "request"
        /\ \A u \in Servers : u # s => pc'[u] = pc[u]
    BY <1>1, Goes DEF IInv, Places
  <2>2. /\ job' \in [Servers -> Jobs] /\ job'[s] = j
        /\ \A u \in Servers : u # s => job'[u] = job[u]
    BY <1>1, <1>5, TakesJob DEF IInv
  <2>3. QED  BY <2>1, <2>2
<1>7. TypeOK'
  BY <1>1, <1>4, <1>6 DEF IInv, TypeOK, QueuedOnce
<1>8. JobFits(s)'
  BY <1>2, <1>3, <1>5, <1>6 DEF JobFits
<1>9. JobsFit' /\ LateFits'
  BY <1>1, <1>6, <1>8, OtherJobs DEF IInv, LateFits
<1>10. NotAgainstOneself' /\ HostAfterGuest'
  BY <1>1 DEF IInv, NotAgainstOneself, HostAfterGuest
<1>11. NobodyForgotten'
  <2>1. ASSUME NEW p \in seeks', Home[p] = s, Online(p), p \in Range(queue[s]) \/ InHand(p)
        PROVE  p \in Range(queue'[s]) \/ InHand(p)'
    BY <1>1, <2>1 DEF InHand
  <2>2. QED  BY <1>1, <1>6, <2>1, StillRemembered
<1>12. QED  BY <1>7, <1>9, <1>10, <1>11 DEF IInv

LEMMA SearchOnInv ==
  ASSUME IInv, NEW s \in Servers, SearchEnds(s) \/ \E t \in Servers : FindNobody(s, t)
  PROVE  IInv'
<1>1. UNCHANGED <<conn, asks, asking, orderly, seeks, queue, matches, turn, job, late, agreed, made>>
  BY DEF SearchEnds, FindNobody, players
<1>2. fails' \in 0 .. MaxFails
  <2>1. fails \in 0 .. MaxFails /\ (fails' = fails \/ CallFails)
    BY DEF IInv, TypeOK, SearchEnds, FindNobody
  <2>2. QED  BY <2>1, BoundsAssumption DEF CallFails
<1>3. search' \in [Servers -> SUBSET Servers] /\ \A t \in Servers : t \notin search'[t]
  <2>1. search \in [Servers -> SUBSET Servers] /\ \A t \in Servers : t \notin search[t]
    BY DEF IInv, TypeOK
  <2>2. search' = search \/ \E t \in Servers : search' = [search EXCEPT ![s] = @ \ {t}]
    BY DEF SearchEnds, FindNobody
  <2>3. QED  BY <2>1, <2>2
<1>4. /\ pc' \in [Servers -> Places] /\ pc[s] = "find" /\ pc'[s] \in {"find", "pass"}
      /\ \A t \in Servers : t # s => pc'[t] = pc[t]
  <2>1. CASE SearchEnds(s)
    BY <2>1, Goes DEF IInv, SearchEnds, Places
  <2>2. CASE \E t \in Servers : FindNobody(s, t)
    <3>1. pc' = pc /\ pc[s] = "find"
      BY <2>2 DEF FindNobody
    <3>2. QED  BY <3>1 DEF IInv, TypeOK
  <2>3. QED  BY <2>1, <2>2
<1>5. TypeOK'
  BY <1>1, <1>2, <1>3, <1>4 DEF IInv, TypeOK, QueuedOnce
<1>6. JobFits(s)'
  BY <1>1, <1>4 DEF IInv, JobsFit, JobFits
<1>7. JobsFit' /\ LateFits'
  BY <1>1, <1>4, <1>6, OtherJobs DEF IInv, LateFits
<1>8. NotAgainstOneself' /\ HostAfterGuest'
  BY <1>1 DEF IInv, NotAgainstOneself, HostAfterGuest
<1>9. NobodyForgotten'
  <2>1. ASSUME NEW p \in seeks', Home[p] = s, Online(p), p \in Range(queue[s]) \/ InHand(p)
        PROVE  p \in Range(queue'[s]) \/ InHand(p)'
    BY <1>1, <1>4, <2>1 DEF InHand
  <2>2. QED  BY <1>1, <1>4, <2>1, StillRemembered
<1>10. QED  BY <1>5, <1>7, <1>8, <1>9 DEF IInv

\* What the server of the guest does: the guest leaves the queue, gets the match, and an
\* answer with it.
LEMMA ConfirmKeeps ==
  ASSUME IInv, NEW m \in Match, Home[m.p1] # Home[m.p2],
         IF Available(m) THEN Confirm(m) ELSE Reject
  PROVE  /\ queue' \in [Servers -> Seq(Players)] /\ QueuedOnce'
         /\ matches' \in [Servers -> SUBSET Match]
         /\ agreed' \subseteq Match /\ agreed \subseteq agreed'
         /\ seeks' \subseteq seeks
         /\ \A s \in Servers : \A x \in matches'[s] :
              x.p1 # x.p2 /\ (Home[x.p2] # s => x \in agreed)
         /\ \A p \in seeks' : p \in Range(queue[Home[p]]) => p \in Range(queue'[Home[p]])
<1>1. /\ queue \in [Servers -> Seq(Players)] /\ QueuedOnce
      /\ matches \in [Servers -> SUBSET Match]
      /\ agreed \subseteq Match
      /\ \A s \in Servers : \A x \in matches[s] :
           x.p1 # x.p2 /\ (Home[x.p2] # s => x \in agreed)
  BY DEF IInv, TypeOK, NotAgainstOneself, HostAfterGuest
<1>2. CASE ~Available(m) /\ Reject
  BY <1>1, <1>2 DEF Reject, QueuedOnce
<1>3. CASE Available(m) /\ Confirm(m)
  <2> DEFINE t == Home[m.p2]
  <2>1. t \in Servers /\ m.p1 # m.p2
    BY HomeAssumption DEF Match
  <2>2. /\ queue[t] # <<>> /\ Head(queue[t]) = m.p2
        /\ queue' = [queue EXCEPT ![t] = Tail(@)]
        /\ matches' = [matches EXCEPT ![t] = @ \cup {m}]
        /\ agreed' = agreed \cup {m} /\ seeks' = seeks \ {m.p2}
    BY <1>3 DEF Available, Confirm
  <2>3. Home[m.p2] = t
    OBVIOUS
  <2> HIDE DEF t
  <2>4. /\ Tail(queue[t]) \in Seq(Players) /\ IsInjective(Tail(queue[t]))
        /\ Range(Tail(queue[t])) = Range(queue[t]) \ {m.p2}
    BY <2>1, <2>2, QueueHead DEF IInv
  <2>5. /\ queue'[t] = Tail(queue[t]) /\ \A s \in Servers : s # t => queue'[s] = queue[s]
        /\ queue' \in [Servers -> Seq(Players)]
    BY <1>1, <2>1, <2>2, <2>4
  <2>6. ASSUME NEW s \in Servers
        PROVE  IsInjective(queue'[s]) /\ Range(queue'[s]) \subseteq {p \in Players : Home[p] = s}
    <3>1. CASE s = t
      BY <1>1, <2>4, <2>5, <3>1 DEF QueuedOnce
    <3>2. CASE s # t
      BY <1>1, <2>5, <3>2 DEF QueuedOnce
    <3>3. QED  BY <3>1, <3>2
  <2>7. \A s \in Servers : \A x \in matches'[s] :
          x.p1 # x.p2 /\ (Home[x.p2] # s => x \in agreed)
    BY <1>1, <2>1, <2>2, <2>3
  <2>8. \A p \in seeks' : p \in Range(queue[Home[p]]) => p \in Range(queue'[Home[p]])
    <3>1. \A p \in seeks' : p \in Players /\ p # m.p2 /\ Home[p] \in Servers
      BY <2>2, HomeAssumption DEF IInv, TypeOK
    <3>2. QED  BY <2>4, <2>5, <3>1
  <2>9. matches' \in [Servers -> SUBSET Match] /\ agreed' \subseteq Match
    BY <1>1, <2>1, <2>2
  <2>10. QED  BY <2>2, <2>5, <2>6, <2>7, <2>8, <2>9 DEF QueuedOnce
<1>4. QED  BY <1>2, <1>3

\* The guest's server handles a request in time or too late.
LEMMA RequestMatchInv ==
  ASSUME IInv, NEW s \in Servers, RequestMatch(s)
  PROVE  IInv'
<1>1. /\ UNCHANGED <<conn, asks, asking, orderly, turn, job, search, late, made, fails>>
      /\ pc[s] = "request"
      /\ IF Available(job[s]) THEN Confirm(job[s]) ELSE Reject
      /\ \/ Confirm(job[s]) /\ GoTo(s, "leave queue")
         \/ GoTo(s, "drop")
  BY DEF RequestMatch, players
<1>2. /\ job[s].p1 \in Players /\ Home[job[s].p1] = s
      /\ job[s].p2 \in Players /\ Home[job[s].p2] # s
  BY <1>1 DEF IInv, JobsFit, JobFits
<1>3. job[s] \in Match
  BY <1>2, MatchOfJob DEF IInv
<1>4. /\ queue' \in [Servers -> Seq(Players)] /\ QueuedOnce'
      /\ matches' \in [Servers -> SUBSET Match]
      /\ agreed' \subseteq Match /\ agreed \subseteq agreed' /\ seeks' \subseteq seeks
      /\ \A t \in Servers : \A x \in matches'[t] :
           x.p1 # x.p2 /\ (Home[x.p2] # t => x \in agreed)
      /\ \A p \in seeks' : p \in Range(queue[Home[p]]) => p \in Range(queue'[Home[p]])
  BY <1>1, <1>2, <1>3, ConfirmKeeps
<1>5. /\ pc' \in [Servers -> Places] /\ pc'[s] \in {"leave queue", "drop"}
      /\ \A t \in Servers : t # s => pc'[t] = pc[t]
      /\ pc'[s] = "leave queue" => job[s] \in agreed'
  <2>1. CASE Confirm(job[s]) /\ GoTo(s, "leave queue")
    BY <2>1, Goes DEF IInv, Places, Confirm
  <2>2. CASE GoTo(s, "drop")
    BY <2>2, Goes DEF IInv, Places
  <2>3. QED  BY <1>1, <2>1, <2>2
<1>6. TypeOK'
  BY <1>1, <1>4, <1>5 DEF IInv, TypeOK
<1>7. JobFits(s)'
  BY <1>1, <1>2, <1>5 DEF JobFits
<1>8. JobsFit' /\ LateFits'
  BY <1>1, <1>4, <1>5, <1>7, OtherJobs DEF IInv, LateFits
<1>9. NotAgainstOneself' /\ HostAfterGuest'
  BY <1>4 DEF NotAgainstOneself, HostAfterGuest
<1>10. NobodyForgotten'
  <2> SUFFICES ASSUME NEW p \in seeks', Online(p)'
               PROVE  p \in Range(queue'[Home[p]]) \/ InHand(p)'
    BY DEF NobodyForgotten
  <2>1. p \in seeks /\ Online(p) /\ Home[p] \in Servers
    BY <1>1, <1>4, HomeAssumption DEF Online, IInv, TypeOK
  <2>2. p \in Range(queue[Home[p]]) \/ InHand(p)
    BY <2>1 DEF IInv, NobodyForgotten
  <2>3. CASE p \in Range(queue[Home[p]])
    BY <1>4, <2>3
  <2>4. CASE InHand(p)
    <3>1. Home[p] # s
      BY <1>1, <2>4 DEF InHand
    <3>2. QED  BY <1>1, <1>5, <2>1, <2>4, <3>1 DEF InHand
  <2>5. QED  BY <2>2, <2>3, <2>4
<1>11. QED  BY <1>6, <1>8, <1>9, <1>10 DEF IInv

LEMMA HandleLateRequestInv ==
  ASSUME IInv, NEW m \in late, HandleLateRequest(m)
  PROVE  IInv'
<1>1. /\ UNCHANGED <<conn, asks, asking, orderly, turn, pc, job, search, made, fails>>
      /\ late' = late \ {m}
      /\ IF Available(m) THEN Confirm(m) ELSE Reject
  BY DEF HandleLateRequest, players, service
<1>2. m \in Match /\ Home[m.p1] # Home[m.p2]
  BY DEF IInv, TypeOK, LateFits
<1>3. /\ queue' \in [Servers -> Seq(Players)] /\ QueuedOnce'
      /\ matches' \in [Servers -> SUBSET Match]
      /\ agreed' \subseteq Match /\ agreed \subseteq agreed' /\ seeks' \subseteq seeks
      /\ \A t \in Servers : \A x \in matches'[t] :
           x.p1 # x.p2 /\ (Home[x.p2] # t => x \in agreed)
      /\ \A p \in seeks' : p \in Range(queue[Home[p]]) => p \in Range(queue'[Home[p]])
  BY <1>1, <1>2, ConfirmKeeps
<1>4. TypeOK'
  BY <1>1, <1>3 DEF IInv, TypeOK
<1>5. JobsFit' /\ LateFits'
  BY <1>1, <1>3 DEF IInv, JobsFit, JobFits, LateFits
<1>6. NotAgainstOneself' /\ HostAfterGuest'
  BY <1>3 DEF NotAgainstOneself, HostAfterGuest
<1>7. NobodyForgotten'
  <2> SUFFICES ASSUME NEW p \in seeks', Online(p)'
               PROVE  p \in Range(queue'[Home[p]]) \/ InHand(p)'
    BY DEF NobodyForgotten
  <2>1. p \in seeks /\ Online(p)
    BY <1>1, <1>3 DEF Online
  <2>2. p \in Range(queue[Home[p]]) \/ InHand(p)
    BY <2>1 DEF IInv, NobodyForgotten
  <2>3. QED  BY <1>1, <1>3, <2>2 DEF InHand
<1>8. QED  BY <1>4, <1>5, <1>6, <1>7 DEF IInv

LEMMA RequestFailsInv ==
  ASSUME IInv, NEW s \in Servers, RequestFails(s)
  PROVE  IInv'
<1>1. /\ UNCHANGED <<conn, asks, asking, seeks, queue, matches, turn, job, search, agreed, made>>
      /\ pc[s] = "request" /\ GoTo(s, "drop") /\ CallFails
      /\ late' \subseteq late \cup {job[s]} /\ orderly' \in {orderly, FALSE}
  BY DEF RequestFails, players
<1>2. fails' \in 0 .. MaxFails
  <2>1. fails \in 0 .. MaxFails
    BY DEF IInv, TypeOK
  <2>2. QED  BY <1>1, <2>1, BoundsAssumption DEF CallFails
<1>3. /\ job[s].p1 \in Players /\ Home[job[s].p1] = s
      /\ job[s].p2 \in Players /\ Home[job[s].p2] # s
  BY <1>1 DEF IInv, JobsFit, JobFits
<1>4. job[s] \in Match
  BY <1>3, MatchOfJob DEF IInv
<1>5. /\ pc' \in [Servers -> Places] /\ pc'[s] = "drop"
      /\ \A t \in Servers : t # s => pc'[t] = pc[t]
  BY <1>1, Goes DEF IInv, Places
<1>6. late' \subseteq Match /\ LateFits'
  BY <1>1, <1>3, <1>4 DEF IInv, TypeOK, LateFits
<1>7. TypeOK'
  BY <1>1, <1>2, <1>5, <1>6 DEF IInv, TypeOK, QueuedOnce
<1>8. JobFits(s)'
  BY <1>1, <1>3, <1>5 DEF JobFits
<1>9. JobsFit'
  BY <1>1, <1>5, <1>8, OtherJobs DEF IInv
<1>10. NotAgainstOneself' /\ HostAfterGuest'
  BY <1>1 DEF IInv, NotAgainstOneself, HostAfterGuest
<1>11. NobodyForgotten'
  <2>1. ASSUME NEW p \in seeks', Home[p] = s, Online(p), p \in Range(queue[s]) \/ InHand(p)
        PROVE  p \in Range(queue'[s]) \/ InHand(p)'
    BY <1>1, <2>1 DEF InHand
  <2>2. QED  BY <1>1, <1>5, <2>1, StillRemembered
<1>12. QED  BY <1>6, <1>7, <1>9, <1>10, <1>11 DEF IInv

\* The host leaves the queue, with an answer or on the way to the match.
LEMMA LeaveQueueInv ==
  ASSUME IInv, NEW s \in Servers, DropHost(s) \/ RemoveHost(s)
  PROVE  IInv'
<1>1. /\ UNCHANGED <<conn, asks, asking, orderly, matches, turn, job, search, late, agreed, made, fails>>
      /\ queue' = [queue EXCEPT ![s] = Without(@, job[s].p1)]
      /\ \/ pc[s] = "drop" /\ GoTo(s, "pass") /\ seeks' = seeks \ {job[s].p1}
         \/ pc[s] = "leave queue" /\ GoTo(s, "host") /\ seeks' = seeks
  BY DEF DropHost, RemoveHost, players
<1>2. /\ queue' \in [Servers -> Seq(Players)] /\ QueuedOnce'
      /\ Range(queue'[s]) = Range(queue[s]) \ {job[s].p1}
      /\ \A t \in Servers : t # s => queue'[t] = queue[t]
  BY <1>1, QueueRemoved DEF IInv
<1>3. /\ pc' \in [Servers -> Places]
      /\ \A t \in Servers : t # s => pc'[t] = pc[t]
      /\ \/ pc[s] = "drop" /\ pc'[s] = "pass" /\ seeks' = seeks \ {job[s].p1}
         \/ pc[s] = "leave queue" /\ pc'[s] = "host" /\ seeks' = seeks
  BY <1>1, Goes DEF IInv, Places
<1>4. TypeOK'
  BY <1>1, <1>2, <1>3 DEF IInv, TypeOK
<1>5. JobFits(s)'
  BY <1>1, <1>3 DEF IInv, JobsFit, JobFits
<1>6. JobsFit' /\ LateFits'
  BY <1>1, <1>3, <1>5, OtherJobs DEF IInv, LateFits
<1>7. NotAgainstOneself' /\ HostAfterGuest'
  BY <1>1 DEF IInv, NotAgainstOneself, HostAfterGuest
<1>8. NobodyForgotten'
  <2>1. ASSUME NEW p \in seeks', Home[p] = s, Online(p), p \in Range(queue[s]) \/ InHand(p)
        PROVE  p \in Range(queue'[s]) \/ InHand(p)'
    <3>1. p \in Range(queue[s])
      BY <1>3, <2>1 DEF InHand
    <3>2. CASE p # job[s].p1
      BY <1>2, <3>1, <3>2
    <3>3. CASE p = job[s].p1
      BY <1>1, <1>3, <2>1, <3>3 DEF InHand, Plays
    <3>4. QED  BY <3>2, <3>3
  <2>2. seeks' \subseteq seeks
    BY <1>3
  <2>3. QED  BY <1>1, <1>2, <1>3, <2>1, <2>2, StillRemembered
<1>9. QED  BY <1>4, <1>6, <1>7, <1>8 DEF IInv

\* The host's half of a match is made, unless the host has left meanwhile.
LEMMA CreateAsHostInv ==
  ASSUME IInv, NEW s \in Servers, CreateDistributedMatchAsHost(s)
  PROVE  IInv'
<1>1. /\ UNCHANGED <<conn, asks, asking, orderly, seeks, queue, turn, job, search, late, agreed, made, fails>>
      /\ pc[s] = "host"
      /\ \/ /\ Online(job[s].p1) /\ GoTo(s, "notify")
            /\ matches' = [matches EXCEPT ![s] = @ \cup {job[s]}]
         \/ ~Online(job[s].p1) /\ GoTo(s, "pass") /\ matches' = matches
  BY DEF CreateDistributedMatchAsHost, players
<1>2. /\ job[s].p1 \in Players /\ Home[job[s].p1] = s
      /\ job[s].p2 \in Players /\ Home[job[s].p2] # s
      /\ job[s] \in agreed
  BY <1>1 DEF IInv, JobsFit, JobFits
<1>3. job[s] \in Match
  BY <1>2, MatchOfJob DEF IInv
<1>4. /\ pc' \in [Servers -> Places]
      /\ \A t \in Servers : t # s => pc'[t] = pc[t]
      /\ \/ pc'[s] = "notify"
         \/ ~Online(job[s].p1) /\ pc'[s] = "pass"
  BY <1>1, Goes DEF IInv, Places
<1>5. /\ matches' \in [Servers -> SUBSET Match]
      /\ \A t \in Servers : matches'[t] \subseteq matches[t] \cup {job[s]}
  <2>1. matches \in [Servers -> SUBSET Match]
    BY DEF IInv, TypeOK
  <2>2. QED  BY <1>1, <1>3, <2>1
<1>6. TypeOK'
  BY <1>1, <1>4, <1>5 DEF IInv, TypeOK, QueuedOnce
<1>7. JobFits(s)'
  BY <1>1, <1>2, <1>4 DEF JobFits
<1>8. JobsFit' /\ LateFits'
  BY <1>1, <1>4, <1>7, OtherJobs DEF IInv, LateFits
<1>9. NotAgainstOneself'
  BY <1>2, <1>5 DEF IInv, NotAgainstOneself
<1>10. HostAfterGuest'
  BY <1>1, <1>2, <1>5 DEF IInv, HostAfterGuest
<1>11. NobodyForgotten'
  <2>1. ASSUME NEW p \in seeks', Home[p] = s, Online(p), p \in Range(queue[s]) \/ InHand(p)
        PROVE  p \in Range(queue'[s]) \/ InHand(p)'
    <3>1. CASE p \in Range(queue[s])
      BY <1>1, <3>1
    <3>2. CASE InHand(p)
      <4>1. p = job[s].p1
        BY <1>2, <2>1, <3>2 DEF InHand, Plays
      <4>2. QED  BY <1>1, <1>4, <2>1, <4>1 DEF InHand, Plays
    <3>3. QED  BY <2>1, <3>1, <3>2
  <2>2. QED  BY <1>1, <1>4, <2>1, StillRemembered
<1>12. QED  BY <1>6, <1>8, <1>9, <1>10, <1>11 DEF IInv

LEMMA StepInv == IInv /\ [Next]_vars => IInv'
<1> SUFFICES ASSUME IInv, [Next]_vars PROVE IInv'
  OBVIOUS
<1>1. ASSUME NEW p \in Players, SendFindMatch(p) \/ HandleFindMatch(p) \/ CleanupPlayer(p)
      PROVE  IInv'
  BY <1>1, SendFindMatchInv, HandleFindMatchInv, CleanupPlayerInv
<1>2. ASSUME NEW s \in Servers, NEW m \in matches[s], RemoveMatch(s, m) PROVE IInv'
  BY <1>2, RemoveMatchInv
<1>3. ASSUME NEW m \in late, HandleLateRequest(m) PROVE IInv'
  BY <1>3, HandleLateRequestInv
<1>4. ASSUME NEW s \in Servers, ReceiveToken(s) \/ PassToken(s) \/ PassTokenLate(s) PROVE IInv'
  BY <1>4, ReceiveTokenInv, PassTokenInv
<1>5. ASSUME NEW s \in Servers, TakeSnapshot(s) \/ RemovePair(s) \/ CreateLocalMatch(s) PROVE IInv'
  BY <1>5, TakeSnapshotInv, RemovePairInv, CreateLocalMatchInv
<1>6. ASSUME NEW s \in Servers, NotifyPlayersOfMatch(s) PROVE IInv'
  BY <1>6, NotifyPlayersInv
<1>7. ASSUME NEW s \in Servers, Distribute(s) PROVE IInv'
  <2>1. ASSUME NEW t \in Servers, FindOpponent(s, t) PROVE IInv'
    BY <2>1, FindOpponentInv
  <2>2. CASE SearchEnds(s) \/ \E t \in Servers : FindNobody(s, t)
    BY <2>2, SearchOnInv
  <2>3. CASE RequestMatch(s) \/ RequestFails(s)
    BY <2>3, RequestMatchInv, RequestFailsInv
  <2>4. CASE DropHost(s) \/ RemoveHost(s)
    BY <2>4, LeaveQueueInv
  <2>5. CASE CreateDistributedMatchAsHost(s)
    BY <2>5, CreateAsHostInv
  <2>6. QED  BY <1>7, <2>1, <2>2, <2>3, <2>4, <2>5 DEF Distribute
<1>8. CASE UNCHANGED vars
  <2>1. UNCHANGED <<conn, asks, asking, orderly, seeks, queue, matches, turn, pc, job, search, late,
                    agreed, made, fails>>
    BY <1>8 DEF vars, players, service
  <2>2. TypeOK'
    BY <2>1 DEF IInv, TypeOK, QueuedOnce
  <2>3. JobsFit' /\ LateFits'
    BY <2>1 DEF IInv, JobsFit, JobFits, LateFits
  <2>4. NotAgainstOneself' /\ HostAfterGuest'
    BY <2>1 DEF IInv, NotAgainstOneself, HostAfterGuest
  <2>5. NobodyForgotten'
    BY <2>1 DEF IInv, NobodyForgotten, Online, InHand, Plays
  <2>6. QED  BY <2>2, <2>3, <2>4, <2>5 DEF IInv
<1>9. QED  BY <1>1, <1>2, <1>3, <1>4, <1>5, <1>6, <1>7, <1>8
           DEF Next, Run, ProcessMatchmakingQueue

\* The invariant the results below rest on: a match is made of two players who fit, and
\* who is taken out of a queue is on the way to a match or gets an answer.
THEOREM Invariance == Spec => []IInv
BY InitInv, StepInv, PTL DEF Spec

\* The types; a queue holds players of its server only, each of them once.
THEOREM TypeCorrect == Spec => []TypeOK
<1>1. IInv => TypeOK
  BY DEF IInv
<1>2. QED  BY <1>1, Invariance, PTL

\* The opponent found in a queue is somebody else, though the queues are read in one step
\* and changed in another, and several servers may have their turn at once.
THEOREM TwoPlayers == Spec => []NotAgainstOneself
<1>1. IInv => NotAgainstOneself
  BY DEF IInv
<1>2. QED  BY <1>1, Invariance, PTL

\* The guest's half of a match between two servers comes first, however late the requests
\* are and however often they fail.
THEOREM GuestFirst == Spec => []HostAfterGuest
<1>1. IInv => HostAfterGuest
  BY DEF IInv
<1>2. QED  BY <1>1, Invariance, PTL

\* Nobody who was put into the queue drops out of the queue without an answer, whatever fails.
THEOREM NobodyIsForgotten == Spec => []NobodyForgotten
<1>1. IInv => NobodyForgotten
  BY DEF IInv
<1>2. QED  BY <1>1, Invariance, PTL

----------------------------------------------------------------------------
(* Unique pairing.  As long as things are orderly, one server at a time has *)
(* its turn, so a player who is being matched is not found by another one,  *)
(* and who asks is neither waiting nor being matched nor playing.           *)

HasTurn(s) == turn[s] \/ pc[s] # "away"

OneTurn ==
  /\ \A s, t \in Servers : HasTurn(s) /\ HasTurn(t) => s = t
  /\ \A s \in Servers : ~(turn[s] /\ pc[s] # "away")

\* The player is one of those the player's own server is looking at.
Held(p) == Plays(p, job[Home[p]]) /\ pc[Home[p]] \notin {"away", "queue", "pass"}

Notified(p) == pc[Home[p]] = "notify"

\* Asking, waiting, being matched and playing exclude each other, but for the moment
\* between the creation of a match and its MATCH_FOUND.
Kept(p) ==
  /\ p \in asking => ~Queued(p) /\ ~Held(p) /\ MatchesOf(p) = {}
  /\ (Queued(p) \/ Held(p)) /\ Online(p) => p \in seeks
  /\ Queued(p) \/ (Held(p) /\ ~Notified(p)) => MatchesOf(p) = {}
  /\ InHand(p) => ~Queued(p)
  /\ \A m, n \in MatchesOf(p) : m = n

AllKept == \A p \in Players : Kept(p)

Apart == orderly => late = {} /\ OneTurn /\ AllKept

\* A player for whom nothing new happens, though something may be over.
LEMMA KeptStays ==
  ASSUME NEW p \in Players, Kept(p),
         p \in asking' => p \in asking,
         Queued(p)' => Queued(p), Held(p)' => Held(p), InHand(p)' => InHand(p),
         Held(p)' /\ ~Notified(p)' => ~Notified(p),
         Online(p)' => Online(p),
         (Queued(p) \/ Held(p))' /\ p \in seeks => p \in seeks',
         MatchesOf(p)' \subseteq MatchesOf(p)
  PROVE  Kept(p)'
BY DEF Kept

\* What a server does concerns its own players only, unless it touches what another has.
LEMMA Elsewhere ==
  ASSUME NEW p \in Players, Kept(p), asking' = asking, conn' = conn,
         queue'[Home[p]] = queue[Home[p]], pc'[Home[p]] = pc[Home[p]],
         job'[Home[p]] = job[Home[p]], matches'[Home[p]] = matches[Home[p]],
         p \in seeks => p \in seeks'
  PROVE  Kept(p)'
<1>1. /\ Queued(p)' = Queued(p) /\ Held(p)' = Held(p) /\ InHand(p)' = InHand(p)
      /\ Notified(p)' = Notified(p) /\ Online(p)' = Online(p) /\ MatchesOf(p)' = MatchesOf(p)
  BY DEF Queued, Held, InHand, Notified, Online, MatchesOf, Plays
<1>2. QED  BY <1>1, KeptStays

LEMMA SendFindMatchKeeps ==
  ASSUME IInv, AllKept, NEW p \in Players, SendFindMatch(p), orderly'
  PROVE  AllKept'
<1> SUFFICES ASSUME NEW q \in Players PROVE Kept(q)'
  BY DEF AllKept
<1>1. /\ UNCHANGED <<conn, seeks, queue, matches, turn, pc, job>>
      /\ asking' = asking \cup {p} /\ p \notin seeks /\ MatchesOf(p) = {} /\ Online(p)
  BY DEF SendFindMatch, service
<1>2. Kept(q)
  BY DEF AllKept
<1>3. /\ Queued(q)' = Queued(q) /\ Held(q)' = Held(q) /\ InHand(q)' = InHand(q)
      /\ Notified(q)' = Notified(q) /\ Online(q)' = Online(q) /\ MatchesOf(q)' = MatchesOf(q)
  BY <1>1 DEF Queued, Held, InHand, Notified, Online, MatchesOf, Plays
<1>4. CASE q = p
  BY <1>1, <1>2, <1>3, <1>4 DEF Kept
<1>5. CASE q # p
  BY <1>1, <1>2, <1>3, <1>5, KeptStays
<1>6. QED  BY <1>4, <1>5

LEMMA HandleFindMatchKeeps ==
  ASSUME IInv, AllKept, NEW p \in Players, HandleFindMatch(p)
  PROVE  AllKept'
<1> SUFFICES ASSUME NEW q \in Players PROVE Kept(q)'
  BY DEF AllKept
<1>1. /\ UNCHANGED <<conn, matches, turn, pc, job>>
      /\ p \in asking /\ asking' = asking \ {p} /\ AddPlayerToQueue(p)
      /\ seeks' = IF Online(p) THEN seeks \cup {p} ELSE seeks
  BY DEF HandleFindMatch, service
<1>2. Kept(q) /\ Home[q] \in Servers /\ Home[p] \in Servers
  BY HomeAssumption DEF AllKept
<1>3. /\ Held(q)' = Held(q) /\ Notified(q)' = Notified(q)
      /\ Online(q)' = Online(q) /\ MatchesOf(q)' = MatchesOf(q)
      /\ InHand(q)' = InHand(q)
  BY <1>1 DEF Held, InHand, Notified, Online, MatchesOf, Plays
<1>4. CASE q = p
  <2>1. ~Held(p) /\ MatchesOf(p) = {} /\ p \in asking /\ p \notin asking'
    BY <1>1, <1>2, <1>4 DEF Kept
  <2>2. ~InHand(p) /\ (Online(p) => p \in seeks')
    BY <1>1, <2>1 DEF InHand, Held
  <2>3. QED  BY <1>3, <1>4, <2>1, <2>2 DEF Kept
<1>5. CASE q # p
  <2>1. q \in Range(queue'[Home[q]]) => q \in Range(queue[Home[q]])
    <3>1. Home[q] # Home[p] => queue'[Home[q]] = queue[Home[q]]
      BY <1>1, <1>2 DEF AddPlayerToQueue, IInv, TypeOK
    <3>2. queue'[Home[p]] \in {queue[Home[p]], Append(queue[Home[p]], p)}
      BY <1>1, <1>2 DEF AddPlayerToQueue, IInv, TypeOK
    <3>3. Range(Append(queue[Home[p]], p)) = Range(queue[Home[p]]) \cup {p}
      BY <1>2, AppendRange DEF IInv, TypeOK
    <3>4. QED  BY <1>5, <3>1, <3>2, <3>3
  <2>2. Queued(q)' => Queued(q)
    BY <2>1 DEF Queued
  <2>3. QED  BY <1>1, <1>2, <1>3, <1>5, <2>2, KeptStays
<1>6. QED  BY <1>4, <1>5

LEMMA CleanupPlayerKeeps ==
  ASSUME IInv, AllKept, NEW p \in Players, CleanupPlayer(p)
  PROVE  AllKept'
<1> SUFFICES ASSUME NEW q \in Players PROVE Kept(q)'
  BY DEF AllKept
<1>1. UNCHANGED <<asking, seeks, turn, pc, job>>
  BY DEF CleanupPlayer, service
<1>2. Kept(q) /\ Home[q] \in Servers /\ Home[p] \in Servers
  BY HomeAssumption DEF AllKept
<1>3. /\ Held(q)' = Held(q) /\ Notified(q)' = Notified(q) /\ InHand(q)' = InHand(q)
  BY <1>1 DEF Held, InHand, Notified, Plays
<1>4. Queued(q)' => Queued(q)
  <2>1. /\ Range(queue'[Home[p]]) = Range(queue[Home[p]]) \ {p}
        /\ \A t \in Servers : t # Home[p] => queue'[t] = queue[t]
    BY <1>2, QueueRemoved DEF IInv, CleanupPlayer
  <2>2. QED  BY <1>2, <2>1 DEF Queued
<1>5. Online(q)' => Online(q)
  BY DEF CleanupPlayer, Online, IInv, TypeOK
<1>6. MatchesOf(q)' \subseteq MatchesOf(q)
  <2>1. matches \in [Servers -> SUBSET Match]
    BY DEF IInv, TypeOK
  <2>2. UNCHANGED matches \/ \E m \in Match : matches' = [matches EXCEPT ![Home[p]] = @ \ {m}]
    BY <1>2, <2>1, Zenon DEF CleanupPlayer, MatchesOf
  <2>3. matches'[Home[q]] \subseteq matches[Home[q]]
    BY <1>2, <2>1, <2>2
  <2>4. QED  BY <2>3 DEF MatchesOf
<1>7. QED  BY <1>1, <1>2, <1>3, <1>4, <1>5, <1>6, KeptStays

LEMMA RemoveMatchKeeps ==
  ASSUME IInv, AllKept, NEW s \in Servers, NEW m \in matches[s], RemoveMatch(s, m)
  PROVE  AllKept'
<1> SUFFICES ASSUME NEW q \in Players PROVE Kept(q)'
  BY DEF AllKept
<1>1. UNCHANGED <<conn, asking, seeks, queue, turn, pc, job>>
  BY DEF RemoveMatch, service, players
<1>2. Kept(q) /\ Home[q] \in Servers
  BY HomeAssumption DEF AllKept
<1>3. /\ Queued(q)' = Queued(q) /\ Held(q)' = Held(q) /\ InHand(q)' = InHand(q)
      /\ Notified(q)' = Notified(q) /\ Online(q)' = Online(q)
  BY <1>1 DEF Queued, Held, InHand, Notified, Online, Plays
<1>4. matches'[Home[q]] \subseteq matches[Home[q]]
  BY <1>2 DEF RemoveMatch, IInv, TypeOK
<1>5. MatchesOf(q)' \subseteq MatchesOf(q)
  BY <1>4 DEF MatchesOf
<1>6. QED  BY <1>1, <1>2, <1>3, <1>5, KeptStays

\* A step of the loop of s in which nobody else's server changes.
LEMMA OwnPlayers ==
  ASSUME AllKept, NEW s \in Servers, asking' = asking, conn' = conn,
         \A t \in Servers : t # s => /\ queue'[t] = queue[t] /\ pc'[t] = pc[t]
                                     /\ job'[t] = job[t] /\ matches'[t] = matches[t],
         \A p \in Players : Home[p] # s /\ p \in seeks => p \in seeks',
         \A p \in Players : Home[p] = s /\ Kept(p) => Kept(p)'
  PROVE  AllKept'
<1> SUFFICES ASSUME NEW p \in Players PROVE Kept(p)'
  BY DEF AllKept
<1>1. Kept(p) /\ Home[p] \in Servers
  BY HomeAssumption DEF AllKept
<1>2. CASE Home[p] = s
  BY <1>1, <1>2
<1>3. CASE Home[p] # s
  BY <1>1, <1>3, Elsewhere
<1>4. QED  BY <1>2, <1>3

\* The loop of s goes on with the players it has, or without them.
LEMMA LoopGoesOn ==
  ASSUME AllKept, NEW s \in Servers, UNCHANGED <<conn, asking, seeks, queue, matches>>,
         \A t \in Servers : t # s => pc'[t] = pc[t] /\ job'[t] = job[t],
         pc'[s] \notin {"create", "host", "notify"},
         \A p \in Players : Home[p] = s /\ Held(p)' => Held(p) /\ ~Notified(p)
  PROVE  AllKept'
<1>1. ASSUME NEW p \in Players, Home[p] = s, Kept(p) PROVE Kept(p)'
  <2>1. /\ Queued(p)' = Queued(p) /\ Online(p)' = Online(p) /\ MatchesOf(p)' = MatchesOf(p)
        /\ ~InHand(p)'
    BY <1>1 DEF Queued, Online, MatchesOf, InHand
  <2>2. QED  BY <1>1, <2>1, KeptStays
<1>2. QED  BY <1>1, OwnPlayers

LEMMA LoopKeeps ==
  ASSUME IInv, AllKept, NEW s \in Servers,
         \/ ReceiveToken(s) \/ PassToken(s) \/ SearchEnds(s) \/ RequestFails(s)
         \/ \E t \in Servers : FindOpponent(s, t) \/ FindNobody(s, t)
  PROVE  AllKept'
<1>1. pc \in [Servers -> Places] /\ job \in [Servers -> Jobs]
  BY DEF IInv, TypeOK
<1>2. CASE ReceiveToken(s) \/ PassToken(s) \/ SearchEnds(s)
  <2>1. /\ UNCHANGED <<conn, asking, seeks, queue, matches>>
        /\ job' = job \/ job' = [job EXCEPT ![s] = NoJob]
        /\ GoTo(s, "queue") \/ GoTo(s, "away") \/ GoTo(s, "pass")
    BY <1>2 DEF ReceiveToken, PassToken, SearchEnds, players
  <2>2. /\ pc'[s] \in {"queue", "away", "pass"}
        /\ \A t \in Servers : t # s => pc'[t] = pc[t] /\ job'[t] = job[t]
    BY <1>1, <2>1 DEF GoTo
  <2>3. \A p \in Players : Home[p] = s => ~Held(p)'
    BY <2>2 DEF Held
  <2>4. QED  BY <2>1, <2>2, <2>3, LoopGoesOn
<1>3. CASE RequestFails(s)
  <2>1. /\ UNCHANGED <<conn, asking, seeks, queue, matches, job>>
        /\ GoTo(s, "drop") /\ pc[s] = "request"
    BY <1>3 DEF RequestFails
  <2>2. pc'[s] = "drop" /\ \A t \in Servers : t # s => pc'[t] = pc[t]
    BY <1>1, <2>1 DEF GoTo
  <2>3. \A p \in Players : Home[p] = s => (Held(p)' => Held(p)) /\ ~Notified(p)
    BY <2>1 DEF Held, Notified, Plays
  <2>4. QED  BY <2>1, <2>2, <2>3, LoopGoesOn
<1>4. ASSUME NEW t \in Servers, FindNobody(s, t) PROVE AllKept'
  <2>1. UNCHANGED <<conn, asking, seeks, queue, matches, pc, job>> /\ pc[s] = "find"
    BY <1>4 DEF FindNobody, players
  <2>2. \A p \in Players : Home[p] = s => (Held(p)' => Held(p)) /\ ~Notified(p)
    BY <2>1 DEF Held, Notified, Plays
  <2>3. QED  BY <2>1, <2>2, LoopGoesOn
<1>5. ASSUME NEW t \in Servers, FindOpponent(s, t) PROVE AllKept'
  <2> DEFINE j == Pair(made + 1, job[s].p1, Head(queue[t]))
  <2>1. /\ UNCHANGED <<conn, asking, seeks, queue, matches>>
        /\ GoTo(s, "request") /\ pc[s] = "find"
        /\ job' = [job EXCEPT ![s] = j]
    BY <1>5 DEF FindOpponent, players
  <2>2. /\ pc'[s] = "request" /\ job'[s] = j
        /\ \A u \in Servers : u # s => pc'[u] = pc[u] /\ job'[u] = job[u]
    BY <1>1, <2>1 DEF GoTo
  <2>3. t # s /\ Home[Head(queue[t])] = t
    <3>1. t # s /\ queue[t] # <<>>
      BY <1>5 DEF IInv, TypeOK, FindOpponent, IsNext
    <3>2. QED  BY <3>1, QueueHead DEF IInv
  <2>4. j.p1 = job[s].p1 /\ j.p2 = Head(queue[t])
    BY DEF Pair
  <2> HIDE DEF j
  <2>5. \A p \in Players : Home[p] = s => (Held(p)' => Held(p)) /\ ~Notified(p)
    BY <2>1, <2>2, <2>3, <2>4 DEF Held, Notified, Plays
  <2>6. QED  BY <2>1, <2>2, <2>5, LoopGoesOn
<1>6. QED  BY <1>2, <1>3, <1>4, <1>5

\* Who is taken from the queue waits and does not play.
LEMMA TakeSnapshotKeeps ==
  ASSUME IInv, AllKept, NEW s \in Servers, TakeSnapshot(s)
  PROVE  AllKept'
<1>1. /\ UNCHANGED <<conn, asking, seeks, queue, matches>> /\ pc[s] = "queue"
      /\ IInv'
  BY StepInv DEF TakeSnapshot, players, Next, Run, ProcessMatchmakingQueue
<1>2. /\ queue[s] \in Seq(Players) /\ Len(queue[s]) \in Nat
      /\ DOMAIN queue[s] = 1 .. Len(queue[s])
      /\ pc \in [Servers -> Places] /\ job \in [Servers -> Jobs]
  BY LenProperties DEF IInv, TypeOK
<1>3. /\ pc'[s] \in {"remove", "find", "pass"}
      /\ \A t \in Servers : t # s => pc'[t] = pc[t] /\ job'[t] = job[t]
      /\ pc'[s] # "pass" =>
           \A p \in Players : Plays(p, job'[s]) => p \in Range(queue[s])
  <2>1. CASE TwoWait(queue[s]) /\ GoTo(s, "remove")
             /\ job' = [job EXCEPT ![s] = Pair(0, queue[s][1], queue[s][2])]
    <3>1. queue[s][1] \in Range(queue[s]) /\ queue[s][2] \in Range(queue[s])
      BY <1>2, <2>1 DEF TwoWait, Range
    <3>2. QED  BY <1>2, <2>1, <3>1 DEF GoTo, Pair, Plays
  <2>2. CASE Len(queue[s]) = 1 /\ GoTo(s, "find")
             /\ job' = [job EXCEPT ![s] = Pair(0, queue[s][1], NoPlayer)]
    <3>1. queue[s][1] \in Range(queue[s])
      BY <1>2, <2>2 DEF Range
    <3>2. QED  BY <1>2, <2>2, <3>1, NoPlayerAssumption DEF GoTo, Pair, Plays
  <2>3. CASE GoTo(s, "pass") /\ job' = job
    BY <1>2, <2>3 DEF GoTo
  <2>4. QED  BY <2>1, <2>2, <2>3, Zenon DEF TakeSnapshot
<1>4. ASSUME NEW p \in Players, Home[p] = s, Kept(p) PROVE Kept(p)'
  <2>1. /\ Queued(p)' = Queued(p) /\ Online(p)' = Online(p) /\ MatchesOf(p)' = MatchesOf(p)
        /\ ~InHand(p)' /\ ~Notified(p)'
    BY <1>1, <1>3, <1>4 DEF Queued, Online, MatchesOf, InHand, Notified
  <2>2. Held(p)' => Queued(p)
    BY <1>3, <1>4 DEF Held, Queued
  <2>3. QED  BY <1>1, <1>4, <2>1, <2>2 DEF Kept
<1>5. QED  BY <1>1, <1>3, <1>4, OwnPlayers

\* The two players of a local match leave the queue and have not asked since.
LEMMA RemovePairKeeps ==
  ASSUME IInv, AllKept, NEW s \in Servers, RemovePair(s)
  PROVE  AllKept'
<1>1. /\ UNCHANGED <<conn, asking, seeks, matches, job>>
      /\ pc[s] = "remove" /\ pc'[s] = "create"
      /\ \A t \in Servers : t # s => pc'[t] = pc[t]
  BY DEF RemovePair, GoTo, players, IInv, TypeOK
<1>2. /\ Range(queue'[s]) = Range(queue[s]) \ {job[s].p1, job[s].p2}
      /\ \A t \in Servers : t # s => queue'[t] = queue[t]
  BY QueueRemovedTwice DEF IInv, RemovePair
<1>3. ASSUME NEW p \in Players, Home[p] = s, Kept(p) PROVE Kept(p)'
  <2>1. /\ Held(p)' = Held(p) /\ Online(p)' = Online(p) /\ MatchesOf(p)' = MatchesOf(p)
        /\ ~Notified(p) /\ ~Notified(p)'
    BY <1>1, <1>3 DEF Held, Online, MatchesOf, Notified, Plays
  <2>2. (Queued(p)' => Queued(p)) /\ (InHand(p)' => ~Queued(p)')
    BY <1>1, <1>2, <1>3 DEF Queued, InHand, Plays
  <2>3. QED  BY <1>1, <1>3, <2>1, <2>2 DEF Kept
<1>4. QED  BY <1>1, <1>2, <1>3, OwnPlayers

\* A local match is the only one of its two players.
LEMMA CreateLocalMatchKeeps ==
  ASSUME IInv, AllKept, NEW s \in Servers, CreateLocalMatch(s)
  PROVE  AllKept'
<1> DEFINE m == Pair(made + 1, job[s].p1, job[s].p2)
<1>1. /\ UNCHANGED <<conn, asking, seeks, queue>>
      /\ pc[s] = "create" /\ pc'[s] = "notify"
      /\ \A t \in Servers : t # s => /\ pc'[t] = pc[t] /\ job'[t] = job[t]
                                     /\ matches'[t] = matches[t]
      /\ job'[s] = m /\ matches'[s] = matches[s] \cup {m}
  BY DEF CreateLocalMatch, GoTo, players, IInv, TypeOK
<1>2. m.p1 = job[s].p1 /\ m.p2 = job[s].p2
  BY DEF Pair
<1> HIDE DEF m
<1>3. ASSUME NEW p \in Players, Home[p] = s, Kept(p) PROVE Kept(p)'
  <2>1. /\ Held(p)' = Held(p) /\ Online(p)' = Online(p) /\ Queued(p)' = Queued(p)
        /\ InHand(p)' = InHand(p) /\ ~Notified(p) /\ Notified(p)'
    BY <1>1, <1>2, <1>3 DEF Held, InHand, Online, Queued, Notified, Plays
  <2>2. CASE Held(p)
    <3>1. MatchesOf(p) = {} /\ InHand(p)
      BY <1>1, <1>3, <2>1, <2>2 DEF Kept, Held, InHand
    <3>2. MatchesOf(p)' \subseteq {m}
      BY <1>1, <1>3, <3>1 DEF MatchesOf
    <3>3. QED  BY <1>1, <1>3, <2>1, <2>2, <3>1, <3>2 DEF Kept
  <2>3. CASE ~Held(p)
    <3>1. ~Plays(p, m)
      BY <1>1, <1>2, <1>3, <2>3 DEF Held, Plays
    <3>2. MatchesOf(p)' = MatchesOf(p)
      BY <1>1, <1>3, <3>1 DEF MatchesOf
    <3>3. QED  BY <1>1, <1>3, <2>1, <2>3, <3>2, KeptStays
  <2>4. QED  BY <2>2, <2>3
<1>4. QED  BY <1>1, <1>3, OwnPlayers

\* Whoever gets MATCH_FOUND has left the queue.
LEMMA NotifyPlayersKeeps ==
  ASSUME IInv, AllKept, NEW s \in Servers, NotifyPlayersOfMatch(s)
  PROVE  AllKept'
<1>1. /\ UNCHANGED <<conn, asking, queue, matches, job>>
      /\ pc[s] = "notify" /\ pc'[s] = "pass"
      /\ \A t \in Servers : t # s => pc'[t] = pc[t]
      /\ seeks' = seeks \ {p \in Players : Plays(p, job[s]) /\ Home[p] = s}
  BY DEF NotifyPlayersOfMatch, GoTo, players, IInv, TypeOK
<1>2. ASSUME NEW p \in Players, Home[p] = s, Kept(p) PROVE Kept(p)'
  <2>1. /\ Queued(p)' = Queued(p) /\ Online(p)' = Online(p) /\ MatchesOf(p)' = MatchesOf(p)
        /\ ~Held(p)' /\ ~InHand(p)'
    BY <1>1, <1>2 DEF Queued, Online, MatchesOf, Held, InHand
  <2>2. Plays(p, job[s]) => ~Queued(p)
    BY <1>1, <1>2 DEF Kept, InHand
  <2>3. Queued(p) /\ p \in seeks => p \in seeks'
    BY <1>1, <2>2
  <2>4. QED  BY <1>1, <1>2, <2>1, <2>3, KeptStays
<1>3. QED  BY <1>1, <1>2, OwnPlayers

\* The host leaves the queue, to be told that the setup failed or to play.
LEMMA LeaveQueueKeeps ==
  ASSUME IInv, AllKept, NEW s \in Servers, DropHost(s) \/ RemoveHost(s)
  PROVE  AllKept'
<1>1. UNCHANGED <<conn, asking, matches, job>>
  BY DEF DropHost, RemoveHost, players
<1>2. /\ Range(queue'[s]) = Range(queue[s]) \ {job[s].p1}
      /\ \A t \in Servers : t # s => queue'[t] = queue[t]
  <2>1. queue' = [queue EXCEPT ![s] = Without(@, job[s].p1)]
    BY DEF DropHost, RemoveHost
  <2>2. QED  BY <2>1, QueueRemoved DEF IInv
<1>3. /\ \A t \in Servers : t # s => pc'[t] = pc[t]
      /\ \/ pc[s] = "drop" /\ pc'[s] = "pass" /\ seeks' = seeks \ {job[s].p1}
         \/ pc[s] = "leave queue" /\ pc'[s] = "host" /\ seeks' = seeks
  <2>1. \/ pc[s] = "drop" /\ GoTo(s, "pass") /\ seeks' = seeks \ {job[s].p1}
        \/ pc[s] = "leave queue" /\ GoTo(s, "host") /\ seeks' = seeks
    BY DEF DropHost, RemoveHost
  <2>2. QED  BY <2>1, Goes DEF IInv, Places
<1>4. Home[job[s].p1] = s /\ Home[job[s].p2] # s
  BY <1>3 DEF IInv, JobsFit, JobFits
<1>5. ASSUME NEW p \in Players, Home[p] = s, Kept(p) PROVE Kept(p)'
  <2>1. /\ Online(p)' = Online(p) /\ MatchesOf(p)' = MatchesOf(p)
        /\ ~Notified(p) /\ ~Notified(p)'
    BY <1>1, <1>3, <1>5 DEF Online, MatchesOf, Notified
  <2>2. /\ Queued(p)' => Queued(p) /\ p # job[s].p1
        /\ Held(p)' => Held(p) /\ seeks' = seeks
        /\ InHand(p)' => p = job[s].p1
    BY <1>1, <1>2, <1>3, <1>4, <1>5 DEF Queued, Held, InHand, Plays
  <2>3. (Queued(p) \/ Held(p))' /\ p \in seeks => p \in seeks'
    BY <1>3, <2>2
  <2>4. QED  BY <1>1, <1>5, <2>1, <2>2, <2>3 DEF Kept
<1>6. \A p \in Players : Home[p] # s /\ p \in seeks => p \in seeks'
  BY <1>3, <1>4
<1>7. QED  BY <1>1, <1>2, <1>3, <1>5, <1>6, OwnPlayers

\* The host's half is the only match of the host at the host's own server.
LEMMA CreateAsHostKeeps ==
  ASSUME IInv, AllKept, NEW s \in Servers, CreateDistributedMatchAsHost(s)
  PROVE  AllKept'
<1>1. /\ UNCHANGED <<conn, asking, seeks, queue, job>>
      /\ pc[s] = "host"
      /\ \A t \in Servers : t # s => pc'[t] = pc[t] /\ matches'[t] = matches[t]
      /\ \/ pc'[s] = "notify" /\ matches'[s] = matches[s] \cup {job[s]}
         \/ pc'[s] = "pass" /\ matches'[s] = matches[s]
  BY DEF CreateDistributedMatchAsHost, GoTo, players, IInv, TypeOK
<1>2. ASSUME NEW p \in Players, Home[p] = s, Kept(p) PROVE Kept(p)'
  <2>1. /\ Online(p)' = Online(p) /\ Queued(p)' = Queued(p) /\ ~Notified(p)
        /\ (Held(p)' => Held(p) /\ Notified(p)') /\ (InHand(p)' => InHand(p))
    BY <1>1, <1>2 DEF Held, InHand, Online, Queued, Notified, Plays
  <2>2. CASE Held(p) /\ pc'[s] = "notify"
    <3>1. MatchesOf(p) = {} /\ InHand(p)
      BY <1>1, <1>2, <2>1, <2>2 DEF Kept, Held, InHand
    <3>2. MatchesOf(p)' \subseteq {job[s]}
      BY <1>1, <1>2, <3>1 DEF MatchesOf
    <3>3. Held(p)' /\ Notified(p)'
      BY <1>1, <1>2, <2>2 DEF Held, Notified, Plays
    <3>4. QED  BY <1>1, <1>2, <2>1, <2>2, <3>1, <3>2, <3>3 DEF Kept
  <2>3. CASE ~Held(p) \/ pc'[s] = "pass"
    <3>1. MatchesOf(p)' = MatchesOf(p)
      BY <1>1, <1>2, <2>3 DEF MatchesOf, Held, Plays
    <3>2. ~Held(p)'
      BY <1>2, <2>1, <2>3 DEF Held
    <3>3. QED  BY <1>1, <1>2, <2>1, <3>1, <3>2, KeptStays
  <2>4. QED  BY <1>1, <2>2, <2>3
<1>3. QED  BY <1>1, <1>2, OwnPlayers

\* A guest who is still the first of a queue is not looked at by the guest's own server, whose
\* turn it is not, and plays no other match.
LEMMA RequestMatchKeeps ==
  ASSUME IInv, AllKept, OneTurn, NEW s \in Servers, RequestMatch(s)
  PROVE  AllKept'
<1> DEFINE m == job[s]
           t == Home[m.p2]
<1>1. /\ UNCHANGED <<conn, asking, job>> /\ pc[s] = "request"
      /\ m.p1 \in Players /\ Home[m.p1] = s /\ m.p2 \in Players /\ t \in Servers /\ t # s
  BY HomeAssumption DEF RequestMatch, players, IInv, JobsFit, JobFits
<1>2. CASE Reject /\ GoTo(s, "drop")
  <2>1. /\ UNCHANGED <<queue, matches, seeks>> /\ pc'[s] = "drop"
        /\ \A u \in Servers : u # s => pc'[u] = pc[u]
    BY <1>2 DEF Reject, GoTo, IInv, TypeOK
  <2>2. \A p \in Players : Home[p] = s => (Held(p)' => Held(p)) /\ ~Notified(p)
    BY <1>1 DEF Held, Notified, Plays
  <2>3. QED  BY <1>1, <2>1, <2>2, LoopGoesOn
<1>3. CASE Available(m) /\ Confirm(m) /\ GoTo(s, "leave queue")
  <2>1. /\ pc'[s] = "leave queue" /\ \A u \in Servers : u # s => pc'[u] = pc[u]
        /\ pc[t] = "away"
    <3>1. pc[t] = "away"
      BY <1>1 DEF OneTurn, HasTurn
    <3>2. QED  BY <1>3, <3>1, Goes DEF IInv, Places
  <2>2. /\ \A u \in Servers : u # t => queue'[u] = queue[u] /\ matches'[u] = matches[u]
        /\ matches'[t] = matches[t] \cup {m}
        /\ m.p2 \in Range(queue[t]) /\ Range(queue'[t]) = Range(queue[t]) \ {m.p2}
        /\ seeks' = seeks \ {m.p2}
    <3>1. /\ queue[t] # <<>> /\ Head(queue[t]) = m.p2
          /\ queue' = [queue EXCEPT ![t] = Tail(@)]
          /\ matches' = [matches EXCEPT ![t] = @ \cup {m}]
          /\ seeks' = seeks \ {m.p2}
      BY <1>3 DEF Available, Confirm
    <3>2. /\ queue[t] \in Seq(Players) /\ IsInjective(queue[t])
          /\ queue \in [Servers -> Seq(Players)] /\ matches \in [Servers -> SUBSET Match]
      BY <1>1 DEF IInv, TypeOK, QueuedOnce
    <3>3. /\ Head(queue[t]) \in Range(queue[t])
          /\ Range(Tail(queue[t])) = Range(queue[t]) \ {Head(queue[t])}
      BY <3>1, <3>2, TailRange
    <3>4. queue'[t] = Tail(queue[t])
      BY <1>1, <3>1, <3>2
    <3>5. QED  BY <1>1, <3>1, <3>2, <3>3, <3>4
  <2> SUFFICES ASSUME NEW p \in Players PROVE Kept(p)'
    BY DEF AllKept
  <2> HIDE DEF m, t
  <2>3. Kept(p) /\ Home[p] \in Servers /\ Online(p)' = Online(p) /\ m = job[s] /\ t = Home[m.p2]
    BY <1>1, HomeAssumption DEF AllKept, Online, m, t
  <2>4. CASE p = m.p2
    <3>1. Queued(p) /\ ~Queued(p)' /\ MatchesOf(p) = {} /\ p \notin asking
      BY <2>2, <2>3, <2>4 DEF Queued, Kept
    <3>2. ~Held(p)' /\ ~InHand(p)'
      BY <1>1, <2>1, <2>3, <2>4 DEF Held, InHand
    <3>3. MatchesOf(p)' \subseteq {m}
      BY <2>2, <2>3, <2>4, <3>1 DEF MatchesOf
    <3>4. QED  BY <1>1, <3>1, <3>2, <3>3 DEF Kept
  <2>5. CASE p # m.p2
    <3>1. Queued(p)' => Queued(p)
      BY <2>2, <2>3 DEF Queued
    <3>2. MatchesOf(p)' = MatchesOf(p)
      BY <1>1, <2>2, <2>3, <2>5 DEF MatchesOf, Plays
    <3>3. /\ Held(p)' => Held(p)
          /\ Held(p)' /\ ~Notified(p)' => ~Notified(p)
          /\ InHand(p)' => InHand(p)
      BY <1>1, <2>1, <2>3 DEF Held, InHand, Notified, Plays
    <3>4. p \in seeks => p \in seeks'
      BY <2>2, <2>5
    <3>5. QED  BY <1>1, <2>3, <3>1, <3>2, <3>3, <3>4, KeptStays
  <2>6. QED  BY <2>4, <2>5
<1>4. QED  BY <1>2, <1>3 DEF RequestMatch

\* Without late POSTs the turn goes from one server to the next.
LEMMA OneTurnStays ==
  ASSUME TypeOK, OneTurn, [Next]_vars, orderly'
  PROVE  OneTurn'
<1>1. turn \in [Servers -> BOOLEAN] /\ pc \in [Servers -> Places]
  BY DEF TypeOK
<1>2. CASE UNCHANGED <<turn, pc>>
  BY <1>2 DEF OneTurn, HasTurn
<1>3. ASSUME NEW s \in Servers, ReceiveToken(s) PROVE OneTurn'
  <2>1. /\ turn[s] /\ pc[s] = "away"
        /\ turn' = [turn EXCEPT ![s] = FALSE] /\ pc' = [pc EXCEPT ![s] = "queue"]
    BY <1>3 DEF ReceiveToken, GoTo
  <2>2. ~turn'[s] /\ \A t \in Servers : t # s => turn'[t] = turn[t] /\ pc'[t] = pc[t]
    BY <1>1, <2>1
  <2>3. \A t \in Servers : HasTurn(t)' => t = s
    BY <2>1, <2>2 DEF OneTurn, HasTurn
  <2>4. QED  BY <2>2, <2>3 DEF OneTurn, HasTurn
<1>4. ASSUME NEW s \in Servers, PassToken(s) PROVE OneTurn'
  <2>1. /\ pc[s] = "pass" /\ pc' = [pc EXCEPT ![s] = "away"]
        /\ turn' = [turn EXCEPT ![Succ(s)] = TRUE]
    BY <1>4 DEF PassToken, GoTo
  <2>2. \A t \in Servers : pc'[t] = "away"
    BY <1>1, <2>1 DEF OneTurn, HasTurn
  <2>3. \A t \in Servers : turn'[t] => t = Succ(s)
    BY <1>1, <2>1 DEF OneTurn, HasTurn
  <2>4. QED  BY <2>2, <2>3 DEF OneTurn, HasTurn
<1>5. ASSUME NEW s \in Servers, UNCHANGED turn, pc[s] # "away",
             NEW place \in Places \ {"away"}, pc' = [pc EXCEPT ![s] = place]
      PROVE  OneTurn'
  <2>1. /\ \A t \in Servers : t # s => pc'[t] = pc[t]
        /\ pc'[s] # "away" /\ turn' = turn
    BY <1>1, <1>5
  <2>2. \A t \in Servers : HasTurn(t)' = HasTurn(t)
    BY <1>1, <1>5, <2>1 DEF HasTurn
  <2>3. QED  BY <1>5, <2>1, <2>2 DEF OneTurn
<1>6. ASSUME NEW s \in Servers, ProcessMatchmakingQueue(s)
      PROVE  \/ UNCHANGED <<turn, pc>>
             \/ /\ UNCHANGED turn /\ pc[s] # "away"
                /\ \E place \in Places \ {"away"} : pc' = [pc EXCEPT ![s] = place]
  <2>1. CASE TakeSnapshot(s) \/ RemovePair(s) \/ CreateLocalMatch(s) \/ NotifyPlayersOfMatch(s)
    BY <2>1 DEF TakeSnapshot, RemovePair, CreateLocalMatch, NotifyPlayersOfMatch, GoTo, Places
  <2>2. CASE SearchEnds(s) \/ \E t \in Servers : FindOpponent(s, t) \/ FindNobody(s, t)
    BY <2>2 DEF SearchEnds, FindOpponent, FindNobody, GoTo, Places
  <2>3. CASE RequestMatch(s) \/ RequestFails(s) \/ DropHost(s)
    BY <2>3 DEF RequestMatch, RequestFails, DropHost, GoTo, Places
  <2>4. CASE RemoveHost(s) \/ CreateDistributedMatchAsHost(s)
    BY <2>4 DEF RemoveHost, CreateDistributedMatchAsHost, GoTo, Places
  <2>5. QED  BY <1>6, <2>1, <2>2, <2>3, <2>4 DEF ProcessMatchmakingQueue, Distribute
<1>7. ASSUME NEW s \in Servers, Run(s) PROVE OneTurn'
  <2>1. ~PassTokenLate(s)
    BY DEF PassTokenLate
  <2>2. CASE ProcessMatchmakingQueue(s)
    BY <1>2, <1>5, <1>6, <2>2
  <2>3. QED  BY <1>3, <1>4, <1>7, <2>1, <2>2 DEF Run
<1>8. ASSUME NEW p \in Players, SendFindMatch(p) \/ HandleFindMatch(p) \/ CleanupPlayer(p)
      PROVE  OneTurn'
  BY <1>2, <1>8 DEF SendFindMatch, HandleFindMatch, CleanupPlayer, service
<1>9. ASSUME NEW s \in Servers, NEW m \in matches[s], RemoveMatch(s, m) PROVE OneTurn'
  BY <1>2, <1>9 DEF RemoveMatch, service
<1>10. ASSUME NEW m \in late, HandleLateRequest(m) PROVE OneTurn'
  BY <1>2, <1>10 DEF HandleLateRequest, service
<1>11. CASE UNCHANGED vars
  BY <1>2, <1>11 DEF vars, service
<1>12. QED  BY <1>7, <1>8, <1>9, <1>10, <1>11 DEF Next

LEMMA ApartStep ==
  ASSUME IInv, Apart, [Next]_vars, orderly'
  PROVE  late' = {} /\ OneTurn' /\ AllKept'
<1>1. orderly /\ (late' = late \/ \E m \in late : late' = late \ {m})
  <2>1. ASSUME NEW p \in Players, SendFindMatch(p) \/ HandleFindMatch(p) \/ CleanupPlayer(p)
        PROVE  orderly /\ late' = late
    BY <2>1 DEF SendFindMatch, HandleFindMatch, CleanupPlayer
  <2>2. ASSUME NEW s \in Servers, NEW m \in matches[s], RemoveMatch(s, m)
        PROVE  orderly /\ late' = late
    BY <2>2 DEF RemoveMatch, players
  <2>3. ASSUME NEW m \in late, HandleLateRequest(m) PROVE orderly /\ late' = late \ {m}
    BY <2>3 DEF HandleLateRequest, players
  <2>4. ASSUME NEW s \in Servers, ReceiveToken(s) \/ PassToken(s) \/ PassTokenLate(s)
        PROVE  orderly /\ late' = late
    BY <2>4 DEF ReceiveToken, PassToken, PassTokenLate, players
  <2>5. ASSUME NEW s \in Servers, Distribute(s) PROVE orderly /\ late' = late
    <3>1. ASSUME NEW t \in Servers, FindOpponent(s, t) \/ FindNobody(s, t)
          PROVE  orderly /\ late' = late
      BY <3>1 DEF FindOpponent, FindNobody, players
    <3>2. CASE SearchEnds(s) \/ RequestMatch(s) \/ RequestFails(s)
      BY <3>2 DEF SearchEnds, RequestMatch, RequestFails, players
    <3>3. CASE DropHost(s) \/ RemoveHost(s) \/ CreateDistributedMatchAsHost(s)
      BY <3>3 DEF DropHost, RemoveHost, CreateDistributedMatchAsHost, players
    <3>4. QED  BY <2>5, <3>1, <3>2, <3>3 DEF Distribute
  <2>6. ASSUME NEW s \in Servers,
               TakeSnapshot(s) \/ RemovePair(s) \/ CreateLocalMatch(s) \/ NotifyPlayersOfMatch(s)
        PROVE  orderly /\ late' = late
    BY <2>6 DEF TakeSnapshot, RemovePair, CreateLocalMatch, NotifyPlayersOfMatch, players
  <2>7. CASE UNCHANGED vars
    BY <2>7 DEF vars, players
  <2>8. QED  BY <2>1, <2>2, <2>3, <2>4, <2>5, <2>6, <2>7 DEF Next, Run, ProcessMatchmakingQueue
<1>2. late = {} /\ OneTurn /\ AllKept
  BY <1>1 DEF Apart
<1>3. OneTurn'
  BY <1>2, OneTurnStays DEF IInv
<1>4. AllKept'
  <2>1. ASSUME NEW p \in Players, SendFindMatch(p) \/ HandleFindMatch(p) \/ CleanupPlayer(p)
        PROVE  AllKept'
    BY <1>2, <2>1, SendFindMatchKeeps, HandleFindMatchKeeps, CleanupPlayerKeeps
  <2>2. ASSUME NEW s \in Servers, NEW m \in matches[s], RemoveMatch(s, m) PROVE AllKept'
    BY <1>2, <2>2, RemoveMatchKeeps
  <2>3. ASSUME NEW s \in Servers, ReceiveToken(s) \/ PassToken(s) \/ PassTokenLate(s)
        PROVE  AllKept'
    <3>1. ~PassTokenLate(s)
      BY DEF PassTokenLate
    <3>2. QED  BY <1>2, <2>3, <3>1, LoopKeeps
  <2>4. ASSUME NEW s \in Servers, TakeSnapshot(s) \/ RemovePair(s) \/ CreateLocalMatch(s)
        PROVE  AllKept'
    BY <1>2, <2>4, TakeSnapshotKeeps, RemovePairKeeps, CreateLocalMatchKeeps
  <2>5. ASSUME NEW s \in Servers, NotifyPlayersOfMatch(s) PROVE AllKept'
    BY <1>2, <2>5, NotifyPlayersKeeps
  <2>6. ASSUME NEW s \in Servers, Distribute(s) PROVE AllKept'
    <3>1. CASE SearchEnds(s) \/ RequestFails(s)
               \/ \E t \in Servers : FindOpponent(s, t) \/ FindNobody(s, t)
      BY <1>2, <3>1, LoopKeeps
    <3>2. CASE RequestMatch(s)
      BY <1>2, <3>2, RequestMatchKeeps
    <3>3. CASE DropHost(s) \/ RemoveHost(s)
      BY <1>2, <3>3, LeaveQueueKeeps
    <3>4. CASE CreateDistributedMatchAsHost(s)
      BY <1>2, <3>4, CreateAsHostKeeps
    <3>5. QED  BY <2>6, <3>1, <3>2, <3>3, <3>4 DEF Distribute
  <2>7. CASE UNCHANGED vars
    <3>1. UNCHANGED <<conn, asking, seeks, queue, matches, pc, job>>
      BY <2>7 DEF vars, players, service
    <3>2. \A p \in Players : Kept(p) => Kept(p)'
      BY <3>1, Elsewhere
    <3>3. QED  BY <1>2, <3>2 DEF AllKept
  <2>8. QED  BY <1>2, <2>1, <2>2, <2>3, <2>4, <2>5, <2>6, <2>7
             DEF Next, Run, ProcessMatchmakingQueue
<1>5. late' = {}
  BY <1>1, <1>2
<1>6. QED  BY <1>3, <1>4, <1>5

LEMMA ApartAtFirst == Init => Apart
<1> SUFFICES ASSUME Init PROVE late = {} /\ OneTurn /\ AllKept
  BY DEF Apart
<1>1. late = {} /\ OneTurn
  BY DEF Init, OneTurn, HasTurn
<1>2. ASSUME NEW p \in Players PROVE Kept(p)
  <2>1. Home[p] \in Servers
    BY HomeAssumption
  <2>2. /\ ~Queued(p) /\ ~Held(p) /\ ~InHand(p) /\ MatchesOf(p) = {} /\ p \notin asking
    BY <2>1, EmptyRange DEF Init, Queued, Held, InHand, MatchesOf
  <2>3. QED  BY <2>2 DEF Kept
<1>3. QED  BY <1>1, <1>2 DEF AllKept

\* For all servers, players and homes: the one token is enough to pair everybody once, though
\* the queues are read, searched and changed in separate steps and players leave between any
\* two of them.  Only a late POST, or a player who asks while waiting or playing, undoes it;
\* calls that are lost do not.
THEOREM PairedOnce == Spec => []UniquePairing
<1>1. Init => IInv /\ Apart
  BY InitInv, ApartAtFirst
<1>2. IInv /\ Apart /\ [Next]_vars => IInv' /\ Apart'
  <2>1. IInv /\ Apart /\ [Next]_vars /\ orderly' => late' = {} /\ OneTurn' /\ AllKept'
    BY ApartStep
  <2>2. QED  BY <2>1, StepInv DEF Apart
<1>3. Apart => UniquePairing
  <2> SUFFICES ASSUME Apart, orderly, NEW p \in Players
               PROVE  Cardinality(MatchesOf(p)) <= 1 /\ (Queued(p) => MatchesOf(p) = {})
    BY DEF UniquePairing
  <2>1. Kept(p)
    BY DEF Apart, AllKept
  <2>2. Cardinality(MatchesOf(p)) <= 1
    <3>1. CASE MatchesOf(p) = {}
      BY <3>1, FS_EmptySet
    <3>2. ASSUME NEW m \in MatchesOf(p) PROVE Cardinality(MatchesOf(p)) <= 1
      <4>1. MatchesOf(p) = {m}
        BY <2>1, <3>2 DEF Kept
      <4>2. QED  BY <4>1, FS_Singleton
    <3>3. QED  BY <3>1, <3>2
  <2>3. QED  BY <2>1, <2>2 DEF Kept
<1>4. QED  BY <1>1, <1>2, <1>3, PTL DEF Spec
=============================================================================
