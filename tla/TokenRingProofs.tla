-------------------------- MODULE TokenRingProofs --------------------------
(***************************************************************************)
(* Theorems about TokenRing for any number of servers and any fault budget. *)
(* Those that need no early timers, or a budget without some fault, say so. *)
(***************************************************************************)
EXTENDS TokenRing, FiniteSetTheorems, TLAPS

(* The two links a server can have lead into the ring.                      *)
LEMMA LinksInRing ==
  ASSUME NEW i \in Servers
  PROVE  Succ(i) \in Servers /\ Skip(i) \in Servers
BY NAssumption DEF Servers, Succ, Skip

(* They are different: with at least two servers, skipping the successor    *)
(* always changes the link (possibly to the server itself, when N = 2).     *)
LEMMA SkipIsNotSucc ==
  ASSUME NEW i \in Servers
  PROVE  Succ(i) # Skip(i)
<1>1. CASE i + 2 < N
  BY <1>1, NAssumption DEF Servers, Succ, Skip
<1>2. CASE i + 2 = N
  BY <1>2, NAssumption DEF Servers, Succ, Skip
<1>3. CASE i + 1 = N
  BY <1>3, NAssumption DEF Servers, Succ, Skip
<1> QED BY <1>1, <1>2, <1>3, NAssumption DEF Servers

LEMMA SuccIsOther ==
  ASSUME NEW i \in Servers
  PROVE  Succ(i) # i
<1>1. CASE i + 1 < N
  BY <1>1, NAssumption DEF Servers, Succ
<1>2. CASE i + 1 = N
  BY <1>2, NAssumption DEF Servers, Succ
<1> QED BY <1>1, <1>2, NAssumption DEF Servers

----------------------------------------------------------------------------
(* What the helpers of TokenRing do to the types of the variables.          *)

LEMMA FaultsTyped ==
  ASSUME faults \in [FaultKinds -> Nat], NEW k \in FaultKinds, Occurs(k) \/ NoFault
  PROVE  faults' \in [FaultKinds -> Nat]
BY DEF Occurs, NoFault

LEMMA TimersTyped ==
  ASSUME TypeOK, NEW i \in Servers, NEW lead, ResetTimers(i, lead)
  PROVE  watchdog' \in [Servers -> Timer] /\ election' \in [Servers -> Timer]
BY DEF TypeOK, ResetTimers, Timer

LEMMA PostTyped ==
  ASSUME TypeOK, NEW i \in Servers, PostAnswered(i) \/ PostFails(i)
  PROVE  /\ faults' \in [FaultKinds -> Nat]
         /\ tokenChan' \in [Servers -> Slot]
         /\ currentToken' \in [Servers -> BOOLEAN]
<1>1. {"lost", "late"} \subseteq FaultKinds /\ faults \in [FaultKinds -> Nat]
  BY DEF FaultKinds, TypeOK
<1>2. faults' \in [FaultKinds -> Nat]
  BY <1>1, FaultsTyped DEF PostAnswered, PostFails
<1>3. tokenChan' \in [Servers -> Slot]
  BY DEF PostAnswered, PostFails, Enqueue, TypeOK, Slot
<1>4. currentToken' \in [Servers -> BOOLEAN]
  BY DEF PostAnswered, PostFails, TypeOK
<1> QED BY <1>2, <1>3, <1>4

LEMMA UnreachableTyped ==
  ASSUME TypeOK, NEW j, Unreachable(j)
  PROVE  faults' \in [FaultKinds -> Nat]
<1>1. "ping" \in FaultKinds
  BY DEF FaultKinds
<1> QED BY <1>1, FaultsTyped DEF TypeOK, Unreachable

LEMMA RegenerateTyped ==
  ASSUME TypeOK, NEW i \in Servers, Regenerate(i)
  PROVE  /\ faults' \in [FaultKinds -> Nat]
         /\ currentToken' \in [Servers -> BOOLEAN]
<1>1. "cards" \in FaultKinds
  BY DEF FaultKinds
<1>2. faults' \in [FaultKinds -> Nat]
  BY <1>1, FaultsTyped DEF TypeOK, Regenerate
<1>3. currentToken' \in [Servers -> BOOLEAN]
  BY DEF TypeOK, Regenerate
<1> QED BY <1>2, <1>3

LEMMA EndPassTyped ==
  ASSUME TypeOK, NEW i \in Servers, NEW w \in [Servers -> Timer], EndPass(i, w)
  PROVE  /\ pc' \in [Servers -> Points]
         /\ regenerated' \in [Servers -> BOOLEAN]
         /\ watchdog' \in [Servers -> Timer] /\ election' \in [Servers -> Timer]
         /\ scan' \in [Servers -> Servers] /\ failed' \in [Servers -> Servers]
<1>1. watchdog' \in [Servers -> Timer] /\ election' \in [Servers -> Timer]
  BY TimersTyped DEF EndPass, TypeOK
<1> QED BY <1>1 DEF EndPass, TypeOK, GoTo, Points

(* Every step of the ring keeps every variable in its type: the scan of an  *)
(* election stays inside ALL_SERVERS, a skipped link inside the ring.       *)
THEOREM TypeCorrect == Spec => []TypeOK
<1>1. Init => TypeOK
  BY NAssumption, LinksInRing DEF Init, TypeOK, Slot, Timer, Points, Servers
<1>2. TypeOK /\ [Next]_vars => TypeOK'
  <2> SUFFICES ASSUME TypeOK, [Next]_vars
               PROVE  TypeOK'
    OBVIOUS
  <2> USE DEF GoTo, links, tokens, control, timers
  <2>1. CASE UNCHANGED vars
    BY <2>1 DEF TypeOK, vars
  <2>2. ASSUME NEW i \in Servers, Step(i) \/ Crash(i) \/ Restart(i)
        PROVE  TypeOK'
    <3> Succ(i) \in Servers /\ Skip(i) \in Servers /\ 0 \in Servers
      BY LinksInRing, NAssumption DEF Servers
    <3> watchdog \in [Servers -> Timer] /\ faults \in [FaultKinds -> Nat]
      BY DEF TypeOK
    <3>1. CASE ReceiveToken(i)
      BY <3>1, TimersTyped DEF ReceiveToken, TypeOK, Slot, Points
    <3>2. CASE NothingToPass(i)
      BY <3>2, EndPassTyped DEF NothingToPass, TypeOK
    <3>3. CASE FirstPostAnswered(i)
      BY <3>3, PostTyped, EndPassTyped DEF FirstPostAnswered, TypeOK
    <3>4. CASE FirstPostFails(i)
      BY <3>4, PostTyped DEF FirstPostFails, TypeOK, Points
    <3>5. CASE HealthCheckAnswered(i)
      BY <3>5 DEF HealthCheckAnswered, TypeOK, Points
    <3>6. CASE HealthCheckFails(i)
      BY <3>6, UnreachableTyped DEF HealthCheckFails, TypeOK, Points
    <3>n. CASE NoteFailed(i)
      BY <3>n DEF NoteFailed, TypeOK, Points
    <3>7. CASE Retry(i)
      BY <3>7, PostTyped, EndPassTyped DEF Retry, TypeOK
    <3>8. CASE Relink(i)
      BY <3>8 DEF Relink, TypeOK, Points
    <3>9. CASE Repost(i)
      <4>1. Rearmed(i) \in [Servers -> Timer]
        BY DEF Rearmed, Timer
      <4>2. monitors' \in [Servers -> Nat]
        <5>1. monitors \in [Servers -> Nat] /\ StartMonitor(i)
          BY <3>9 DEF Repost, TypeOK
        <5> QED
          BY <5>1 DEF StartMonitor
      <4> QED
        BY <3>9, <4>1, <4>2, PostTyped, EndPassTyped DEF Repost, TypeOK
    <3>10. CASE SpuriousWatchdog(i)
      BY <3>10, TimersTyped DEF SpuriousWatchdog, TypeOK
    <3>11. CASE LeaderWatchdog(i)
      BY <3>11, RegenerateTyped DEF LeaderWatchdog, TypeOK, Points, Timer
    <3>12. CASE ElectionTimeout(i)
      BY <3>12 DEF ElectionTimeout, TypeOK, Points, Timer
    <3>13. CASE HigherAnswers(i)
      BY <3>13, TimersTyped DEF HigherAnswers, TypeOK, Points
    <3>14. CASE HigherSilent(i)
      <4>1. scan[i] + 1 \in Servers
        <5>1. scan[i] \in Servers /\ scan[i] < i
          BY <3>14 DEF HigherSilent, TypeOK
        <5> QED
          BY <5>1, NAssumption DEF Servers
      <4> QED
        BY <3>14, <4>1, UnreachableTyped DEF HigherSilent, TypeOK
    <3>15. CASE Promote(i)
      <4>1. inject' \in [Servers -> Slot] /\ isLeader' \in [Servers -> BOOLEAN]
        BY <3>15 DEF Promote, TypeOK, Slot
      <4> QED
        BY <3>15, <4>1, RegenerateTyped, TimersTyped DEF Promote, TypeOK, Points
    <3>16. CASE ExpireWatchdog(i)
      BY <3>16 DEF ExpireWatchdog, TypeOK, Timer
    <3>17. CASE ExpireElection(i)
      BY <3>17 DEF ExpireElection, TypeOK, Timer
    <3>18. CASE Inject(i)
      BY <3>18 DEF Inject, TypeOK, Slot
    <3>19. CASE MonitorRestores(i)
      BY <3>19 DEF MonitorRestores, TypeOK
    <3>20. CASE Crash(i)
      <4>1. faults' \in [FaultKinds -> Nat]
        BY <3>20, FaultsTyped DEF Crash, FaultKinds
      <4>2. (i = 0) \in BOOLEAN
        OBVIOUS
      <4>3. isLeader' \in [Servers -> BOOLEAN]
        BY <3>20, <4>2 DEF Crash, TypeOK
      <4>4. /\ up' \in [Servers -> BOOLEAN] /\ currentToken' \in [Servers -> BOOLEAN]
            /\ regenerated' \in [Servers -> BOOLEAN]
        BY <3>20 DEF Crash, TypeOK
      <4>5. /\ next' \in [Servers -> Servers] /\ monitors' \in [Servers -> Nat]
            /\ scan' \in [Servers -> Servers] /\ failed' \in [Servers -> Servers]
        BY <3>20 DEF Crash, TypeOK
      <4>6. /\ tokenChan' \in [Servers -> Slot] /\ inject' \in [Servers -> Slot]
            /\ pc' \in [Servers -> Points]
        BY <3>20 DEF Crash, TypeOK, Slot, Points
      <4> QED
        BY <3>20, <4>1, <4>3, <4>4, <4>5, <4>6, TimersTyped DEF Crash, TypeOK
    <3>21. CASE Restart(i)
      <4>1. faults' \in [FaultKinds -> Nat]
        BY <3>21, FaultsTyped DEF Restart, FaultKinds
      <4> QED
        BY <3>21, <4>1 DEF Restart, TypeOK
    <3> QED
      BY <2>2, <3>1, <3>2, <3>3, <3>4, <3>5, <3>6, <3>n, <3>7, <3>8, <3>9, <3>10, <3>11,
         <3>12, <3>13, <3>14, <3>15, <3>16, <3>17, <3>18, <3>19, <3>20, <3>21
         DEF Step, Run, Pass, TimerCase
  <2> QED
    BY <2>1, <2>2 DEF Next
<1> QED
  BY <1>1, <1>2, PTL DEF Spec

----------------------------------------------------------------------------
(* A step counts at most one fault and forgets none.                        *)
LEMMA FaultsOccur ==
  ASSUME [Next]_vars
  PROVE  \E f \in FaultKinds : Occurs(f) \/ NoFault
<1>1. CASE UNCHANGED vars
  BY <1>1 DEF vars, NoFault, FaultKinds
<1>2. ASSUME NEW i \in Servers, Step(i) \/ Crash(i) \/ Restart(i)
      PROVE  \E f \in FaultKinds : Occurs(f) \/ NoFault
  <2>1. CASE ReceiveToken(i)
    BY <2>1 DEF ReceiveToken, NoFault, FaultKinds
  <2>2. CASE NothingToPass(i)
    BY <2>2 DEF NothingToPass, NoFault, FaultKinds
  <2>3. CASE FirstPostAnswered(i)
    BY <2>3 DEF FirstPostAnswered, PostAnswered, PostFails, NoFault, FaultKinds
  <2>4. CASE FirstPostFails(i)
    BY <2>4 DEF FirstPostFails, PostAnswered, PostFails, NoFault, FaultKinds
  <2>5. CASE HealthCheckAnswered(i)
    BY <2>5 DEF HealthCheckAnswered, NoFault, FaultKinds
  <2>6. CASE HealthCheckFails(i)
    BY <2>6 DEF HealthCheckFails, Unreachable, NoFault, FaultKinds
  <2>n. CASE NoteFailed(i)
    BY <2>n DEF NoteFailed, NoFault, FaultKinds
  <2>7. CASE Retry(i)
    BY <2>7 DEF Retry, PostAnswered, PostFails, NoFault, FaultKinds
  <2>8. CASE Relink(i)
    BY <2>8 DEF Relink, NoFault, FaultKinds
  <2>9. CASE Repost(i)
    BY <2>9 DEF Repost, PostAnswered, PostFails, NoFault, FaultKinds
  <2>10. CASE SpuriousWatchdog(i)
    BY <2>10 DEF SpuriousWatchdog, NoFault, FaultKinds
  <2>11. CASE LeaderWatchdog(i)
    BY <2>11 DEF LeaderWatchdog, Regenerate, NoFault, FaultKinds
  <2>12. CASE ElectionTimeout(i)
    BY <2>12 DEF ElectionTimeout, NoFault, FaultKinds
  <2>13. CASE HigherAnswers(i)
    BY <2>13 DEF HigherAnswers, NoFault, FaultKinds
  <2>14. CASE HigherSilent(i)
    BY <2>14 DEF HigherSilent, Unreachable, NoFault, FaultKinds
  <2>15. CASE Promote(i)
    BY <2>15 DEF Promote, Regenerate, NoFault, FaultKinds
  <2>16. CASE ExpireWatchdog(i)
    BY <2>16 DEF ExpireWatchdog, NoFault, FaultKinds
  <2>17. CASE ExpireElection(i)
    BY <2>17 DEF ExpireElection, NoFault, FaultKinds
  <2>18. CASE Inject(i)
    BY <2>18 DEF Inject, NoFault, FaultKinds
  <2>19. CASE MonitorRestores(i)
    BY <2>19 DEF MonitorRestores, NoFault, FaultKinds
  <2>20. CASE Crash(i)
    BY <2>20 DEF Crash, NoFault, FaultKinds
  <2>21. CASE Restart(i)
    BY <2>21 DEF Restart, NoFault, FaultKinds
  <2> QED
    BY <1>2, <2>1, <2>2, <2>3, <2>4, <2>5, <2>6, <2>n, <2>7, <2>8, <2>9, <2>10, <2>11,
       <2>12, <2>13, <2>14, <2>15, <2>16, <2>17, <2>18, <2>19, <2>20, <2>21
       DEF Step, Run, Pass, TimerCase
<1> QED
  BY <1>1, <1>2 DEF Next

LEMMA FaultsGrow ==
  ASSUME TypeOK, [Next]_vars, NEW k \in FaultKinds
  PROVE  faults'[k] >= faults[k]
BY FaultsOccur DEF TypeOK, Occurs, NoFault

----------------------------------------------------------------------------
(* A step that starts no election, advances none, promotes nobody and       *)
(* starts or stops no process.                                              *)
ElectionIdle ==
  /\ UNCHANGED <<up, isLeader>>
  /\ \A j \in Servers : pc'[j] = "elect" => pc[j] = "elect" /\ scan'[j] = scan[j]

(* An election promotes only after it has found all servers of a higher     *)
(* priority down, and as long as pings are honest and nobody restarts, a     *)
(* server that is down stays down.                                           *)
LEMMA ElectionInvariant == Spec => [](LeaderIsLowestAlive /\ ScannedAreDown)
<1> DEFINE Inv == LeaderIsLowestAlive /\ ScannedAreDown
<1>1. Init => Inv
  <2> SUFFICES ASSUME Init PROVE Inv
    OBVIOUS
  <2>1. \A j \in Servers : (isLeader[j] => j = 0) /\ pc[j] # "elect"
    BY DEF Init
  <2>2. \A k \in Servers : ~(k < 0)
    BY NAssumption DEF Servers
  <2> QED
    BY <2>1, <2>2 DEF LeaderIsLowestAlive, ScannedAreDown
<1>2. TypeOK /\ Inv /\ [Next]_vars => Inv'
  <2> SUFFICES ASSUME TypeOK, Inv, [Next]_vars, Honest'
               PROVE  /\ \A j \in Servers : up'[j] /\ isLeader'[j] =>
                           \A k \in Servers : k < j => ~up'[k]
                      /\ \A j \in Servers : up'[j] /\ pc'[j] = "elect" =>
                           \A k \in Servers : k < scan'[j] => ~up'[k]
    BY DEF LeaderIsLowestAlive, ScannedAreDown
  <2>1. {"restart", "ping"} \subseteq FaultKinds
    BY DEF FaultKinds
  <2>2. Honest
    BY <2>1, FaultsGrow DEF Honest, TypeOK
  <2>3. /\ \A j \in Servers : up[j] /\ isLeader[j] =>
             \A k \in Servers : k < j => ~up[k]
        /\ \A j \in Servers : up[j] /\ pc[j] = "elect" =>
             \A k \in Servers : k < scan[j] => ~up[k]
    BY <2>2 DEF LeaderIsLowestAlive, ScannedAreDown
  <2>4. ~Occurs("restart") /\ ~Occurs("ping")
    BY <2>1, <2>2 DEF Occurs, Honest, TypeOK
  <2>5. CASE ElectionIdle
    BY <2>3, <2>5 DEF ElectionIdle
  <2>6. CASE UNCHANGED vars
    BY <2>5, <2>6 DEF vars, control, ElectionIdle
  <2>7. ASSUME NEW i \in Servers, Step(i) \/ Crash(i) \/ Restart(i)
        PROVE  \/ ElectionIdle
               \/ ElectionTimeout(i) \/ HigherSilent(i) \/ Promote(i)
               \/ Crash(i) \/ Restart(i)
    <3> USE DEF TypeOK, GoTo, control
    <3>1. CASE ReceiveToken(i)
      BY <3>1 DEF ReceiveToken, ElectionIdle
    <3>2. CASE NothingToPass(i)
      BY <3>2 DEF NothingToPass, EndPass, ElectionIdle
    <3>3. CASE FirstPostAnswered(i)
      BY <3>3 DEF FirstPostAnswered, EndPass, ElectionIdle
    <3>4. CASE FirstPostFails(i)
      BY <3>4 DEF FirstPostFails, ElectionIdle
    <3>5. CASE HealthCheckAnswered(i)
      BY <3>5 DEF HealthCheckAnswered, ElectionIdle
    <3>6. CASE HealthCheckFails(i)
      BY <3>6 DEF HealthCheckFails, ElectionIdle
    <3>n. CASE NoteFailed(i)
      BY <3>n DEF NoteFailed, ElectionIdle
    <3>7. CASE Retry(i)
      BY <3>7 DEF Retry, EndPass, ElectionIdle
    <3>8. CASE Relink(i)
      BY <3>8 DEF Relink, ElectionIdle
    <3>9. CASE Repost(i)
      BY <3>9 DEF Repost, EndPass, ElectionIdle
    <3>10. CASE SpuriousWatchdog(i)
      BY <3>10 DEF SpuriousWatchdog, ElectionIdle
    <3>11. CASE LeaderWatchdog(i)
      BY <3>11 DEF LeaderWatchdog, ElectionIdle
    <3>12. CASE HigherAnswers(i)
      BY <3>12 DEF HigherAnswers, ElectionIdle
    <3>13. CASE ExpireWatchdog(i)
      BY <3>13 DEF ExpireWatchdog, ElectionIdle
    <3>14. CASE ExpireElection(i)
      BY <3>14 DEF ExpireElection, ElectionIdle
    <3>15. CASE Inject(i)
      BY <3>15 DEF Inject, ElectionIdle
    <3>16. CASE MonitorRestores(i)
      BY <3>16 DEF MonitorRestores, ElectionIdle
    <3> QED
      BY <2>7, <3>1, <3>2, <3>3, <3>4, <3>5, <3>6, <3>n, <3>7, <3>8,
         <3>9, <3>10, <3>11, <3>12, <3>13, <3>14, <3>15, <3>16
         DEF Step, Run, Pass, TimerCase
  <2>8. ASSUME NEW i \in Servers, ElectionTimeout(i)
        PROVE  \A j \in Servers : j # i => pc'[j] = pc[j] /\ scan'[j] = scan[j]
    BY <2>8 DEF ElectionTimeout, GoTo, TypeOK
  <2>9. ASSUME NEW i \in Servers, ElectionTimeout(i)
        PROVE  UNCHANGED <<up, isLeader>> /\ scan'[i] = 0
    BY <2>9 DEF ElectionTimeout, TypeOK
  <2>10. ASSUME NEW i \in Servers, HigherSilent(i)
         PROVE  /\ UNCHANGED <<up, isLeader, pc>> /\ ~up[scan[i]]
                /\ pc[i] = "elect" /\ scan[i] \in Servers /\ scan'[i] = scan[i] + 1
                /\ \A j \in Servers : j # i => scan'[j] = scan[j]
    BY <2>4, <2>10 DEF HigherSilent, Unreachable, TypeOK
  <2>11. ASSUME NEW i \in Servers, Promote(i)
         PROVE  /\ UNCHANGED <<up, scan>> /\ pc[i] = "elect" /\ scan[i] = i
                /\ \A j \in Servers : pc'[j] = "elect" => pc[j] = "elect"
                /\ \A j \in Servers : j # i => isLeader'[j] = isLeader[j]
    BY <2>11 DEF Promote, GoTo, TypeOK
  <2>12. ASSUME NEW i \in Servers, Crash(i)
         PROVE  /\ ~up'[i]
                /\ \A j \in Servers : j # i =>
                     /\ up'[j] = up[j] /\ isLeader'[j] = isLeader[j]
                     /\ pc'[j] = pc[j] /\ scan'[j] = scan[j]
    BY <2>12 DEF Crash, GoTo, TypeOK
  <2>13. ASSUME NEW i \in Servers, ElectionTimeout(i)
         PROVE  \A j, k \in Servers : up'[j] /\ pc'[j] = "elect" /\ k < scan'[j] => ~up'[k]
    BY <2>3, <2>8, <2>9, <2>13 DEF Servers
  <2>14. ASSUME NEW i \in Servers, HigherSilent(i)
         PROVE  \A j, k \in Servers : up'[j] /\ pc'[j] = "elect" /\ k < scan'[j] => ~up'[k]
    <3>1. \A k \in Servers : k < scan[i] + 1 => k < scan[i] \/ k = scan[i]
      BY <2>10, <2>14 DEF Servers
    <3> QED
      BY <2>3, <2>10, <2>14, <3>1
  <2> QED
    BY <2>3, <2>4, <2>5, <2>6, <2>7, <2>9, <2>10, <2>11, <2>12, <2>13, <2>14
       DEF Next, Restart
<1> QED
  BY <1>1, <1>2, TypeCorrect, PTL DEF Spec

(* With honest pings and no restart, the servers of a higher priority than  *)
(* a live leader are down, for every number of servers and any timing.      *)
THEOREM LeaderElection == Spec => []LeaderIsLowestAlive
BY ElectionInvariant, PTL

----------------------------------------------------------------------------
(* The branch of Run for an election timeout on a leader is dead code: for  *)
(* every number of servers, a leader has no election timer running, no old  *)
(* tick of it to read and no election in progress.                           *)
THEOREM NoElectionOnLeader == Spec => []LeaderHasNoElection
<1>1. Init => LeaderHasNoElection
  <2>1. Init => /\ isLeader = [i \in Servers |-> i = 0]
                /\ pc = [i \in Servers |-> "select"]
                /\ election = [i \in Servers |-> IF i = 0 THEN "off" ELSE "armed"]
    BY Zenon DEF Init
  <2>2. QED  BY <2>1 DEF LeaderHasNoElection
<1>2. TypeOK /\ LeaderHasNoElection /\ [Next]_vars => LeaderHasNoElection'
  <2> SUFFICES ASSUME TypeOK, LeaderHasNoElection, [Next]_vars
               PROVE  LeaderHasNoElection'
    OBVIOUS
  <2>1. CASE UNCHANGED vars
    BY <2>1 DEF LeaderHasNoElection, vars, control, timers
  <2>2. ASSUME NEW i \in Servers, Step(i) \/ Crash(i) \/ Restart(i)
        PROVE  LeaderHasNoElection'
    <3> USE DEF LeaderHasNoElection, TypeOK, GoTo, control, timers
    <3>1. CASE ReceiveToken(i)
      BY <3>1 DEF ReceiveToken, ResetTimers
    <3>2. CASE NothingToPass(i)
      BY <3>2 DEF NothingToPass, EndPass, ResetTimers
    <3>3. CASE FirstPostAnswered(i)
      BY <3>3 DEF FirstPostAnswered, EndPass, ResetTimers
    <3>4. CASE FirstPostFails(i)
      BY <3>4 DEF FirstPostFails
    <3>5. CASE HealthCheckAnswered(i)
      BY <3>5 DEF HealthCheckAnswered
    <3>6. CASE HealthCheckFails(i)
      BY <3>6 DEF HealthCheckFails
    <3>n. CASE NoteFailed(i)
      BY <3>n DEF NoteFailed
    <3>7. CASE Retry(i)
      BY <3>7 DEF Retry, EndPass, ResetTimers
    <3>8. CASE Relink(i)
      BY <3>8 DEF Relink
    <3>9. CASE Repost(i)
      BY <3>9 DEF Repost, EndPass, ResetTimers
    <3>10. CASE SpuriousWatchdog(i)
      BY <3>10 DEF SpuriousWatchdog, ResetTimers
    <3>11. CASE LeaderWatchdog(i)
      BY <3>11 DEF LeaderWatchdog
    <3>12. CASE ElectionTimeout(i)
      BY <3>12 DEF ElectionTimeout
    <3>13. CASE HigherAnswers(i)
      BY <3>13 DEF HigherAnswers, ResetTimers
    <3>14. CASE HigherSilent(i)
      BY <3>14 DEF HigherSilent
    <3>15. CASE Promote(i)
      BY <3>15 DEF Promote, ResetTimers
    <3>16. CASE ExpireWatchdog(i)
      BY <3>16 DEF ExpireWatchdog
    <3>17. CASE ExpireElection(i)
      BY <3>17 DEF ExpireElection
    <3>18. CASE Inject(i)
      BY <3>18 DEF Inject
    <3>19. CASE MonitorRestores(i)
      BY <3>19 DEF MonitorRestores
    <3>20. CASE Crash(i)
      BY <3>20 DEF Crash, ResetTimers
    <3>21. CASE Restart(i)
      BY <3>21 DEF Restart
    <3> QED
      BY <2>2, <3>1, <3>2, <3>3, <3>4, <3>5, <3>6, <3>n, <3>7, <3>8, <3>9,
         <3>10, <3>11, <3>12, <3>13, <3>14, <3>15, <3>16, <3>17, <3>18, <3>19, <3>20, <3>21
         DEF Step, Run, Pass, TimerCase
  <2> QED
    BY <2>1, <2>2 DEF Next
<1> QED
  BY <1>1, <1>2, TypeCorrect, PTL DEF Spec

----------------------------------------------------------------------------
(* What holds during a skip: a server that found its original successor     *)
(* dead has no monitor yet, because the link would otherwise not have led   *)
(* there.                                                                    *)
LEMMA MonitorInvariant == Spec => [](OneMonitor /\ SkipInProgress)
<1> DEFINE Inv == OneMonitor /\ SkipInProgress
<1>1. Init => Inv
  BY DEF Init, OneMonitor, SkipInProgress
<1>2. TypeOK /\ Inv /\ [Next]_vars => Inv'
  <2> SUFFICES ASSUME TypeOK, Inv, [Next]_vars
               PROVE  Inv'
    OBVIOUS
  <2>1. CASE UNCHANGED vars
    BY <2>1 DEF OneMonitor, SkipInProgress, vars, links, control
  <2>2. ASSUME NEW i \in Servers, Step(i) \/ Crash(i) \/ Restart(i)
        PROVE  Inv'
    <3> Succ(i) # Skip(i)
      BY SkipIsNotSucc
    <3> USE DEF OneMonitor, SkipInProgress, TypeOK, GoTo, links, control
    <3>1. CASE ReceiveToken(i)
      BY <3>1 DEF ReceiveToken
    <3>2. CASE NothingToPass(i)
      BY <3>2 DEF NothingToPass, EndPass
    <3>3. CASE FirstPostAnswered(i)
      BY <3>3 DEF FirstPostAnswered, EndPass
    <3>4. CASE FirstPostFails(i)
      BY <3>4 DEF FirstPostFails
    <3>5. CASE HealthCheckAnswered(i)
      BY <3>5 DEF HealthCheckAnswered
    <3>6. CASE HealthCheckFails(i)
      BY <3>6 DEF HealthCheckFails
    <3>n. CASE NoteFailed(i)
      <4>1. /\ UNCHANGED <<next, monitors>>
            /\ failed'[i] = next[i] /\ pc'[i] = "relink"
            /\ \A j \in Servers : j # i => failed'[j] = failed[j] /\ pc'[j] = pc[j]
        BY <3>n DEF NoteFailed
      <4>2. next[i] = Succ(i) => monitors[i] = 0
        <5>1. monitors[i] \in Nat /\ monitors[i] <= 1
          OBVIOUS
        <5>2. monitors[i] = 1 => next[i] = Skip(i)
          OBVIOUS
        <5> HIDE DEF OneMonitor, SkipInProgress, TypeOK
        <5> QED
          BY <5>1, <5>2
      <4> QED
        BY <4>1, <4>2
    <3>7. CASE Retry(i)
      BY <3>7 DEF Retry, EndPass
    <3>8. CASE Relink(i)
      BY <3>8 DEF Relink
    <3>9. CASE Repost(i)
      BY <3>9 DEF Repost, EndPass, StartMonitor
    <3>10. CASE SpuriousWatchdog(i)
      BY <3>10 DEF SpuriousWatchdog
    <3>11. CASE LeaderWatchdog(i)
      BY <3>11 DEF LeaderWatchdog
    <3>12. CASE ElectionTimeout(i)
      BY <3>12 DEF ElectionTimeout
    <3>13. CASE HigherAnswers(i)
      BY <3>13 DEF HigherAnswers
    <3>14. CASE HigherSilent(i)
      BY <3>14 DEF HigherSilent
    <3>15. CASE Promote(i)
      BY <3>15 DEF Promote
    <3>16. CASE ExpireWatchdog(i)
      BY <3>16 DEF ExpireWatchdog
    <3>17. CASE ExpireElection(i)
      BY <3>17 DEF ExpireElection
    <3>18. CASE Inject(i)
      BY <3>18 DEF Inject
    <3>19. CASE MonitorRestores(i)
      BY <3>19 DEF MonitorRestores
    <3>20. CASE Crash(i)
      BY <3>20 DEF Crash
    <3>21. CASE Restart(i)
      BY <3>21 DEF Restart
    <3> QED
      BY <2>2, <3>1, <3>2, <3>3, <3>4, <3>5, <3>6, <3>n, <3>7, <3>8, <3>9,
         <3>10, <3>11, <3>12, <3>13, <3>14, <3>15, <3>16, <3>17, <3>18, <3>19, <3>20, <3>21
         DEF Step, Run, Pass, TimerCase
  <2> QED
    BY <2>1, <2>2 DEF Next
<1> QED
  BY <1>1, <1>2, TypeCorrect, PTL DEF Spec

(* For every number of servers, a server never runs two monitors, however   *)
(* often its successors die and return, and a monitored successor is out of *)
(* its ring link.                                                            *)
THEOREM MonitorsDoNotPileUp == Spec => []OneMonitor
BY MonitorInvariant, PTL
----------------------------------------------------------------------------
(* A step of the loop, the timers, the injection or the monitor of a server *)
(* changes no other server, except that it may put a token into the channel *)
(* of one that is up.                                                        *)
LEMMA StepIsLocal ==
  ASSUME TypeOK, NEW i \in Servers, Step(i)
  PROVE  /\ up[i] /\ up' = up
         /\ \A j \in Servers : j # i =>
              /\ isLeader'[j] = isLeader[j] /\ next'[j] = next[j] /\ monitors'[j] = monitors[j]
              /\ currentToken'[j] = currentToken[j] /\ inject'[j] = inject[j]
              /\ pc'[j] = pc[j] /\ scan'[j] = scan[j] /\ failed'[j] = failed[j]
              /\ watchdog'[j] = watchdog[j] /\ election'[j] = election[j]
              /\ tokenChan'[j] = tokenChan[j] \/ up[j]
<1> USE DEF TypeOK, GoTo, links, tokens, control, timers
<1>1. ASSUME NEW w \in [Servers -> Timer], EndPass(i, w)
      PROVE  \A j \in Servers : j # i =>
               /\ pc'[j] = pc[j] /\ scan'[j] = scan[j] /\ failed'[j] = failed[j]
               /\ watchdog'[j] \in {watchdog[j], w[j]} /\ election'[j] = election[j]
  BY <1>1 DEF EndPass, ResetTimers
<1>2. ASSUME PostAnswered(i) \/ PostFails(i)
      PROVE  \A j \in Servers : j # i => /\ currentToken'[j] = currentToken[j]
                                         /\ tokenChan'[j] = tokenChan[j] \/ up[j]
  BY <1>2 DEF PostAnswered, PostFails, Enqueue
<1>3. CASE ReceiveToken(i)
  BY <1>3 DEF ReceiveToken, ResetTimers
<1>4. CASE NothingToPass(i)
  BY <1>1, <1>4 DEF NothingToPass
<1>5. CASE FirstPostAnswered(i)
  BY <1>1, <1>2, <1>5 DEF FirstPostAnswered
<1>6. CASE FirstPostFails(i)
  BY <1>2, <1>6 DEF FirstPostFails
<1>7. CASE HealthCheckAnswered(i)
  BY <1>7 DEF HealthCheckAnswered
<1>8. CASE HealthCheckFails(i)
  BY <1>8 DEF HealthCheckFails
<1>n. CASE NoteFailed(i)
  BY <1>n DEF NoteFailed
<1>9. CASE Retry(i)
  BY <1>1, <1>2, <1>9 DEF Retry
<1>10. CASE Relink(i)
  BY <1>10 DEF Relink
<1>11. CASE Repost(i)
  <2>1. /\ Rearmed(i) \in [Servers -> Timer]
        /\ \A j \in Servers : j # i => Rearmed(i)[j] = watchdog[j]
    BY DEF Rearmed, Timer
  <2>2. \A j \in Servers : j # i => monitors'[j] = monitors[j]
    BY <1>11 DEF Repost, StartMonitor
  <2> QED
    BY <1>1, <1>2, <1>11, <2>1, <2>2 DEF Repost
<1>12. CASE SpuriousWatchdog(i)
  BY <1>12 DEF SpuriousWatchdog, ResetTimers
<1>13. CASE LeaderWatchdog(i)
  BY <1>13 DEF LeaderWatchdog, Regenerate
<1>14. CASE ElectionTimeout(i)
  BY <1>14 DEF ElectionTimeout
<1>15. CASE HigherAnswers(i)
  BY <1>15 DEF HigherAnswers, ResetTimers
<1>16. CASE HigherSilent(i)
  BY <1>16 DEF HigherSilent
<1>17. CASE Promote(i)
  BY <1>17 DEF Promote, ResetTimers, Regenerate
<1>18. CASE ExpireWatchdog(i)
  BY <1>18 DEF ExpireWatchdog
<1>19. CASE ExpireElection(i)
  BY <1>19 DEF ExpireElection
<1>20. CASE Inject(i)
  BY <1>20 DEF Inject
<1>21. CASE MonitorRestores(i)
  BY <1>21 DEF MonitorRestores
<1> QED
  BY <1>3, <1>4, <1>5, <1>6, <1>7, <1>8, <1>n, <1>9, <1>10, <1>11, <1>12, <1>13, <1>14,
     <1>15, <1>16, <1>17, <1>18, <1>19, <1>20, <1>21 DEF Step, Run, Pass, TimerCase

(* So does the stop of a server, which resets it, and a start changes only   *)
(* that it is up.                                                            *)
LEMMA CrashIsLocal ==
  ASSUME TypeOK, NEW i \in Servers, Crash(i)
  PROVE  /\ up[i] /\ up' = [up EXCEPT ![i] = FALSE]
         /\ isLeader'[i] = (i = 0) /\ next'[i] = Succ(i) /\ monitors'[i] = 0
         /\ tokenChan'[i] = "empty" /\ ~currentToken'[i] /\ inject'[i] = "empty"
         /\ pc'[i] = "select" /\ watchdog'[i] # "fired" /\ election'[i] # "fired"
         /\ \A j \in Servers : j # i =>
              /\ isLeader'[j] = isLeader[j] /\ next'[j] = next[j] /\ monitors'[j] = monitors[j]
              /\ tokenChan'[j] = tokenChan[j] /\ currentToken'[j] = currentToken[j]
              /\ inject'[j] = inject[j] /\ pc'[j] = pc[j] /\ failed'[j] = failed[j]
              /\ watchdog'[j] = watchdog[j] /\ election'[j] = election[j]
BY DEF Crash, TypeOK, GoTo, ResetTimers

LEMMA ResetWhileDown ==
  ASSUME TypeOK, DownIsReset, [Next]_vars
  PROVE  DownIsReset'
<1>1. CASE UNCHANGED vars
  BY <1>1 DEF DownIsReset, vars, links, tokens, control, timers
<1>2. ASSUME NEW i \in Servers, Step(i)
      PROVE  DownIsReset'
  BY <1>2, StepIsLocal DEF DownIsReset
<1>3. ASSUME NEW i \in Servers, Crash(i)
      PROVE  DownIsReset'
  BY <1>3, CrashIsLocal DEF DownIsReset, TypeOK
<1>4. ASSUME NEW i \in Servers, Restart(i)
      PROVE  DownIsReset'
  BY <1>4 DEF Restart, DownIsReset, links, tokens, control, timers, TypeOK
<1> QED
  BY <1>1, <1>2, <1>3, <1>4 DEF Next

LEMMA TokenWhilePosting ==
  ASSUME TypeOK, PostsItsToken, [Next]_vars
  PROVE  PostsItsToken'
<1> USE DEF PostsItsToken, TypeOK, GoTo, links, tokens, control, timers
<1>1. CASE UNCHANGED vars
  BY <1>1 DEF vars
<1>2. ASSUME NEW i \in Servers, Step(i),
             pc'[i] \in {"health", "retry", "dead", "relink", "repost"} => currentToken'[i]
      PROVE  PostsItsToken'
  BY <1>2, StepIsLocal
<1>3. ASSUME NEW i \in Servers, Step(i)
      PROVE  pc'[i] \in {"health", "retry", "dead", "relink", "repost"} => currentToken'[i]
  <2>1. CASE ReceiveToken(i)
    BY <2>1 DEF ReceiveToken
  <2>2. CASE NothingToPass(i)
    BY <2>2 DEF NothingToPass, EndPass
  <2>3. CASE FirstPostAnswered(i)
    BY <2>3 DEF FirstPostAnswered, EndPass
  <2>4. CASE FirstPostFails(i)
    BY <2>4 DEF FirstPostFails, PostFails
  <2>5. CASE HealthCheckAnswered(i)
    BY <2>5 DEF HealthCheckAnswered
  <2>6. CASE HealthCheckFails(i)
    BY <2>6 DEF HealthCheckFails
  <2>n. CASE NoteFailed(i)
    BY <2>n DEF NoteFailed
  <2>7. CASE Retry(i)
    BY <2>7 DEF Retry, EndPass
  <2>8. CASE Relink(i)
    BY <2>8 DEF Relink
  <2>9. CASE Repost(i)
    BY <2>9 DEF Repost, EndPass
  <2>10. CASE SpuriousWatchdog(i)
    BY <2>10 DEF SpuriousWatchdog
  <2>11. CASE LeaderWatchdog(i)
    BY <2>11 DEF LeaderWatchdog
  <2>12. CASE ElectionTimeout(i)
    BY <2>12 DEF ElectionTimeout
  <2>13. CASE HigherAnswers(i)
    BY <2>13 DEF HigherAnswers
  <2>14. CASE HigherSilent(i)
    BY <2>14 DEF HigherSilent
  <2>15. CASE Promote(i)
    BY <2>15 DEF Promote
  <2>16. CASE ExpireWatchdog(i)
    BY <2>16 DEF ExpireWatchdog
  <2>17. CASE ExpireElection(i)
    BY <2>17 DEF ExpireElection
  <2>18. CASE Inject(i)
    BY <2>18 DEF Inject
  <2>19. CASE MonitorRestores(i)
    BY <2>19 DEF MonitorRestores
  <2> QED
    BY <1>3, <2>1, <2>2, <2>3, <2>4, <2>5, <2>6, <2>n, <2>7, <2>8, <2>9, <2>10, <2>11, <2>12,
       <2>13, <2>14, <2>15, <2>16, <2>17, <2>18, <2>19 DEF Step, Run, Pass, TimerCase
<1>4. ASSUME NEW i \in Servers, Crash(i)
      PROVE  PostsItsToken'
  BY <1>4, CrashIsLocal
<1>5. ASSUME NEW i \in Servers, Restart(i)
      PROVE  PostsItsToken'
  BY <1>5 DEF Restart
<1> QED
  BY <1>1, <1>2, <1>3, <1>4, <1>5 DEF Next

----------------------------------------------------------------------------
(* As long as the faults are honest, a server that is down stays down, and  *)
(* a server whose ping gets no answer is down.                               *)
LEMMA HonestStep ==
  ASSUME TypeOK, [Next]_vars, Honest'
  PROVE  /\ Honest
         /\ \A i \in Servers : up'[i] => up[i]
         /\ \A i \in Servers : ~Restart(i)
         /\ \A j \in Servers : Unreachable(j) => ~up[j]
<1>1. {"restart", "ping"} \subseteq FaultKinds
  BY DEF FaultKinds
<1>2. Honest
  BY <1>1, FaultsGrow DEF Honest, TypeOK
<1>3. ~Occurs("restart") /\ ~Occurs("ping")
  BY <1>1, <1>2 DEF Occurs, Honest, TypeOK
<1>4. \A i \in Servers : ~Restart(i)
  BY <1>3 DEF Restart
<1>5. \A i \in Servers : up'[i] => up[i]
  <2>1. ASSUME NEW i \in Servers, Crash(i)
        PROVE  \A j \in Servers : up'[j] => up[j]
    BY <2>1, CrashIsLocal DEF TypeOK
  <2> QED
    BY <1>4, <2>1, StepIsLocal DEF Next, vars
<1> QED
  BY <1>2, <1>3, <1>4, <1>5 DEF Unreachable

(* What a step of a server does to its link, its monitors and the server it  *)
(* has found dead.                                                           *)
LEMMA LinkStep ==
  ASSUME TypeOK, NEW i \in Servers, Step(i)
  PROVE  \/ /\ UNCHANGED <<next, monitors, failed>>
            /\ pc'[i] \in {"dead", "relink", "repost"} => pc'[i] = pc[i]
            /\ pc[i] = "repost" => pc'[i] = "repost"
         \/ HealthCheckFails(i) \/ NoteFailed(i) \/ Relink(i) \/ Repost(i) \/ MonitorRestores(i)
<1> USE DEF TypeOK, GoTo, links, tokens, control, timers
<1>1. CASE ReceiveToken(i)
  BY <1>1 DEF ReceiveToken
<1>2. CASE NothingToPass(i)
  BY <1>2 DEF NothingToPass, EndPass
<1>3. CASE FirstPostAnswered(i)
  BY <1>3 DEF FirstPostAnswered, EndPass
<1>4. CASE FirstPostFails(i)
  BY <1>4 DEF FirstPostFails
<1>5. CASE HealthCheckAnswered(i)
  BY <1>5 DEF HealthCheckAnswered
<1>6. CASE Retry(i)
  BY <1>6 DEF Retry, EndPass
<1>7. CASE SpuriousWatchdog(i)
  BY <1>7 DEF SpuriousWatchdog
<1>8. CASE LeaderWatchdog(i)
  BY <1>8 DEF LeaderWatchdog
<1>9. CASE ElectionTimeout(i)
  BY <1>9 DEF ElectionTimeout
<1>10. CASE HigherAnswers(i)
  BY <1>10 DEF HigherAnswers
<1>11. CASE HigherSilent(i)
  BY <1>11 DEF HigherSilent
<1>12. CASE Promote(i)
  BY <1>12 DEF Promote
<1>13. CASE ExpireWatchdog(i)
  BY <1>13 DEF ExpireWatchdog
<1>14. CASE ExpireElection(i)
  BY <1>14 DEF ExpireElection
<1>15. CASE Inject(i)
  BY <1>15 DEF Inject
<1> QED
  BY <1>1, <1>2, <1>3, <1>4, <1>5, <1>6, <1>7, <1>8, <1>9, <1>10, <1>11, <1>12,
     <1>13, <1>14, <1>15 DEF Step, Run, Pass, TimerCase

LEMMA BypassOnlyTheDead ==
  ASSUME TypeOK, Honest => BypassedIsDown, [Next]_vars, Honest'
  PROVE  BypassedIsDown'
<1>1. BypassedIsDown /\ \A i \in Servers : up'[i] => up[i]
  BY HonestStep
<1>2. \A i \in Servers : Succ(i) \in Servers /\ Skip(i) \in Servers
  BY LinksInRing
<1>3. CASE UNCHANGED <<next, failed, pc>>
  BY <1>1, <1>2, <1>3 DEF BypassedIsDown, TypeOK
<1>4. CASE UNCHANGED vars
  BY <1>3, <1>4 DEF vars, links, control
<1>5. ASSUME NEW i \in Servers, Step(i)
      PROVE  BypassedIsDown'
  <2>1. SUFFICES /\ next'[i] # Succ(i) => next'[i] = Skip(i) /\ ~up[Succ(i)]
                 /\ pc'[i] \in {"dead", "relink"} => ~up[Succ(i)]
                 /\ pc'[i] = "relink" /\ failed'[i] # Succ(i) => next'[i] # Succ(i)
    BY <1>1, <1>2, <1>5, StepIsLocal DEF BypassedIsDown, TypeOK
  <2>2. /\ next[i] # Succ(i) => next[i] = Skip(i) /\ ~up[Succ(i)]
        /\ pc[i] \in {"dead", "relink"} => ~up[Succ(i)]
        /\ pc[i] = "relink" /\ failed[i] # Succ(i) => next[i] # Succ(i)
    BY <1>1 DEF BypassedIsDown
  <2>3. CASE HealthCheckFails(i)
    <3>1. next[i] \in Servers /\ ~up[next[i]]
      BY <2>3, HonestStep DEF HealthCheckFails, TypeOK
    <3> QED
      BY <2>2, <2>3, <3>1 DEF HealthCheckFails, GoTo, links, TypeOK
  <2>n. CASE NoteFailed(i)
    BY <2>2, <2>n DEF NoteFailed, GoTo, links, TypeOK
  <2>4. CASE Relink(i)
    BY <1>2, <2>2, <2>4 DEF Relink, GoTo, TypeOK
  <2>5. CASE Repost(i)
    BY <2>2, <2>5 DEF Repost, EndPass, GoTo, TypeOK
  <2>6. CASE MonitorRestores(i)
    BY <1>2, <2>2, <2>6 DEF MonitorRestores, control, TypeOK
  <2>7. CASE /\ UNCHANGED <<next, monitors, failed>>
             /\ pc'[i] \in {"dead", "relink", "repost"} => pc'[i] = pc[i]
    BY <2>2, <2>7
  <2> QED
    BY <1>5, <2>3, <2>n, <2>4, <2>5, <2>6, <2>7, LinkStep
<1>6. ASSUME NEW i \in Servers, Crash(i)
      PROVE  BypassedIsDown'
  BY <1>1, <1>2, <1>6, CrashIsLocal DEF BypassedIsDown, TypeOK
<1> QED
  BY <1>4, <1>5, <1>6, HonestStep DEF Next

(* What the three above say together holds for every fault budget and timing. *)
LEMMA LinkInvariant == Spec => [](DownIsReset /\ PostsItsToken /\ (Honest => BypassedIsDown))
<1> DEFINE Inv == DownIsReset /\ PostsItsToken /\ (Honest => BypassedIsDown)
<1>1. Init => Inv
  BY DEF Init, DownIsReset, PostsItsToken, BypassedIsDown
<1>2. TypeOK /\ Inv /\ [Next]_vars => Inv'
  BY ResetWhileDown, TokenWhilePosting, BypassOnlyTheDead
<1> QED
  BY <1>1, <1>2, TypeCorrect, PTL DEF Spec

(* The claim of the comment above the write of a monitor holds for every    *)
(* number of servers until a server comes back or a ping is lost: a server  *)
(* that is skipped is about to be monitored or is.  If the replacement of a *)
(* skipped node fails too, the monitor of the first skip is still there,     *)
(* since its node is down.                                                   *)
THEOREM SkippedAreMonitored == Spec => []SkippedIsMonitoredAtFirst
<1> DEFINE Inv == TypeOK /\ OneMonitor /\ SkipInProgress /\ (Honest => BypassedIsDown)
<1>1. Init => SkippedIsMonitoredAtFirst
  BY DEF Init, SkippedIsMonitoredAtFirst, SkippedIsMonitored
<1>2. Inv /\ SkippedIsMonitoredAtFirst /\ [Next]_vars => SkippedIsMonitoredAtFirst'
  <2> SUFFICES ASSUME Inv, SkippedIsMonitoredAtFirst, [Next]_vars, Honest'
               PROVE  SkippedIsMonitored'
    BY DEF SkippedIsMonitoredAtFirst
  <2>1. SkippedIsMonitored /\ BypassedIsDown
    BY HonestStep DEF SkippedIsMonitoredAtFirst
  <2>2. CASE UNCHANGED vars
    BY <2>1, <2>2 DEF SkippedIsMonitored, vars, links, control
  <2>3. ASSUME NEW i \in Servers, Step(i)
        PROVE  SkippedIsMonitored'
    <3>1. SUFFICES next'[i] # Succ(i) =>
                     monitors'[i] = 1 \/ (pc'[i] = "repost" /\ failed'[i] = Succ(i))
      BY <2>1, <2>3, StepIsLocal DEF SkippedIsMonitored
    <3>2. next[i] # Succ(i) => monitors[i] = 1 \/ (pc[i] = "repost" /\ failed[i] = Succ(i))
      BY <2>1 DEF SkippedIsMonitored
    <3>3. Succ(i) # Skip(i)
      BY SkipIsNotSucc
    <3>4. CASE HealthCheckFails(i)
      BY <3>2, <3>4 DEF HealthCheckFails, links
    <3>n. CASE NoteFailed(i)
      BY <3>2, <3>n DEF NoteFailed, links
    <3>5. CASE Relink(i)
      BY <2>1, <3>2, <3>5 DEF Relink, BypassedIsDown, GoTo, TypeOK
    <3>6. CASE Repost(i)
      <4>1. next' = next /\ StartMonitor(i) /\ pc[i] = "repost"
        BY <3>6 DEF Repost
      <4>2. CASE failed[i] = Succ(i)
        <5>1. monitors[i] = 0
          BY <4>1, <4>2 DEF SkipInProgress
        <5> QED
          BY <4>1, <4>2, <5>1 DEF StartMonitor, TypeOK
      <4> QED
        BY <3>2, <4>1, <4>2 DEF StartMonitor
    <3>7. CASE MonitorRestores(i)
      BY <3>7 DEF MonitorRestores, TypeOK
    <3>8. CASE /\ UNCHANGED <<next, monitors, failed>>
               /\ pc[i] = "repost" => pc'[i] = "repost"
      BY <3>2, <3>8
    <3> QED
      BY <2>3, <3>4, <3>n, <3>5, <3>6, <3>7, <3>8, LinkStep
  <2>4. ASSUME NEW i \in Servers, Crash(i)
        PROVE  SkippedIsMonitored'
    BY <2>1, <2>4, CrashIsLocal DEF SkippedIsMonitored
  <2> QED
    BY <2>2, <2>3, <2>4, HonestStep DEF Next
<1> QED
  BY <1>1, <1>2, TypeCorrect, MonitorInvariant, LinkInvariant, PTL DEF Spec

----------------------------------------------------------------------------
(* Where tokens are.                                                        *)

InLoop(i) == currentToken[i] /\ pc[i] \notin {"select", "elect"}

LEMMA TokensAre ==
  /\ \A t : t \in Tokens <=> \E i \in Servers : \/ t = <<"loop", i>> /\ InLoop(i)
                                                \/ t = <<"chan", i>> /\ tokenChan[i] = "token"
                                                \/ t = <<"inject", i>> /\ inject[i] = "token"
  /\ \A t : t \in Tokens' <=> \E i \in Servers : \/ t = <<"loop", i>> /\ InLoop(i)'
                                                 \/ t = <<"chan", i>> /\ tokenChan'[i] = "token"
                                                 \/ t = <<"inject", i>> /\ inject'[i] = "token"
BY DEF Tokens, InLoop

(* The second component of a token is the server that has it.               *)
LEMMA HoldersAre ==
  /\ \A i : i \in Holders <=>
              i \in Servers /\ (InLoop(i) \/ tokenChan[i] = "token" \/ inject[i] = "token")
  /\ \A i : i \in Holders <=> \E t \in Tokens : i = t[2]
  /\ \A i : i \in Holders' <=> \E t \in Tokens' : i = t[2]
<1>1. /\ \A i : i \in Holders <=> \E t \in Tokens : i = t[2]
      /\ \A i : i \in Holders' <=> \E t \in Tokens' : i = t[2]
  BY DEF Holders
<1>2. ASSUME NEW i, NEW t \in Tokens, i = t[2]
      PROVE  i \in Servers /\ (InLoop(i) \/ tokenChan[i] = "token" \/ inject[i] = "token")
  <2>1. PICK j \in Servers : \/ t = <<"loop", j>> /\ InLoop(j)
                             \/ t = <<"chan", j>> /\ tokenChan[j] = "token"
                             \/ t = <<"inject", j>> /\ inject[j] = "token"
    BY TokensAre
  <2>2. i = j
    BY <1>2, <2>1
  <2> QED
    BY <2>1, <2>2
<1>3. ASSUME NEW i \in Servers, InLoop(i) \/ tokenChan[i] = "token" \/ inject[i] = "token"
      PROVE  \E t \in Tokens : i = t[2]
  <2>1. CASE InLoop(i)
    <3>1. <<"loop", i>> \in Tokens /\ <<"loop", i>>[2] = i
      BY <2>1, TokensAre
    <3> QED
      BY <3>1
  <2>2. CASE tokenChan[i] = "token"
    <3>1. <<"chan", i>> \in Tokens /\ <<"chan", i>>[2] = i
      BY <2>2, TokensAre
    <3> QED
      BY <3>1
  <2>3. CASE inject[i] = "token"
    <3>1. <<"inject", i>> \in Tokens /\ <<"inject", i>>[2] = i
      BY <2>3, TokensAre
    <3> QED
      BY <3>1
  <2> QED
    BY <1>3, <2>1, <2>2, <2>3
<1> QED
  BY <1>1, <1>2, <1>3

(* A step keeps the tokens if it keeps the three places of every server.    *)
LEMMA SameTokens ==
  ASSUME \A i \in Servers : /\ InLoop(i)' <=> InLoop(i)
                            /\ tokenChan'[i] = "token" <=> tokenChan[i] = "token"
                            /\ inject'[i] = "token" <=> inject[i] = "token"
  PROVE  Tokens' = Tokens
<1>1. \A t : t \in Tokens' <=> t \in Tokens
  BY TokensAre, Zenon
<1> QED
  BY <1>1

(* A POST that is answered moves the token of the sender to the channel of  *)
(* the receiver, or drops it there if the channel holds a nil token.        *)
LEMMA AnsweredPost ==
  ASSUME TypeOK, NEW i \in Servers, InLoop(i), PostAnswered(i), pc' = [pc EXCEPT ![i] = "select"],
         inject' = inject
  PROVE  /\ <<"loop", i>> \in Tokens
         /\ \/ Tokens' = (Tokens \ {<<"loop", i>>}) \cup {<<"chan", next[i]>>}
            \/ tokenChan[next[i]] = "nil" /\ Tokens' = Tokens \ {<<"loop", i>>}
<1> DEFINE n == next[i]
<1>1. n \in Servers
  BY DEF TypeOK
<1>2. <<"loop", i>> \in Tokens
  BY TokensAre
<1>3. \A j \in Servers : /\ InLoop(j)' <=> InLoop(j) /\ j # i
                         /\ j # n => tokenChan'[j] = tokenChan[j]
  BY DEF PostAnswered, Enqueue, TypeOK, InLoop
<1>4. CASE tokenChan[n] \in {"empty", "token"}
  <2>1. tokenChan'[n] = "token"
    BY <1>1, <1>4 DEF PostAnswered, Enqueue, TypeOK
  <2>2. \A t : t \in Tokens' <=> t \in (Tokens \ {<<"loop", i>>}) \cup {<<"chan", n>>}
    BY <1>1, <1>3, <2>1, TokensAre
  <2> QED
    BY <1>2, <2>2
<1>5. CASE tokenChan[n] = "nil"
  <2>1. tokenChan'[n] = "nil"
    BY <1>1, <1>5 DEF PostAnswered, Enqueue, TypeOK
  <2>2. \A t : t \in Tokens' <=> t \in Tokens \ {<<"loop", i>>}
    BY <1>1, <1>3, <1>5, <2>1, TokensAre
  <2> QED
    BY <1>2, <1>5, <2>2
<1> QED
  BY <1>1, <1>4, <1>5 DEF TypeOK, Slot

(* A POST that fails moves nothing, unless its answer is only late.         *)
LEMMA FailedPost ==
  ASSUME TypeOK, NEW i \in Servers, PostFails(i), faults'["late"] = faults["late"]
  PROVE  UNCHANGED <<tokenChan, currentToken>>
<1>1. ~Occurs("late")
  BY DEF Occurs, TypeOK, FaultKinds
<1> QED
  BY <1>1 DEF PostFails

(* The last POST of a pass: the token goes on, or stays where nobody uses it. *)
LEMMA LastPost ==
  ASSUME TypeOK, NEW i \in Servers, InLoop(i), PostAnswered(i) \/ PostFails(i),
         pc' = [pc EXCEPT ![i] = "select"], inject' = inject,
         faults'["late"] = faults["late"]
  PROVE  /\ <<"loop", i>> \in Tokens
         /\ \/ /\ up[next[i]]
               /\ Tokens' = (Tokens \ {<<"loop", i>>}) \cup {<<"chan", next[i]>>}
            \/ tokenChan[next[i]] = "nil" /\ Tokens' = Tokens \ {<<"loop", i>>}
            \/ currentToken'[i] /\ Tokens' = Tokens \ {<<"loop", i>>}
<1>1. CASE PostAnswered(i)
  BY <1>1, AnsweredPost DEF PostAnswered
<1>2. CASE PostFails(i)
  <2>1. UNCHANGED <<tokenChan, currentToken>>
    BY <1>2, FailedPost
  <2>2. <<"loop", i>> \in Tokens
    BY TokensAre
  <2>3. \A j \in Servers : InLoop(j)' <=> InLoop(j) /\ j # i
    BY <2>1 DEF InLoop, TypeOK
  <2>4. \A t : t \in Tokens' <=> t \in Tokens \ {<<"loop", i>>}
    BY <2>1, <2>3, TokensAre
  <2> QED
    BY <2>1, <2>2, <2>4 DEF InLoop
<1> QED
  BY <1>1, <1>2

----------------------------------------------------------------------------
(* What the tokens of the ring become in a step of server i that answers no *)
(* POST too late: they stay, one changes its place at i, goes from i to the  *)
(* next server, is dropped there or retained at i, or i makes one.           *)
Moves(i) ==
  \E s \in Tokens : \E t :
    s[2] = i /\ t[2] = i /\ Tokens' = (Tokens \ {s}) \cup {t}

GoesOn(i) ==
  /\ <<"loop", i>> \in Tokens /\ up[next[i]]
  /\ Tokens' = (Tokens \ {<<"loop", i>>}) \cup {<<"chan", next[i]>>}

IsDropped(i) ==
  /\ <<"loop", i>> \in Tokens /\ tokenChan[next[i]] = "nil"
  /\ Tokens' = Tokens \ {<<"loop", i>>}

IsRetained(i) ==
  /\ <<"loop", i>> \in Tokens /\ pc[i] \in {"retry", "repost"} /\ currentToken'[i]
  /\ Tokens' = Tokens \ {<<"loop", i>>}

IsMade(i) ==
  \/ /\ LeaderWatchdog(i)
     /\ Tokens' \in {Tokens, Tokens \cup {<<"loop", i>>}}
  \/ /\ Promote(i)
     /\ Tokens' \in {Tokens \ {<<"inject", i>>}, Tokens \cup {<<"inject", i>>}}
     /\ NoFault => <<"inject", i>> \in Tokens'

LEMMA TokenStep ==
  ASSUME TypeOK, PostsItsToken, NEW i \in Servers, Step(i), faults'["late"] = faults["late"]
  PROVE  \/ Tokens' = Tokens
         \/ Moves(i) \/ GoesOn(i) \/ IsDropped(i) \/ IsRetained(i) \/ IsMade(i)
<1> USE DEF TypeOK, GoTo, links, tokens, control, timers
<1>1. CASE ReceiveToken(i)
  <2>1. /\ tokenChan' = [tokenChan EXCEPT ![i] = "empty"] /\ inject' = inject
        /\ currentToken' = [currentToken EXCEPT ![i] = tokenChan[i] = "token"]
        /\ pc' = [pc EXCEPT ![i] = "holding"] /\ pc[i] = "select"
    BY <1>1 DEF ReceiveToken
  <2>2. /\ ~InLoop(i) /\ (InLoop(i)' <=> tokenChan[i] = "token")
        /\ \A j \in Servers : j # i => /\ InLoop(j)' <=> InLoop(j)
                                       /\ tokenChan'[j] = tokenChan[j]
    BY <2>1 DEF InLoop
  <2>3. CASE tokenChan[i] = "token"
    <3>1. <<"chan", i>> \in Tokens
      BY <2>3, TokensAre
    <3>2. \A t : t \in Tokens' <=> t \in (Tokens \ {<<"chan", i>>}) \cup {<<"loop", i>>}
      <4> HIDE DEF TypeOK
      <4>1. tokenChan'[i] = "empty"
        BY <2>1 DEF TypeOK
      <4> QED
        BY <2>1, <2>2, <2>3, <4>1, TokensAre
    <3> QED
      BY <3>1, <3>2 DEF Moves
  <2>4. CASE tokenChan[i] # "token"
    BY <2>1, <2>2, <2>4, SameTokens
  <2> QED
    BY <2>3, <2>4
<1>2. CASE NothingToPass(i)
  <2>1. ~InLoop(i) /\ ~InLoop(i)' /\ \A j \in Servers : j # i => (InLoop(j)' <=> InLoop(j))
    BY <1>2 DEF NothingToPass, EndPass, InLoop
  <2> QED
    BY <1>2, <2>1, SameTokens DEF NothingToPass
<1>3. CASE FirstPostAnswered(i)
  <2>1. InLoop(i) /\ pc' = [pc EXCEPT ![i] = "select"]
    BY <1>3 DEF FirstPostAnswered, EndPass, InLoop
  <2>2. up[next[i]] /\ PostAnswered(i) /\ inject' = inject
    BY <1>3 DEF FirstPostAnswered, PostAnswered
  <2> QED
    BY <2>1, <2>2, AnsweredPost DEF GoesOn, IsDropped
<1>4. CASE FirstPostFails(i)
  <2>1. UNCHANGED <<tokenChan, currentToken>>
    BY <1>4, FailedPost DEF FirstPostFails
  <2>2. \A j \in Servers : InLoop(j)' <=> InLoop(j)
    BY <1>4, <2>1 DEF FirstPostFails, InLoop
  <2> QED
    BY <1>4, <2>1, <2>2, SameTokens DEF FirstPostFails
<1>5. CASE HealthCheckAnswered(i)
  BY <1>5, SameTokens DEF HealthCheckAnswered, InLoop
<1>6. CASE HealthCheckFails(i)
  BY <1>6, SameTokens DEF HealthCheckFails, InLoop
<1>n. CASE NoteFailed(i)
  BY <1>n, SameTokens DEF NoteFailed, InLoop
<1>7. CASE Retry(i)
  <2>1. pc' = [pc EXCEPT ![i] = "select"] /\ pc[i] = "retry" /\ inject' = inject
    BY <1>7 DEF Retry, EndPass
  <2>2. InLoop(i) /\ (PostAnswered(i) \/ PostFails(i))
    BY <1>7 DEF Retry, PostsItsToken, InLoop
  <2> QED
    BY <2>1, <2>2, LastPost DEF GoesOn, IsDropped, IsRetained
<1>8. CASE Relink(i)
  BY <1>8, SameTokens DEF Relink, InLoop
<1>9. CASE Repost(i)
  <2>1. pc' = [pc EXCEPT ![i] = "select"] /\ pc[i] = "repost" /\ inject' = inject
    BY <1>9 DEF Repost, EndPass
  <2>2. InLoop(i) /\ (PostAnswered(i) \/ PostFails(i))
    BY <1>9 DEF Repost, PostsItsToken, InLoop
  <2> QED
    BY <2>1, <2>2, LastPost DEF GoesOn, IsDropped, IsRetained
<1>10. CASE SpuriousWatchdog(i)
  BY <1>10, SameTokens DEF SpuriousWatchdog, InLoop
<1>11. CASE LeaderWatchdog(i)
  <2>1. /\ tokenChan' = tokenChan /\ inject' = inject
        /\ pc' = [pc EXCEPT ![i] = "holding"] /\ pc[i] = "select"
        /\ \A j \in Servers : j # i => currentToken'[j] = currentToken[j]
    BY <1>11 DEF LeaderWatchdog, Regenerate
  <2>2. ~InLoop(i) /\ \A j \in Servers : j # i => (InLoop(j)' <=> InLoop(j))
    BY <2>1 DEF InLoop
  <2>3. CASE InLoop(i)'
    <3>1. \A t : t \in Tokens' <=> t \in Tokens \cup {<<"loop", i>>}
      <4> HIDE DEF TypeOK
      <4> QED
        BY <2>1, <2>2, <2>3, TokensAre
    <3> QED
      BY <1>11, <3>1 DEF IsMade
  <2>4. CASE ~InLoop(i)'
    BY <2>1, <2>2, <2>4, SameTokens
  <2> QED
    BY <2>3, <2>4
<1>12. CASE ElectionTimeout(i)
  BY <1>12, SameTokens DEF ElectionTimeout, InLoop
<1>13. CASE HigherAnswers(i)
  BY <1>13, SameTokens DEF HigherAnswers, InLoop
<1>14. CASE HigherSilent(i)
  BY <1>14, SameTokens DEF HigherSilent, InLoop
<1>15. CASE Promote(i)
  <2>1. /\ tokenChan' = tokenChan /\ pc[i] = "elect" /\ pc' = [pc EXCEPT ![i] = "select"]
        /\ \A j \in Servers : j # i => currentToken'[j] = currentToken[j]
                                       /\ inject'[j] = inject[j]
        /\ inject'[i] = IF currentToken'[i] THEN "token" ELSE "nil"
    BY <1>15 DEF Promote, Regenerate
  <2>2. \A j \in Servers : InLoop(j)' <=> InLoop(j)
    BY <2>1 DEF InLoop
  <2>3. CASE inject'[i] = "token"
    <3>1. \A t : t \in Tokens' <=> t \in Tokens \cup {<<"inject", i>>}
      <4> HIDE DEF TypeOK
      <4> QED
        BY <2>1, <2>2, <2>3, TokensAre
    <3> QED
      BY <1>15, <3>1 DEF IsMade
  <2>4. CASE inject'[i] # "token"
    <3>1. \A t : t \in Tokens' <=> t \in Tokens \ {<<"inject", i>>}
      <4> HIDE DEF TypeOK
      <4> QED
        BY <2>1, <2>2, <2>4, TokensAre
    <3>2. ~NoFault
      <4>1. ~currentToken'[i]
        BY <2>1, <2>4
      <4> QED
        BY <1>15, <4>1 DEF Promote, Regenerate, Occurs, NoFault, FaultKinds
    <3> QED
      BY <1>15, <3>1, <3>2 DEF IsMade
  <2> QED
    BY <2>3, <2>4
<1>16. CASE ExpireWatchdog(i)
  BY <1>16, SameTokens DEF ExpireWatchdog, InLoop
<1>17. CASE ExpireElection(i)
  BY <1>17, SameTokens DEF ExpireElection, InLoop
<1>18. CASE Inject(i)
  <2>1. /\ tokenChan' = [tokenChan EXCEPT ![i] = inject[i]] /\ tokenChan[i] = "empty"
        /\ inject' = [inject EXCEPT ![i] = "empty"]
        /\ \A j \in Servers : InLoop(j)' <=> InLoop(j)
    BY <1>18 DEF Inject, InLoop
  <2>2. /\ tokenChan'[i] = inject[i] /\ inject'[i] = "empty"
        /\ \A j \in Servers : j # i => tokenChan'[j] = tokenChan[j] /\ inject'[j] = inject[j]
    BY <2>1
  <2>3. CASE inject[i] = "token"
    <3>1. <<"inject", i>> \in Tokens
      BY <2>3, TokensAre
    <3>2. \A t : t \in Tokens' <=> t \in (Tokens \ {<<"inject", i>>}) \cup {<<"chan", i>>}
      <4> HIDE DEF TypeOK
      <4> QED
        BY <2>1, <2>2, <2>3, TokensAre
    <3> QED
      BY <3>1, <3>2 DEF Moves
  <2>4. CASE inject[i] # "token"
    BY <2>1, <2>2, <2>4, SameTokens
  <2> QED
    BY <2>3, <2>4
<1>19. CASE MonitorRestores(i)
  BY <1>19, SameTokens DEF MonitorRestores, InLoop
<1> QED
  BY <1>1, <1>2, <1>3, <1>4, <1>5, <1>6, <1>n, <1>7, <1>8, <1>9, <1>10, <1>11, <1>12, <1>13,
     <1>14, <1>15, <1>16, <1>17, <1>18, <1>19 DEF Step, Run, Pass, TimerCase

----------------------------------------------------------------------------
(* Where cards.json can always be read there are no nil tokens.             *)
NoNils == \A i \in Servers : tokenChan[i] # "nil" /\ inject[i] # "nil"

LEMMA NilsComeFromCards ==
  ASSUME Limit["cards"] = 0
  PROVE  Spec => []NoNils
<1>1. Init => NoNils
  BY DEF Init, NoNils
<1>2. TypeOK /\ NoNils /\ [Next]_vars => NoNils'
  <2> SUFFICES ASSUME TypeOK, NoNils, [Next]_vars PROVE NoNils'
    OBVIOUS
  <2> USE DEF NoNils, TypeOK, links, tokens
  <2>1. CASE UNCHANGED <<tokenChan, inject>>
    BY <2>1
  <2>2. CASE UNCHANGED vars
    BY <2>2 DEF vars
  <2>3. ASSUME NEW i \in Servers, PostAnswered(i) \/ PostFails(i), inject' = inject
        PROVE  NoNils'
    BY <2>3 DEF PostAnswered, PostFails, Enqueue
  <2>4. ASSUME NEW i \in Servers, Step(i)
        PROVE  NoNils'
    <3>1. CASE ReceiveToken(i)
      BY <3>1 DEF ReceiveToken
    <3>2. CASE NothingToPass(i)
      BY <2>1, <3>2 DEF NothingToPass
    <3>3. CASE FirstPostAnswered(i)
      BY <2>3, <3>3 DEF FirstPostAnswered
    <3>4. CASE FirstPostFails(i)
      BY <2>3, <3>4 DEF FirstPostFails
    <3>5. CASE HealthCheckAnswered(i) \/ HealthCheckFails(i) \/ NoteFailed(i)
      BY <2>1, <3>5 DEF HealthCheckAnswered, HealthCheckFails, NoteFailed
    <3>6. CASE Retry(i)
      BY <2>3, <3>6 DEF Retry
    <3>7. CASE Relink(i)
      BY <2>1, <3>7 DEF Relink
    <3>8. CASE Repost(i)
      BY <2>3, <3>8 DEF Repost
    <3>9. CASE SpuriousWatchdog(i) \/ LeaderWatchdog(i)
      BY <2>1, <3>9 DEF SpuriousWatchdog, LeaderWatchdog
    <3>10. CASE ElectionTimeout(i) \/ HigherAnswers(i) \/ HigherSilent(i)
      BY <2>1, <3>10 DEF ElectionTimeout, HigherAnswers, HigherSilent
    <3>11. CASE Promote(i)
      <4>1. ~Occurs("cards")
        BY DEF Occurs, FaultKinds
      <4>2. currentToken' = [currentToken EXCEPT ![i] = TRUE]
        BY <3>11, <4>1 DEF Promote, Regenerate
      <4> QED
        BY <3>11, <4>2 DEF Promote
    <3>12. CASE ExpireWatchdog(i) \/ ExpireElection(i)
      BY <2>1, <3>12 DEF ExpireWatchdog, ExpireElection
    <3>13. CASE Inject(i)
      BY <3>13 DEF Inject
    <3>14. CASE MonitorRestores(i)
      BY <2>1, <3>14 DEF MonitorRestores
    <3> QED
      BY <2>4, <3>1, <3>2, <3>3, <3>4, <3>5, <3>6, <3>7, <3>8, <3>9, <3>10, <3>11, <3>12,
         <3>13, <3>14 DEF Step, Run, Pass, TimerCase
  <2>5. ASSUME NEW i \in Servers, Crash(i) \/ Restart(i)
        PROVE  NoNils'
    BY <2>5 DEF Crash, Restart
  <2> QED
    BY <2>2, <2>4, <2>5 DEF Next
<1> QED
  BY <1>1, <1>2, TypeCorrect, PTL DEF Spec

(* For every number of servers, any timing and any other faults: as long as *)
(* cards.json can be read, a step without a fault never ends the last token *)
(* of the ring, unless the last POST of a pass has failed.  A token that    *)
(* finds the channel of its receiver full is dropped, but then the token in *)
(* the channel is still there.                                               *)
THEOREM TokenIsNotDropped ==
  ASSUME Limit["cards"] = 0
  PROVE  Spec => TokenSurvives
<1>1. TypeOK /\ PostsItsToken /\ NoNils /\ [Next]_vars =>
        (TokenAlive /\ NoFault =>
           TokenAlive' \/ \E i \in Servers : pc[i] \in {"retry", "repost"} /\ currentToken'[i])
  <2> SUFFICES ASSUME TypeOK, PostsItsToken, NoNils, [Next]_vars, TokenAlive, NoFault, ~TokenAlive'
               PROVE  \E i \in Servers : pc[i] \in {"retry", "repost"} /\ currentToken'[i]
    OBVIOUS
  <2>1. CASE UNCHANGED vars
    BY <2>1 DEF TokenAlive, Tokens, vars, tokens, control
  <2>2. ASSUME NEW i \in Servers, Step(i)
        PROVE  pc[i] \in {"retry", "repost"} /\ currentToken'[i]
    <3>1. Tokens # {} /\ Tokens' = {}
      BY DEF TokenAlive
    <3>2. next[i] \in Servers
      BY DEF TypeOK
    <3>3. ~IsDropped(i)
      BY <3>2 DEF IsDropped, NoNils
    <3>4. ~Moves(i) /\ ~GoesOn(i) /\ ~IsMade(i)
      BY <3>1 DEF Moves, GoesOn, IsMade
    <3> QED
      BY <2>2, <3>1, <3>3, <3>4, TokenStep DEF IsRetained, NoFault
  <2>3. ASSUME NEW i \in Servers, Crash(i) \/ Restart(i)
        PROVE  FALSE
    BY <2>3 DEF Crash, Restart, Occurs, NoFault, TypeOK, FaultKinds
  <2> QED
    BY <2>1, <2>2, <2>3 DEF Next
<1>2. Spec => []NoNils
  BY NilsComeFromCards
<1> QED
  BY <1>1, <1>2, TypeCorrect, LinkInvariant, PTL DEF Spec, TokenSurvives

----------------------------------------------------------------------------
(* Mild faults.                                                             *)

\* Faults that leave the timers their slack did so before.
LEMMA InTimeStep ==
  ASSUME TypeOK, [Next]_vars, InTime'
  PROVE  InTime
<1>1. {"lost", "late", "cards"} \subseteq FaultKinds
  BY DEF FaultKinds
<1>2. /\ faults'["lost"] >= faults["lost"] /\ faults'["late"] >= faults["late"]
      /\ faults'["cards"] >= faults["cards"]
  BY <1>1, FaultsGrow
<1>3. \A k \in {"lost", "late", "cards"} : faults[k] \in Nat /\ faults'[k] \in Nat
  <2>1. faults' \in [FaultKinds -> Nat]
    BY FaultsOccur, FaultsTyped DEF TypeOK
  <2> QED
    BY <1>1, <2>1 DEF TypeOK
<1>4. Honest
  BY HonestStep DEF InTime
<1> QED
  BY <1>2, <1>3, <1>4 DEF InTime

LEMMA MildStep ==
  ASSUME TypeOK, [Next]_vars, Mild'
  PROVE  /\ Mild /\ Honest /\ Honest' /\ InTime
         /\ faults["late"] = 0 /\ faults'["late"] = faults["late"]
<1>1. Honest /\ Honest' /\ InTime /\ \A i \in Servers : up'[i] => up[i]
  BY HonestStep, InTimeStep DEF Mild, InTime
<1>2. "late" \in FaultKinds /\ faults'["late"] = 0
  BY DEF FaultKinds, Mild
<1>3. faults["late"] = 0
  BY <1>2, FaultsGrow DEF TypeOK
<1>4. \A i \in Servers : up[i] \/ up[Succ(i)]
  BY <1>1, LinksInRing DEF Mild
<1> QED
  BY <1>1, <1>2, <1>3, <1>4 DEF Mild

(* Every server is the successor of one.                                    *)
LEMMA EverySucc ==
  ASSUME NEW i \in Servers
  PROVE  \E j \in Servers : Succ(j) = i
<1>1. CASE i = 0
  <2>1. N - 1 \in Servers /\ Succ(N - 1) = i
    BY <1>1, NAssumption DEF Servers, Succ
  <2> QED
    BY <2>1
<1>2. CASE i # 0
  <2>1. i - 1 \in Servers /\ Succ(i - 1) = i
    BY <1>2, NAssumption DEF Servers, Succ
  <2> QED
    BY <2>1
<1> QED
  BY <1>1, <1>2

LEMMA SkipIsTwice ==
  ASSUME NEW i \in Servers
  PROVE  Skip(i) = Succ(Succ(i))
<1>1. CASE i + 2 < N
  BY <1>1, NAssumption DEF Servers, Succ, Skip
<1>2. CASE i + 2 = N
  BY <1>2, NAssumption DEF Servers, Succ, Skip
<1>3. CASE i + 1 = N
  BY <1>3, NAssumption DEF Servers, Succ, Skip
<1> QED BY <1>1, <1>2, <1>3, NAssumption DEF Servers

(* A live server always is on the ring: its predecessor passes to it, or if *)
(* that is down, the one before it does or will.                            *)
LEMMA LiveIsOnRing ==
  ASSUME TypeOK, Mild, BypassedIsDown, NEW i \in Servers, up[i]
  PROVE  OnRing(i)
<1>1. PICK j \in Servers : Succ(j) = i
  BY EverySucc
<1>2. CASE up[j]
  BY <1>1, <1>2 DEF BypassedIsDown, OnRing
<1>3. CASE ~up[j]
  <2>1. PICK k \in Servers : Succ(k) = j
    BY EverySucc
  <2>2. up[k] /\ Skip(k) = i
    BY <1>1, <1>3, <2>1, SkipIsTwice DEF Mild
  <2>3. next[k] \in {j, i}
    BY <2>1, <2>2 DEF BypassedIsDown
  <2> QED
    BY <1>3, <2>2, <2>3 DEF OnRing
<1> QED
  BY <1>2, <1>3

(* Only server 0, or server 1 after the stop of 0, can lead.                *)
LEMMA FirstTwo ==
  ASSUME Mild, NEW i \in Servers, \A j \in Servers : j < i => ~up[j]
  PROVE  i \in {0, 1} /\ {0, 1} \subseteq Servers
<1>1. {0, 1} \subseteq Servers
  BY NAssumption DEF Servers
<1>2. up[0] \/ up[1]
  <2>1. Succ(0) = 1
    BY NAssumption DEF Succ
  <2> QED
    BY <1>1, <2>1 DEF Mild
<1> QED
  BY <1>1, <1>2 DEF Servers

----------------------------------------------------------------------------
(* What a step of a server does to its timers, its election and its role.   *)
LEMMA RoleStep ==
  ASSUME TypeOK, NEW i \in Servers, Step(i)
  PROVE  /\ isLeader[i] => isLeader'[i]
         /\ isLeader'[i] => isLeader[i] \/ Promote(i)
         /\ watchdog'[i] = "fired" =>
              ~LeaderWatchdog(i) /\ ~Promote(i) /\ (watchdog[i] = "fired" \/ ExpireWatchdog(i))
         /\ election'[i] = "fired" \/ pc'[i] = "elect" =>
              \/ election[i] = "fired" \/ pc[i] = "elect"
              \/ ExpireElection(i)
<1> DEFINE Quiet == /\ isLeader' = isLeader
                    /\ watchdog'[i] = "fired" => watchdog[i] = "fired" /\ ~LeaderWatchdog(i)
                    /\ election'[i] = "fired" => election[i] = "fired"
                    /\ pc'[i] # "elect" /\ pc[i] # "elect"
<1> USE DEF TypeOK, GoTo, links, tokens, control, timers
<1>1. ASSUME NEW w \in [Servers -> Timer], EndPass(i, w), w[i] = "fired" => watchdog[i] = "fired"
      PROVE  /\ watchdog'[i] = "fired" => watchdog[i] = "fired"
             /\ election'[i] = "fired" => election[i] = "fired"
             /\ pc'[i] = "select"
  BY <1>1 DEF EndPass, ResetTimers
<1>2. CASE Quiet
  BY <1>2 DEF Promote
<1>3. CASE ReceiveToken(i)
  BY <1>3 DEF ReceiveToken, ResetTimers, Promote
<1>4. CASE NothingToPass(i)
  BY <1>1, <1>2, <1>4 DEF NothingToPass, LeaderWatchdog
<1>5. CASE FirstPostAnswered(i)
  BY <1>1, <1>2, <1>5 DEF FirstPostAnswered, LeaderWatchdog
<1>6. CASE FirstPostFails(i)
  BY <1>2, <1>6 DEF FirstPostFails, LeaderWatchdog
<1>7. CASE HealthCheckAnswered(i)
  BY <1>2, <1>7 DEF HealthCheckAnswered, LeaderWatchdog
<1>8. CASE HealthCheckFails(i)
  BY <1>2, <1>8 DEF HealthCheckFails, LeaderWatchdog
<1>n. CASE NoteFailed(i)
  BY <1>2, <1>n DEF NoteFailed, LeaderWatchdog
<1>9. CASE Retry(i)
  BY <1>1, <1>2, <1>9 DEF Retry, LeaderWatchdog
<1>10. CASE Relink(i)
  BY <1>2, <1>10 DEF Relink, LeaderWatchdog
<1>11. CASE Repost(i)
  <2>1. /\ Rearmed(i) \in [Servers -> Timer]
        /\ Rearmed(i)[i] = "fired" => watchdog[i] = "fired"
    BY DEF Rearmed, Timer
  <2>2. isLeader' = isLeader /\ pc[i] = "repost" /\ EndPass(i, Rearmed(i))
    BY <1>11 DEF Repost
  <2> QED
    BY <1>1, <1>2, <2>1, <2>2 DEF LeaderWatchdog
<1>12. CASE SpuriousWatchdog(i)
  BY <1>12 DEF SpuriousWatchdog, ResetTimers, Promote
<1>13. CASE LeaderWatchdog(i)
  BY <1>13 DEF LeaderWatchdog, Promote
<1>14. CASE ElectionTimeout(i)
  BY <1>14 DEF ElectionTimeout, Promote, LeaderWatchdog
<1>15. CASE HigherAnswers(i)
  BY <1>15 DEF HigherAnswers, ResetTimers, Promote, LeaderWatchdog
<1>16. CASE HigherSilent(i)
  BY <1>16 DEF HigherSilent, Promote, LeaderWatchdog
<1>17. CASE Promote(i)
  BY <1>17 DEF Promote, ResetTimers
<1>18. CASE ExpireWatchdog(i)
  BY <1>18 DEF ExpireWatchdog, Promote, LeaderWatchdog
<1>19. CASE ExpireElection(i)
  BY <1>19 DEF ExpireElection, Promote, LeaderWatchdog
<1>20. CASE Inject(i)
  BY <1>20 DEF Inject, Promote, LeaderWatchdog
<1>21. CASE MonitorRestores(i)
  BY <1>21 DEF MonitorRestores, Promote, LeaderWatchdog
<1> QED
  BY <1>3, <1>4, <1>5, <1>6, <1>7, <1>8, <1>n, <1>9, <1>10, <1>11, <1>12, <1>13, <1>14,
     <1>15, <1>16, <1>17, <1>18, <1>19, <1>20, <1>21 DEF Step, Run, Pass, TimerCase

----------------------------------------------------------------------------
(* The invariants proved so far, and what they leave to prove of RingInv.   *)
Known ==
  /\ TypeOK /\ DownIsReset /\ PostsItsToken /\ (Honest => BypassedIsDown)
  /\ LeaderIsLowestAlive /\ ScannedAreDown /\ LeaderHasNoElection

LEMMA AllKnown == Spec => []Known
<1>1. /\ TypeOK /\ LeaderIsLowestAlive /\ ScannedAreDown /\ LeaderHasNoElection
      /\ DownIsReset /\ PostsItsToken /\ (Honest => BypassedIsDown)
      => Known
  BY DEF Known
<1> QED
  BY <1>1, TypeCorrect, LinkInvariant, ElectionInvariant, NoElectionOnLeader, PTL

(* A token is made only while there is none: by the only live leader, whose *)
(* watchdog is right, or by server 1 after the stop of server 0.             *)
LEMMA MadeWhenNone ==
  ASSUME Known, Mild, FirstLeads, WatchdogIsRight, NEW i \in Servers, Step(i), IsMade(i)
  PROVE  /\ Tokens = {} /\ up[i]
         /\ \A j \in Servers : j < i => ~up[j]
         /\ Promote(i) => i = 1 /\ ~up[0]
<1>1. Honest /\ up[i]
  BY StepIsLocal DEF Mild, InTime, Known
<1>2. CASE LeaderWatchdog(i)
  <2>1. isLeader[i] /\ watchdog[i] = "fired" /\ pc[i] = "select"
    BY <1>2 DEF LeaderWatchdog
  <2>2. ~Promote(i)
    BY <2>1 DEF Promote
  <2> QED
    BY <1>1, <2>1, <2>2 DEF WatchdogIsRight, TokenAlive, LeaderIsLowestAlive, Known
<1>3. CASE Promote(i)
  <2>1. pc[i] = "elect" /\ scan[i] = i
    BY <1>3 DEF Promote
  <2>2. \A j \in Servers : j < i => ~up[j]
    BY <1>1, <2>1 DEF ScannedAreDown, Known
  <2>3. i \in {0, 1}
    BY <2>2, FirstTwo
  <2>4. i # 0
    BY <2>1 DEF FirstLeads, LeaderHasNoElection, Known
  <2>5. i = 1 /\ Tokens = {} /\ ~up[0]
    BY <2>1, <2>3, <2>4 DEF FirstLeads, TokenAlive
  <2> QED
    BY <1>1, <2>2, <2>5
<1> QED
  BY <1>2, <1>3 DEF IsMade

(* Where there is no token, there is none after a step that makes none.     *)
LEMMA NoneStays ==
  ASSUME Known, NEW i \in Servers, Step(i), faults'["late"] = faults["late"],
         Tokens = {}, ~IsMade(i)
  PROVE  Tokens' = {}
BY TokenStep DEF Known, Moves, GoesOn, IsDropped, IsRetained

(* A server that stops takes its tokens with it.                            *)
LEMMA CrashTokens ==
  ASSUME TypeOK, NEW i \in Servers, Crash(i)
  PROVE  Tokens' = {t \in Tokens : t[2] # i}
<1>1. /\ ~InLoop(i)' /\ tokenChan'[i] # "token" /\ inject'[i] # "token"
      /\ \A j \in Servers : j # i => /\ InLoop(j)' <=> InLoop(j)
                                     /\ tokenChan'[j] = tokenChan[j] /\ inject'[j] = inject[j]
  BY CrashIsLocal DEF InLoop
<1>2. ASSUME NEW t, t \in Tokens'
      PROVE  t \in Tokens /\ t[2] # i
  <2>1. PICK j \in Servers : \/ t = <<"loop", j>> /\ InLoop(j)'
                             \/ t = <<"chan", j>> /\ tokenChan'[j] = "token"
                             \/ t = <<"inject", j>> /\ inject'[j] = "token"
    BY <1>2, TokensAre
  <2>2. j # i
    BY <1>1, <2>1
  <2>3. t \in Tokens
    BY <1>1, <2>1, <2>2, TokensAre
  <2> QED
    BY <2>1, <2>2, <2>3
<1>3. ASSUME NEW t, t \in Tokens, t[2] # i
      PROVE  t \in Tokens'
  <2>1. PICK j \in Servers : \/ t = <<"loop", j>> /\ InLoop(j)
                             \/ t = <<"chan", j>> /\ tokenChan[j] = "token"
                             \/ t = <<"inject", j>> /\ inject[j] = "token"
    BY <1>3, TokensAre
  <2>2. j # i
    BY <1>3, <2>1
  <2> QED
    BY <1>1, <2>1, <2>2, TokensAre
<1> QED
  BY <1>2, <1>3

LEMMA RingInvStep ==
  ASSUME Timely, Known, Known', RingInv, [Next]_vars, Mild'
  PROVE  FirstLeads' /\ WatchdogIsRight' /\ OneAtMost'
<1>1. /\ TypeOK /\ Mild /\ Honest /\ faults'["late"] = faults["late"] /\ BypassedIsDown
      /\ FirstLeads /\ WatchdogIsRight /\ OneAtMost
      /\ {0, 1} \subseteq Servers
  BY MildStep, NAssumption DEF Known, RingInv, Servers
<1>2. CASE UNCHANGED vars
  <2>1. Tokens' = Tokens
    BY <1>2 DEF Tokens, vars, tokens, control
  <2> QED
    BY <1>1, <1>2, <2>1 DEF FirstLeads, WatchdogIsRight, OneAtMost, TokenAlive, vars, timers, control
<1>3. ASSUME NEW i \in Servers, Step(i)
      PROVE  FirstLeads' /\ WatchdogIsRight' /\ OneAtMost'
  <2>1. up[i] /\ up' = up
    BY <1>1, <1>3, StepIsLocal
  <2>2. OnRing(i)
    BY <1>1, <2>1, LiveIsOnRing
  <2>3. Tokens = {} \/ ~IsMade(i)
    BY <1>1, <1>3, MadeWhenNone
  <2>4. OneAtMost'
    <3>1. CASE IsMade(i)
      BY <2>3, <3>1 DEF IsMade, OneAtMost
    <3>2. CASE Tokens' = Tokens \/ Moves(i) \/ GoesOn(i) \/ IsDropped(i) \/ IsRetained(i)
      BY <1>1, <3>2 DEF OneAtMost, Moves, GoesOn, IsDropped, IsRetained
    <3> QED
      BY <1>1, <1>3, <3>1, <3>2, TokenStep DEF Known
  <2>5. FirstLeads'
    <3>1. isLeader'[0]
      BY <1>1, <1>3, RoleStep, StepIsLocal DEF FirstLeads
    <3>2. ASSUME NEW j \in Servers, election'[j] = "fired" \/ pc'[j] = "elect"
          PROVE  j = 1 => ~up[0] /\ Tokens = {}
      <4>1. CASE election[j] = "fired" \/ pc[j] = "elect"
        BY <1>1, <4>1 DEF FirstLeads, TokenAlive
      <4>2. CASE j = i /\ ExpireElection(i)
        <5>1. SUFFICES ASSUME j = 1 PROVE ~up[0] /\ Tokens = {}
          OBVIOUS
        <5>2. Starved(1) /\ ~(up[0] /\ next[0] = 1)
          BY <1>1, <4>2, <5>1 DEF ExpireElection, Mild
        <5>3. Succ(0) = 1
          BY NAssumption DEF Succ
        <5>4. next[0] # 1 => ~up[1]
          BY <1>1, <5>3 DEF BypassedIsDown
        <5> QED
          BY <2>1, <2>2, <4>2, <5>1, <5>2, <5>4 DEF Starved, TokenAlive
      <4> QED
        BY <1>1, <1>3, <3>2, <4>1, <4>2, RoleStep, StepIsLocal
    <3>3. ASSUME election'[1] = "fired" \/ pc'[1] = "elect"
          PROVE  Tokens' = {}
      <4>1. ~up[0] /\ Tokens = {}
        BY <1>1, <3>2, <3>3
      <4>2. ~isLeader'[1]
        BY <1>1, <3>3 DEF Known, LeaderHasNoElection
      <4>3. ~IsMade(i)
        <5>1. SUFFICES ASSUME IsMade(i) PROVE FALSE
          OBVIOUS
        <5>2. i \in {0, 1}
          BY <1>1, <1>3, <5>1, MadeWhenNone, FirstTwo
        <5>3. i = 1
          BY <2>1, <4>1, <5>2
        <5>4. isLeader'[i]
          <6>1. CASE LeaderWatchdog(i)
            BY <1>1, <1>3, <6>1, RoleStep DEF LeaderWatchdog
          <6>2. CASE Promote(i)
            BY <1>1, <6>2 DEF Promote, TypeOK
          <6> QED
            BY <5>1, <6>1, <6>2 DEF IsMade
        <5> QED
          BY <4>2, <5>3, <5>4
      <4> QED
        BY <1>1, <1>3, <4>1, <4>3, NoneStays
    <3> QED
      BY <1>1, <2>1, <3>1, <3>2, <3>3 DEF FirstLeads, TokenAlive
  <2>6. WatchdogIsRight'
    <3>1. SUFFICES ASSUME NEW j \in Servers, up[j], isLeader'[j], watchdog'[j] = "fired"
                   PROVE  Tokens' = {}
      BY <2>1 DEF WatchdogIsRight, TokenAlive
    <3>2. isLeader[j]
      BY <1>1, <1>3, <3>1, RoleStep, StepIsLocal
    <3>3. watchdog[j] = "fired" \/ (j = i /\ ExpireWatchdog(i))
      BY <1>1, <1>3, <3>1, RoleStep, StepIsLocal
    <3>4. Tokens = {}
      <4>1. CASE watchdog[j] = "fired"
        BY <1>1, <3>1, <3>2, <4>1 DEF WatchdogIsRight, TokenAlive
      <4>2. CASE j = i /\ ExpireWatchdog(i)
        BY <1>1, <2>2, <4>2 DEF ExpireWatchdog, Starved, TokenAlive, Mild
      <4> QED
        BY <3>3, <4>1, <4>2
    <3>5. ~IsMade(i)
      <4>1. SUFFICES ASSUME IsMade(i) PROVE FALSE
        OBVIOUS
      <4>2. \A k \in Servers : k < j => ~up[k]
        BY <1>1, <3>1, <3>2 DEF LeaderIsLowestAlive, Known
      <4>3. \A k \in Servers : k < i => ~up[k]
        BY <1>1, <1>3, <4>1, MadeWhenNone
      <4>4. i = j
        BY <2>1, <3>1, <4>2, <4>3 DEF Servers
      <4> QED
        BY <1>1, <1>3, <3>1, <4>1, <4>4, RoleStep DEF IsMade
    <3> QED
      BY <1>1, <1>3, <3>4, <3>5, NoneStays
  <2> QED
    BY <2>4, <2>5, <2>6
<1>4. ASSUME NEW i \in Servers, Crash(i)
      PROVE  FirstLeads' /\ WatchdogIsRight' /\ OneAtMost'
  <2>1. Tokens' = {t \in Tokens : t[2] # i}
    BY <1>1, <1>4, CrashTokens
  <2>2. OneAtMost'
    BY <1>1, <2>1 DEF OneAtMost
  <2>3. \A j \in Servers : /\ election'[j] = "fired" \/ pc'[j] = "elect" =>
                                election[j] = "fired" \/ pc[j] = "elect"
                           /\ up'[j] => up[j] /\ isLeader'[j] = isLeader[j]
                                              /\ watchdog'[j] = watchdog[j]
    BY <1>1, <1>4, CrashIsLocal DEF TypeOK
  <2>4. isLeader'[0]
    BY <1>1, <1>4, CrashIsLocal DEF FirstLeads
  <2>5. FirstLeads'
    BY <1>1, <2>1, <2>3, <2>4 DEF FirstLeads, TokenAlive
  <2>6. WatchdogIsRight'
    BY <1>1, <2>1, <2>3 DEF WatchdogIsRight, TokenAlive
  <2> QED
    BY <2>2, <2>5, <2>6
<1> QED
  BY <1>1, <1>2, <1>3, <1>4, HonestStep, MildStep DEF Next

LEMMA RingInvariant ==
  ASSUME Timely
  PROVE  Spec => []RingInv
<1>1. Init => RingInv
  <2> SUFFICES ASSUME Init PROVE RingInv
    OBVIOUS
  <2>1. Tokens = {}
    BY DEF Init, Tokens
  <2>2. /\ DownIsReset /\ PostsItsToken /\ BypassedIsDown
    BY DEF Init, DownIsReset, PostsItsToken, BypassedIsDown
  <2>3. {0, 1} \subseteq Servers
    BY NAssumption DEF Servers
  <2>4. FirstLeads
    BY <2>1, <2>3 DEF Init, FirstLeads, TokenAlive
  <2>5. WatchdogIsRight /\ OneAtMost
    BY <2>1 DEF Init, WatchdogIsRight, OneAtMost
  <2> QED
    BY <2>2, <2>4, <2>5 DEF RingInv
<1>2. Known /\ Known' /\ RingInv /\ [Next]_vars => RingInv'
  BY RingInvStep DEF RingInv, Known
<1> QED
  BY <1>1, <1>2, AllKnown, PTL DEF Spec

(* For every number of servers and every fault budget, while the faults are *)
(* Mild (no answer late, no ping unanswered, nobody back, no two neighbours  *)
(* down, one POST lost and no regeneration put off at most, so that the      *)
(* timers keep the slack they have by design) there is at most one token,    *)
(* whichever servers stop and wherever they do.                              *)
THEOREM OneTokenAtATime ==
  ASSUME Timely
  PROVE  Spec => [](Mild => OneToken)
<1>1. RingInv => (Mild => OneToken)
  <2> SUFFICES ASSUME RingInv, Mild PROVE Cardinality(Tokens) <= 1
    BY DEF OneToken
  <2>1. CASE Tokens = {}
    BY <2>1, FS_EmptySet
  <2>2. ASSUME NEW t \in Tokens
        PROVE  Cardinality(Tokens) <= 1
    <3>1. Tokens = {t}
      BY <2>2 DEF RingInv, OneAtMost
    <3>2. Cardinality({t}) = 1
      BY FS_Singleton
    <3> QED
      BY <3>1, <3>2
  <2> QED
    BY <2>1, <2>2
<1> QED
  BY <1>1, RingInvariant, PTL

----------------------------------------------------------------------------
(* The tokens as SingleToken sees them.                                      *)

Live == {i \in Servers : up[i]}

LEMMA SameHolders ==
  ASSUME Tokens' = Tokens
  PROVE  Holders' = Holders
BY DEF Holders

(* The server that has the only token, and the one that has it after a step. *)
LEMMA OneHolder ==
  ASSUME OneAtMost, NEW s \in Tokens
  PROVE  Tokens = {s} /\ Holders = {s[2]}
BY DEF OneAtMost, Holders

LEMMA NextHolder ==
  ASSUME NEW t, Tokens' = {t}
  PROVE  Holders' = {t[2]}
BY DEF Holders

LEMMA NoHolder ==
  /\ Tokens = {} => Holders = {}
  /\ Tokens' = {} => Holders' = {}
BY DEF Holders

(* The link of a server that holds the token leads to the next live server. *)
LEMMA LinkIsNextLive ==
  ASSUME TypeOK, BypassedIsDown, NEW i \in Servers, up[next[i]]
  PROVE  Ring!IsNextLive(i, next[i])
<1> USE DEF Ring!IsNextLive, Ring!Hops
<1>1. next[i] \in Servers /\ N \in Nat /\ N >= 2
  BY NAssumption DEF TypeOK
<1>2. CASE next[i] = Succ(i)
  <2>1. Ring!Hops(i, Succ(i)) = 1
    <3>1. CASE i + 1 = N
      BY <1>1, <3>1 DEF Servers, Succ
    <3>2. CASE i + 1 < N
      BY <1>1, <3>2 DEF Servers, Succ
    <3> QED
      BY <1>1, <3>1, <3>2 DEF Servers
  <2>2. \A k \in Servers : Ring!Hops(i, k) >= 1
    BY <1>1 DEF Servers
  <2> QED
    BY <1>1, <1>2, <2>1, <2>2 DEF Servers
<1>3. CASE next[i] # Succ(i)
  <2>1. next[i] = Skip(i) /\ ~up[Succ(i)]
    BY <1>3 DEF BypassedIsDown
  <2>2. Ring!Hops(i, Skip(i)) = 2
    <3>1. CASE i + 2 < N
      BY <1>1, <3>1 DEF Servers, Skip
    <3>2. CASE i + 2 = N
      BY <1>1, <3>2 DEF Servers, Skip
    <3>3. CASE i + 1 = N
      BY <1>1, <3>3 DEF Servers, Skip
    <3> QED
      BY <1>1, <3>1, <3>2, <3>3 DEF Servers
  <2>3. \A k \in Servers : k # Succ(i) => Ring!Hops(i, k) >= 2
    <3>1. CASE i + 1 = N
      BY <1>1, <3>1 DEF Servers, Succ
    <3>2. CASE i + 1 < N
      BY <1>1, <3>2 DEF Servers, Succ
    <3> QED
      BY <1>1, <3>1, <3>2 DEF Servers
  <2> QED
    BY <1>1, <2>1, <2>2, <2>3 DEF Servers
<1> QED
  BY <1>2, <1>3

LEMMA RingStep ==
  ASSUME Timely, Known, RingInv, [Next]_vars, Mild'
  PROVE  [Ring!Next]_(Ring!vars)
<1> SUFFICES Ring!Next \/ (UNCHANGED up /\ Holders' = Holders)
  BY DEF Ring!vars
<1>1. /\ TypeOK /\ Mild /\ Honest /\ faults'["late"] = faults["late"] /\ BypassedIsDown
      /\ FirstLeads /\ WatchdogIsRight /\ OneAtMost /\ PostsItsToken
  BY MildStep DEF Known, RingInv
<1>2. CASE UNCHANGED vars
  <2>1. Tokens' = Tokens
    BY <1>2 DEF Tokens, vars, tokens, control
  <2> QED
    BY <1>2, <2>1, SameHolders DEF vars
<1>3. ASSUME NEW i \in Servers, Crash(i)
      PROVE  Ring!Stop(i)
  <2>1. Tokens' = {t \in Tokens : t[2] # i} /\ up[i] /\ up' = [up EXCEPT ![i] = FALSE]
    BY <1>1, <1>3, CrashTokens, CrashIsLocal
  <2>2. Live' = Live \ {i} /\ i \in Live
    BY <1>1, <2>1 DEF Live, TypeOK
  <2>3. Holders' = Holders \ {i}
    BY <2>1 DEF Holders
  <2> QED
    BY <2>2, <2>3 DEF Ring!Stop, Live
<1>4. ASSUME NEW i \in Servers, Step(i)
      PROVE  Ring!Regenerate(i) \/ (\E j \in Servers : Ring!Pass(i, j)) \/ Ring!Lose
             \/ (UNCHANGED up /\ Holders' = Holders)
  <2>1. up' = up
    BY <1>1, <1>4, StepIsLocal
  <2>2. CASE Tokens' = Tokens
    BY <2>1, <2>2, SameHolders
  <2>3. CASE Moves(i)
    <3>0. PICK s \in Tokens : \E t :
            s[2] = i /\ t[2] = i /\ Tokens' = (Tokens \ {s}) \cup {t}
      BY <2>3 DEF Moves
    <3>1. PICK t : s[2] = i /\ t[2] = i /\ Tokens' = (Tokens \ {s}) \cup {t}
      BY <3>0
    <3>2. Tokens = {s} /\ Holders = {i} /\ Tokens' = {t}
      BY <1>1, <3>1, OneHolder
    <3> QED
      BY <2>1, <3>1, <3>2, NextHolder
  <2>4. CASE GoesOn(i)
    <3>1. <<"loop", i>> \in Tokens /\ <<"loop", i>>[2] = i
      BY <2>4 DEF GoesOn
    <3>2. Tokens = {<<"loop", i>>} /\ Holders = {i}
      BY <1>1, <3>1, OneHolder
    <3>3. Tokens' = {<<"chan", next[i]>>} /\ <<"chan", next[i]>>[2] = next[i]
      BY <2>4, <3>2 DEF GoesOn
    <3>4. Holders' = {next[i]}
      BY <3>3, NextHolder
    <3>5. Ring!IsNextLive(i, next[i]) /\ next[i] \in Servers
      BY <1>1, <2>4, LinkIsNextLive DEF GoesOn, TypeOK
    <3> QED
      BY <2>1, <3>2, <3>4, <3>5 DEF Ring!Pass
  <2>5. CASE IsDropped(i) \/ IsRetained(i)
    <3>1. /\ <<"loop", i>> \in Tokens /\ <<"loop", i>>[2] = i
          /\ Tokens' = Tokens \ {<<"loop", i>>}
      BY <2>5 DEF IsDropped, IsRetained
    <3>2. Tokens = {<<"loop", i>>} /\ Holders = {i}
      BY <1>1, <3>1, OneHolder
    <3>3. Holders' = {}
      BY <3>1, <3>2, NoHolder
    <3> QED
      BY <2>1, <3>2, <3>3 DEF Ring!Lose
  <2>6. CASE IsMade(i)
    <3>1. Tokens = {} /\ up[i] /\ \A j \in Servers : j < i => ~up[j]
      BY <1>1, <1>4, <2>6, MadeWhenNone
    <3>2. Tokens' \in {{}, {<<"loop", i>>}, {<<"inject", i>>}}
      BY <2>6, <3>1 DEF IsMade
    <3>3. CASE Tokens' = {}
      BY <2>1, <3>1, <3>3, SameHolders
    <3>4. CASE Tokens' \in {{<<"loop", i>>}, {<<"inject", i>>}}
      <4>1. Holders' = {i} /\ Holders = {}
        <5>1. <<"loop", i>>[2] = i /\ <<"inject", i>>[2] = i
          OBVIOUS
        <5> QED
          BY <3>1, <3>4, <5>1, NextHolder, NoHolder
      <4>2. Ring!IsFirstLive(i)
        BY <3>1 DEF Ring!IsFirstLive, Servers
      <4> QED
        BY <2>1, <4>1, <4>2 DEF Ring!Regenerate
    <3> QED
      BY <3>2, <3>3, <3>4
  <2> QED
    BY <1>1, <1>4, <2>2, <2>3, <2>4, <2>5, <2>6, TokenStep
<1>5. Servers = Ring!Servers
  BY DEF Servers, Ring!Servers
<1>6. ASSUME NEW i \in Servers, Step(i) \/ Crash(i)
      PROVE  Ring!Next \/ (UNCHANGED up /\ Holders' = Holders)
  BY <1>3, <1>4, <1>5, <1>6 DEF Ring!Next
<1>7. \A i \in Servers : ~Restart(i)
  BY <1>1, HonestStep, MildStep
<1> QED
  BY <1>2, <1>6, <1>7 DEF Next

(* For every number of servers, if calls that are answered or refused take  *)
(* no time: a run of the ring whose faults stay Mild is a run of a single    *)
(* token, which visits the live servers in their order and is made anew only *)
(* by the first of them and only after it got lost.                          *)
THEOREM CirculatesWhileMild ==
  ASSUME Timely
  PROVE  Spec /\ []Mild => CirculatesOneToken
<1>1. Init => Ring!Init
  <2> SUFFICES ASSUME Init PROVE Ring!Init
    OBVIOUS
  <2>1. Tokens = {}
    BY DEF Init, Tokens
  <2>2. Holders = {}
    BY <2>1, NoHolder
  <2>3. {i \in Servers : up[i]} = Ring!Servers
    BY DEF Init, Servers, Ring!Servers
  <2> QED
    BY <2>2, <2>3 DEF Ring!Init
<1>2. Known /\ RingInv /\ [Next]_vars /\ Mild' => [Ring!Next]_(Ring!vars)
  BY RingStep
<1> QED
  BY <1>1, <1>2, AllKnown, RingInvariant, PTL DEF Spec, CirculatesOneToken, Ring!Spec

(* A server is down only after a stop, two are only after two.              *)
CrashesCounted ==
  /\ \A i \in Servers : ~up[i] => faults["crash"] >= 1
  /\ \A i, j \in Servers : i # j /\ ~up[i] /\ ~up[j] => faults["crash"] >= 2

(* One server stops and one POST is lost at most, the lost POST is the only *)
(* call that takes time, and nothing else fails.  Then the faults stay Mild: *)
(* the ring is a single token, on any number of servers.  With more than one *)
(* lost POST in a lap the watchdog (5 N s against a lap of 2 N s and 5 s for *)
(* each of them) may make a second token, so the budget is part of it.       *)
THEOREM CirculatesWithOneStop ==
  ASSUME Timely, Limit["crash"] <= 1, Limit["lost"] <= 1, Limit["late"] = 0, Limit["ping"] = 0,
         Limit["restart"] = 0, Limit["cards"] = 0
  PROVE  Spec => CirculatesOneToken
<1> DEFINE InBudget == \A k \in FaultKinds : faults[k] <= Limit[k]
<1>1. Init => InBudget /\ CrashesCounted
  BY LimitAssumption DEF Init, CrashesCounted, FaultKinds
<1>2. TypeOK /\ TypeOK' /\ InBudget /\ CrashesCounted /\ [Next]_vars
        => InBudget' /\ CrashesCounted'
  <2> SUFFICES ASSUME TypeOK, TypeOK', InBudget, CrashesCounted, [Next]_vars
               PROVE  InBudget' /\ CrashesCounted'
    OBVIOUS
  <2>1. InBudget'
    <3>1. PICK f \in FaultKinds : Occurs(f) \/ NoFault
      BY FaultsOccur
    <3>2. \A k \in FaultKinds : faults[k] \in Nat /\ Limit[k] \in Nat
      BY LimitAssumption DEF TypeOK
    <3>3. CASE Occurs(f)
      BY <3>1, <3>2, <3>3 DEF Occurs, TypeOK
    <3>4. CASE NoFault
      BY <3>4 DEF NoFault
    <3> QED
      BY <3>1, <3>3, <3>4
  <2>2. CrashesCounted'
    <3>1. /\ "crash" \in FaultKinds /\ faults'["crash"] >= faults["crash"]
          /\ faults["crash"] \in Nat /\ faults'["crash"] \in Nat
      BY FaultsGrow DEF FaultKinds, TypeOK
    <3>2. CASE UNCHANGED up
      BY <3>1, <3>2 DEF CrashesCounted, TypeOK
    <3>3. ASSUME NEW i \in Servers, Crash(i)
          PROVE  CrashesCounted'
      <4>1. up' = [up EXCEPT ![i] = FALSE] /\ up[i] /\ faults'["crash"] = faults["crash"] + 1
        BY <3>1, <3>3 DEF Crash, Occurs, TypeOK
      <4> QED
        BY <3>1, <4>1 DEF CrashesCounted, TypeOK
    <3>4. ASSUME NEW i \in Servers, Restart(i)
          PROVE  CrashesCounted'
      BY <3>1, <3>4 DEF Restart, CrashesCounted, TypeOK
    <3> QED
      BY <3>2, <3>3, <3>4, StepIsLocal DEF Next, vars
  <2> QED
    BY <2>1, <2>2
<1>3. TypeOK /\ InBudget /\ CrashesCounted => Mild
  <2> SUFFICES ASSUME TypeOK, InBudget, CrashesCounted PROVE Mild
    OBVIOUS
  <2>1. \A k \in FaultKinds : faults[k] \in Nat /\ faults[k] <= Limit[k] /\ Limit[k] \in Nat
    BY LimitAssumption DEF TypeOK
  <2>2. InTime /\ faults["late"] = 0
    BY <2>1 DEF InTime, Honest, FaultKinds
  <2>3. ~(faults["crash"] >= 2)
    BY <2>1 DEF FaultKinds
  <2>4. \A i \in Servers : Succ(i) \in Servers /\ Succ(i) # i
    BY LinksInRing, SuccIsOther
  <2> QED
    BY <2>2, <2>3, <2>4 DEF Mild, CrashesCounted
<1> QED
  BY <1>1, <1>2, <1>3, TypeCorrect, CirculatesWhileMild, PTL DEF Spec
=============================================================================
