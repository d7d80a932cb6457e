----------------------------- MODULE TokenRing -----------------------------
(***************************************************************************)
(* The token ring of the matchmaking service: the loop MatchmakingService. *)
(* Run of every server, the channel the HTTP handler feeds, the two timers *)
(* (leader watchdog, follower election), passTokenToNextServer with its    *)
(* retry and its skip of a dead successor, the bully election, and the     *)
(* monitor goroutines that put a skipped successor back in the ring.       *)
(*                                                                         *)
(* What the holder of the token does with it (packs, matches) is left to   *)
(* other modules: here the token is only present, absent or nil.  Servers  *)
(* are their indices in ALL_SERVERS.                                       *)
(***************************************************************************)
EXTENDS Integers, FiniteSets

CONSTANTS
  N,       \* the number of servers in ALL_SERVERS
  Limit,   \* Limit[k]: how many faults of kind k can happen (a bound of the model)
  Timely   \* TRUE: calls that are answered or refused take no time (see InTime)

Servers == 0 .. N - 1

(***************************************************************************)
(* "crash"   a server process stops; "restart": it is started again.       *)
(* "lost"    the POST of a token to a live server fails undelivered.       *)
(* "late"    the token is delivered but the 5 s timeout of the POST wins.  *)
(* "ping"    a live server does not answer a ping or health check in time. *)
(* "cards"   cards.json cannot be read, so no token can be regenerated.    *)
(***************************************************************************)
FaultKinds == {"crash", "restart", "lost", "late", "ping", "cards"}

ASSUME NAssumption == N \in Nat /\ N >= 2
ASSUME LimitAssumption == Limit \in [FaultKinds -> Nat]
ASSUME TimelyAssumption == Timely \in BOOLEAN

VARIABLES
  up,            \* the process runs
  isLeader,
  next,          \* nextServerAddress
  monitors,      \* how many monitorFailedNode goroutines are pinging
  tokenChan,     \* the channel of capacity 1: empty, a nil token or a token
  currentToken,  \* TRUE iff s.currentToken is not nil
  inject,        \* what the goroutine started by promoteToLeader still has to send
  pc,            \* where Run is
  regenerated,   \* Run is in the watchdog case, which ends with resetTimers
  scan,          \* the index the election pings next
  failed,        \* originalNextFailedNode
  watchdog, election,   \* the timers: off, armed, or fired (a tick in the channel)
  faults         \* how many faults of each kind have happened

links    == <<next, monitors>>
tokens   == <<tokenChan, currentToken, inject>>
control  == <<pc, regenerated, scan, failed>>
timers   == <<watchdog, election>>
vars     == <<up, isLeader, links, tokens, control, timers, faults>>

Slot   == {"empty", "nil", "token"}
Timer  == {"off", "armed", "fired"}
Points == {"select", "holding", "health", "retry", "dead", "relink", "repost", "elect"}

TypeOK ==
  /\ up \in [Servers -> BOOLEAN]
  /\ isLeader \in [Servers -> BOOLEAN]
  /\ next \in [Servers -> Servers]
  /\ monitors \in [Servers -> Nat]
  /\ tokenChan \in [Servers -> Slot]
  /\ currentToken \in [Servers -> BOOLEAN]
  /\ inject \in [Servers -> Slot]
  /\ pc \in [Servers -> Points]
  /\ regenerated \in [Servers -> BOOLEAN]
  /\ scan \in [Servers -> Servers]
  /\ failed \in [Servers -> Servers]
  /\ watchdog \in [Servers -> Timer]
  /\ election \in [Servers -> Timer]
  /\ faults \in [FaultKinds -> Nat]

Succ(i) == (i + 1) % N

\* Slip: the index is not taken modulo the number of servers.
SkipUnwrapped(i) == i + 2

\* Slip: the index goes one too far, past a server that may well run.
SkipTooFar(i) == (i + 3) % N

Skip(i) == (i + 2) % N

----------------------------------------------------------------------------
(* Helpers.                                                                *)

Occurs(k) == faults[k] < Limit[k] /\ faults' = [faults EXCEPT ![k] = @ + 1]
NoFault   == UNCHANGED faults

\* No server came back and no ping of a live server went unanswered so far.
Honest == faults["restart"] = 0 /\ faults["ping"] = 0

(* The durations hold what they are meant for.  Each server keeps the token  *)
(* 2 s, so a lap takes 2 N s; the watchdog runs out 5 N s after the leader   *)
(* last had it, the election timer after 10 N s.  One POST that is lost or   *)
(* late costs the 5 s of its timeout, which is less than the 3 N s left;    *)
(* two of them, a ping without an answer or a regeneration put off to the    *)
(* next watchdog may cost more.                                             *)
InTime == Honest /\ faults["lost"] + faults["late"] <= 1 /\ faults["cards"] = 0

GoTo(i, p) == pc' = [pc EXCEPT ![i] = p]

\* resetTimers of a server that is the leader, or not.
ResetTimers(i, lead) ==
  /\ watchdog' = [watchdog EXCEPT ![i] = IF lead THEN "armed" ELSE "off"]
  /\ election' = [election EXCEPT ![i] = IF lead THEN "off" ELSE "armed"]

\* Slip: the channel is made without its capacity of 1, so a token that arrives while
\* Run is busy is dropped.
EnqueueUnbuffered(t) ==
  tokenChan' = IF tokenChan[t] = "empty" /\ pc[t] = "select"
                 THEN [tokenChan EXCEPT ![t] = "token"] ELSE tokenChan

\* handleReceiveToken: a full channel drops the token, and the answer is 200 too.
Enqueue(t) ==
  tokenChan' = IF tokenChan[t] = "empty" THEN [tokenChan EXCEPT ![t] = "token"]
                                         ELSE tokenChan

\* The POST of the token to next[i] is answered; the sender clears its token.
PostAnswered(i) ==
  /\ up[next[i]]
  /\ NoFault
  /\ Enqueue(next[i])
  /\ currentToken' = [currentToken EXCEPT ![i] = FALSE]

\* The POST returns an error; the sender keeps its token.
PostFails(i) ==
  /\ \/ ~up[next[i]] /\ NoFault /\ UNCHANGED tokenChan
     \/ up[next[i]] /\ Occurs("lost") /\ UNCHANGED tokenChan
     \/ up[next[i]] /\ Occurs("late") /\ Enqueue(next[i])
  /\ UNCHANGED currentToken

\* A ping of server j gets no answer.
Unreachable(j) == IF up[j] THEN Occurs("ping") ELSE NoFault

\* regenerateAndSetToken: on an error the old currentToken, if any, stays.
Regenerate(i) ==
  \/ NoFault /\ currentToken' = [currentToken EXCEPT ![i] = TRUE]
  \/ Occurs("cards") /\ UNCHANGED currentToken

\* Slip: the case of the watchdog does not restart the timers at its end.
EndPassWithoutReset(i, w) ==
  /\ GoTo(i, "select")
  /\ regenerated' = [regenerated EXCEPT ![i] = FALSE]
  /\ watchdog' = w /\ UNCHANGED election
  /\ UNCHANGED <<scan, failed>>

\* passTokenToNextServer returns, with the watchdog left as w, to its case of Run.
EndPass(i, w) ==
  /\ GoTo(i, "select")
  /\ regenerated' = [regenerated EXCEPT ![i] = FALSE]
  /\ IF regenerated[i] THEN ResetTimers(i, isLeader[i])
                       ELSE watchdog' = w /\ UNCHANGED election
  /\ UNCHANGED <<scan, failed>>

(* The tokens that can still be used: a stale currentToken of a server that *)
(* waits in its select is overwritten before anybody reads it.              *)
Tokens ==
  {<<"loop", i>>   : i \in {j \in Servers : currentToken[j] /\ pc[j] \notin {"select", "elect"}}}
    \cup {<<"chan", i>>   : i \in {j \in Servers : tokenChan[j] = "token"}}
    \cup {<<"inject", i>> : i \in {j \in Servers : inject[j] = "token"}}

TokenAlive == Tokens # {}

\* The ring leads to i: a live server passes to it, or will once it skips a dead next.
OnRing(i) ==
  \E j \in Servers : up[j] /\ (next[j] = i \/ (~up[next[j]] /\ Skip(j) = i))

\* No token will come to i.
Starved(i) == ~TokenAlive \/ ~OnRing(i)

----------------------------------------------------------------------------
(* Run: receiving the token.                                               *)

\* Case 1: the token arrives, the timers restart, the queues are served.
ReceiveToken(i) ==
  /\ up[i] /\ pc[i] = "select" /\ tokenChan[i] # "empty"
  /\ currentToken' = [currentToken EXCEPT ![i] = tokenChan[i] = "token"]
  /\ tokenChan' = [tokenChan EXCEPT ![i] = "empty"]
  /\ ResetTimers(i, isLeader[i])
  /\ GoTo(i, "holding")
  /\ UNCHANGED <<up, isLeader, links, inject, regenerated, scan, failed, faults>>

\* passTokenToNextServer with a nil token.
NothingToPass(i) ==
  /\ up[i] /\ pc[i] = "holding" /\ ~currentToken[i]
  /\ EndPass(i, watchdog)
  /\ UNCHANGED <<up, isLeader, links, tokens, faults>>

FirstPostAnswered(i) ==
  /\ up[i] /\ pc[i] = "holding" /\ currentToken[i]
  /\ PostAnswered(i)
  /\ EndPass(i, watchdog)
  /\ UNCHANGED <<up, isLeader, links, inject>>

FirstPostFails(i) ==
  /\ up[i] /\ pc[i] = "holding" /\ currentToken[i]
  /\ PostFails(i)
  /\ GoTo(i, "health")
  /\ UNCHANGED <<up, isLeader, links, inject, timers, regenerated, scan, failed>>

\* The health check after a failed POST is answered: try the same server again.
HealthCheckAnswered(i) ==
  /\ up[i] /\ pc[i] = "health" /\ up[next[i]]
  /\ GoTo(i, "retry")
  /\ UNCHANGED <<up, isLeader, links, tokens, timers, regenerated, scan, failed, faults>>

HealthCheckFails(i) ==
  /\ up[i] /\ pc[i] = "health"
  /\ Unreachable(next[i])
  /\ GoTo(i, "dead")
  /\ UNCHANGED <<up, isLeader, links, tokens, timers, regenerated, scan, failed>>

\* Remember whom to skip.  This read of next and the write of it below are steps of their
\* own, because a monitor goroutine can write next before either of them.
NoteFailed(i) ==
  /\ up[i] /\ pc[i] = "dead"
  /\ failed' = [failed EXCEPT ![i] = next[i]]
  /\ GoTo(i, "relink")
  /\ UNCHANGED <<up, isLeader, links, tokens, timers, regenerated, scan, faults>>

Retry(i) ==
  /\ up[i] /\ pc[i] = "retry"
  /\ PostAnswered(i) \/ PostFails(i)
  /\ EndPass(i, watchdog)
  /\ UNCHANGED <<up, isLeader, links, inject>>

Relink(i) ==
  /\ up[i] /\ pc[i] = "relink"
  /\ next' = [next EXCEPT ![i] = Skip(i)]
  /\ GoTo(i, "repost")
  /\ UNCHANGED <<up, isLeader, monitors, tokens, timers, regenerated, scan, failed, faults>>

\* watchdogTimer.Reset without a drain: a tick already in the channel stays there.
Rearmed(i) == [watchdog EXCEPT ![i] = IF @ = "fired" THEN "fired" ELSE "armed"]

\* Slip: the monitor is given the replacement, nextServerAddress, in place of the failed node.
MonitorReplacement(i) ==
  monitors' = IF next[i] = Succ(i) THEN [monitors EXCEPT ![i] = @ + 1] ELSE monitors

\* go monitorFailedNode(failed): it gives up unless the failed node is the original next.
StartMonitor(i) ==
  monitors' = IF failed[i] = Succ(i) THEN [monitors EXCEPT ![i] = @ + 1] ELSE monitors

\* The POST to the replacement; answered or not, the watchdog is restarted, on a
\* follower too, and a monitor of the failed node started.
Repost(i) ==
  /\ up[i] /\ pc[i] = "repost"
  /\ PostAnswered(i) \/ PostFails(i)
  /\ EndPass(i, Rearmed(i))
  /\ StartMonitor(i)
  /\ UNCHANGED <<up, isLeader, next, inject>>

----------------------------------------------------------------------------
(* Run: the timers.                                                        *)

\* A leader the token can reach gets it before, and restarts the timer.
ExpireWatchdog(i) ==
  /\ up[i] /\ watchdog[i] = "armed"
  /\ Timely /\ InTime => Starved(i)
  /\ watchdog' = [watchdog EXCEPT ![i] = "fired"]
  /\ UNCHANGED <<up, isLeader, links, tokens, control, election, faults>>

\* The election timer takes twice as long as the watchdog, "para dar tempo ao lider de
\* regenerar o token".  That is time enough for server 1: the first leader posts what it
\* regenerates to it, at most 7 N + 5 s after server 1 last had the token.  The servers
\* after it may wait longer, if that token is lost too.
ExpireElection(i) ==
  /\ up[i] /\ election[i] = "armed"
  /\ Timely /\ InTime /\ i = 1 => Starved(i) /\ ~(up[0] /\ next[0] = i)
  /\ election' = [election EXCEPT ![i] = "fired"]
  /\ UNCHANGED <<up, isLeader, links, tokens, control, watchdog, faults>>

\* Case 2, not the leader: a tick left by the Reset of Repost.
SpuriousWatchdog(i) ==
  /\ up[i] /\ pc[i] = "select" /\ watchdog[i] = "fired" /\ ~isLeader[i]
  /\ ResetTimers(i, FALSE)
  /\ UNCHANGED <<up, isLeader, links, tokens, control, faults>>

\* Case 2 on the leader: regenerate the token, serve the queues and pass it on.  The
\* health check before it only chooses a log line.
LeaderWatchdog(i) ==
  /\ up[i] /\ pc[i] = "select" /\ watchdog[i] = "fired" /\ isLeader[i]
  /\ watchdog' = [watchdog EXCEPT ![i] = "off"]
  /\ Regenerate(i)
  /\ regenerated' = [regenerated EXCEPT ![i] = TRUE]
  /\ GoTo(i, "holding")
  /\ UNCHANGED <<up, isLeader, links, tokenChan, inject, scan, failed, election>>

\* Slip: the scan of the higher-priority servers starts at 1.
ElectionSkipsFirst(i) ==
  /\ up[i] /\ pc[i] = "select" /\ election[i] = "fired" /\ ~isLeader[i]
  /\ election' = [election EXCEPT ![i] = "off"]
  /\ scan' = [scan EXCEPT ![i] = 1]
  /\ GoTo(i, "elect")
  /\ UNCHANGED <<up, isLeader, links, tokens, regenerated, failed, watchdog, faults>>

\* Case 3 on a follower: start the election.
ElectionTimeout(i) ==
  /\ up[i] /\ pc[i] = "select" /\ election[i] = "fired" /\ ~isLeader[i]
  /\ election' = [election EXCEPT ![i] = "off"]
  /\ scan' = [scan EXCEPT ![i] = 0]
  /\ GoTo(i, "elect")
  /\ UNCHANGED <<up, isLeader, links, tokens, regenerated, failed, watchdog, faults>>

\* A server of higher priority answers the ping: wait for it to lead.
HigherAnswers(i) ==
  /\ up[i] /\ pc[i] = "elect" /\ scan[i] < i /\ up[scan[i]]
  /\ ResetTimers(i, isLeader[i])
  /\ GoTo(i, "select")
  /\ UNCHANGED <<up, isLeader, links, tokens, regenerated, scan, failed, faults>>

HigherSilent(i) ==
  /\ up[i] /\ pc[i] = "elect" /\ scan[i] < i
  /\ Unreachable(scan[i])
  /\ scan' = [scan EXCEPT ![i] = @ + 1]
  /\ UNCHANGED <<up, isLeader, links, tokens, pc, regenerated, failed, timers>>

\* Slip: the new leader goes on to use the token it has just injected.
PromoteAndHold(i) ==
  /\ up[i] /\ pc[i] = "elect" /\ scan[i] = i
  /\ isLeader' = [isLeader EXCEPT ![i] = TRUE]
  /\ ResetTimers(i, TRUE)
  /\ Regenerate(i)
  /\ inject' = [inject EXCEPT ![i] = IF currentToken'[i] THEN "token" ELSE "nil"]
  /\ GoTo(i, "holding")
  /\ UNCHANGED <<up, links, tokenChan, regenerated, scan, failed>>

\* Slip: the flag is set after the timers were reset, so the election timer runs on.
PromoteAfterReset(i) ==
  /\ up[i] /\ pc[i] = "elect" /\ scan[i] = i
  /\ isLeader' = [isLeader EXCEPT ![i] = TRUE]
  /\ ResetTimers(i, isLeader[i])
  /\ Regenerate(i)
  /\ inject' = [inject EXCEPT ![i] = IF currentToken'[i] THEN "token" ELSE "nil"]
  /\ GoTo(i, "select")
  /\ UNCHANGED <<up, links, tokenChan, regenerated, scan, failed>>

\* promoteToLeader: nobody of higher priority answered.
Promote(i) ==
  /\ up[i] /\ pc[i] = "elect" /\ scan[i] = i
  /\ isLeader' = [isLeader EXCEPT ![i] = TRUE]
  /\ ResetTimers(i, TRUE)
  /\ Regenerate(i)
  /\ inject' = [inject EXCEPT ![i] = IF currentToken'[i] THEN "token" ELSE "nil"]
  /\ GoTo(i, "select")
  /\ UNCHANGED <<up, links, tokenChan, regenerated, scan, failed>>

----------------------------------------------------------------------------
(* The other goroutines, and the faults.                                   *)

\* The goroutine of promoteToLeader sends into the server's own channel.
Inject(i) ==
  /\ up[i] /\ inject[i] # "empty" /\ tokenChan[i] = "empty"
  /\ tokenChan' = [tokenChan EXCEPT ![i] = inject[i]]
  /\ inject' = [inject EXCEPT ![i] = "empty"]
  /\ UNCHANGED <<up, isLeader, links, currentToken, control, timers, faults>>

\* Slip: the monitor goes on pinging after it has put the original next back.
MonitorStays(i) ==
  /\ up[i] /\ monitors[i] > 0 /\ up[Succ(i)]
  /\ next' = [next EXCEPT ![i] = Succ(i)]
  /\ UNCHANGED <<up, isLeader, monitors, tokens, control, timers, faults>>

\* A monitor's ping of the original next is answered: put it back and end.
MonitorRestores(i) ==
  /\ up[i] /\ monitors[i] > 0 /\ up[Succ(i)]
  /\ next' = [next EXCEPT ![i] = Succ(i)]
  /\ monitors' = [monitors EXCEPT ![i] = @ - 1]
  /\ UNCHANGED <<up, isLeader, tokens, control, timers, faults>>

\* The process stops; what it kept in memory is gone, so its variables take the
\* values NewService and Run give them at the next start.
Crash(i) ==
  /\ up[i] /\ Occurs("crash")
  /\ up' = [up EXCEPT ![i] = FALSE]
  /\ isLeader' = [isLeader EXCEPT ![i] = i = 0]
  /\ next' = [next EXCEPT ![i] = Succ(i)]
  /\ monitors' = [monitors EXCEPT ![i] = 0]
  /\ tokenChan' = [tokenChan EXCEPT ![i] = "empty"]
  /\ currentToken' = [currentToken EXCEPT ![i] = FALSE]
  /\ inject' = [inject EXCEPT ![i] = "empty"]
  /\ GoTo(i, "select")
  /\ regenerated' = [regenerated EXCEPT ![i] = FALSE]
  /\ scan' = [scan EXCEPT ![i] = 0]
  /\ failed' = [failed EXCEPT ![i] = 0]
  /\ ResetTimers(i, i = 0)

Restart(i) ==
  /\ ~up[i] /\ Occurs("restart")
  /\ up' = [up EXCEPT ![i] = TRUE]
  /\ UNCHANGED <<isLeader, links, tokens, control, timers>>

----------------------------------------------------------------------------
(* The specification.                                                      *)

\* Server 0 leads and nobody holds a token: the first watchdog creates it.
Init ==
  /\ up = [i \in Servers |-> TRUE]
  /\ isLeader = [i \in Servers |-> i = 0]
  /\ next = [i \in Servers |-> Succ(i)]
  /\ monitors = [i \in Servers |-> 0]
  /\ tokenChan = [i \in Servers |-> "empty"]
  /\ currentToken = [i \in Servers |-> FALSE]
  /\ inject = [i \in Servers |-> "empty"]
  /\ pc = [i \in Servers |-> "select"]
  /\ regenerated = [i \in Servers |-> FALSE]
  /\ scan = [i \in Servers |-> 0]
  /\ failed = [i \in Servers |-> 0]
  /\ watchdog = [i \in Servers |-> IF i = 0 THEN "armed" ELSE "off"]
  /\ election = [i \in Servers |-> IF i = 0 THEN "off" ELSE "armed"]
  /\ faults = [k \in FaultKinds |-> 0]

Pass(i) ==
  \/ NothingToPass(i)
  \/ FirstPostAnswered(i) \/ FirstPostFails(i)
  \/ HealthCheckAnswered(i) \/ HealthCheckFails(i) \/ NoteFailed(i)
  \/ Retry(i) \/ Relink(i) \/ Repost(i)

TimerCase(i) ==
  \/ SpuriousWatchdog(i) \/ LeaderWatchdog(i)
  \/ ElectionTimeout(i) \/ HigherAnswers(i) \/ HigherSilent(i) \/ Promote(i)

Run(i)  == ReceiveToken(i) \/ Pass(i) \/ TimerCase(i)
Step(i) == Run(i) \/ ExpireWatchdog(i) \/ ExpireElection(i) \/ Inject(i) \/ MonitorRestores(i)

Next == \E i \in Servers : Step(i) \/ Crash(i) \/ Restart(i)

Spec == Init /\ [][Next]_vars

(***************************************************************************)
(* The goroutines and timers of a live server keep running.  A select with *)
(* several ready cases chooses at random, so a case that is ready again    *)
(* and again is taken: strong fairness of each case.  A timer is bound to  *)
(* run out only on a server that no token can reach: anybody else may      *)
(* restart it for ever before it does.  Faults are not fair.               *)
(***************************************************************************)
Fairness ==
  \A i \in Servers :
    /\ WF_vars(Pass(i)) /\ WF_vars(TimerCase(i))
    /\ SF_vars(ReceiveToken(i))
    /\ WF_vars(Starved(i) /\ ExpireWatchdog(i))
    /\ WF_vars(Starved(i) /\ ExpireElection(i))
    /\ WF_vars(Inject(i)) /\ WF_vars(MonitorRestores(i))

FairSpec == Spec /\ Fairness

----------------------------------------------------------------------------
(* Properties.                                                             *)

(* The election is a bully election on the index: as long as the faults are *)
(* Honest, every server of a higher priority than a live leader is down.    *)
(* In particular two live leaders never coexist, although the code never    *)
(* takes the role back from a server.                                        *)
LeaderIsLowestAlive ==
  Honest =>
    \A j \in Servers : up[j] /\ isLeader[j] => \A i \in Servers : i < j => ~up[i]

(* A leader never has its election timer running and never holds an old    *)
(* tick of it: the branch of Run for an election timeout on a leader, which *)
(* the code keeps for a promotion that races the timer, is never taken.     *)
LeaderHasNoElection ==
  \A i \in Servers : isLeader[i] => election[i] = "off" /\ pc[i] # "elect"

(* Skipping a dead successor again and again never piles up monitors, and a *)
(* successor that is being monitored is out of the ring meanwhile.          *)
OneMonitor ==
  \A i \in Servers : monitors[i] <= 1 /\ (monitors[i] = 1 => next[i] = Skip(i))

(* At most one token can be used at a time: nobody regenerates a token while *)
(* the old one is still on its way, and no step copies it.                  *)
OneToken == Cardinality(Tokens) <= 1

(* A server whose ring link bypasses its successor is either about to start  *)
(* the monitor that will put it back or runs that monitor.                   *)
SkippedIsMonitored ==
  \A i \in Servers :
    next[i] # Succ(i) => monitors[i] = 1 \/ (pc[i] = "repost" /\ failed[i] = Succ(i))

(* Until a server comes back or a ping of a live one is lost, that is so: a *)
(* node is skipped only by a server that goes on to monitor it, also if the *)
(* replacement of a skipped node is found dead and skipped in turn.          *)
SkippedIsMonitoredAtFirst == Honest => SkippedIsMonitored

(* A token on its way ends only with a fault or with a pass whose second     *)
(* POST fails too (the token is then retained and never used).  In particular *)
(* the drop of handleReceiveToken on a full channel, which the sender takes  *)
(* for a success, does not lose it.                                           *)
TokenSurvives ==
  [][TokenAlive /\ NoFault =>
       TokenAlive' \/ \E i \in Servers : pc[i] \in {"retry", "repost"} /\ currentToken'[i]]_vars

\* The servers that have a usable token.
Holders == {t[2] : t \in Tokens}

Ring == INSTANCE SingleToken WITH live <- {i \in Servers : up[i]}, at <- Holders

(* With one server that stops and one POST that is lost at most, and while *)
(* calls take no time but for that one, the loops, channels, injections and  *)
(* monitors implement a single token, which visits the live servers in the   *)
(* order of the ring and is made anew by the first of them, only after it    *)
(* got lost.                                                                  *)
CirculatesOneToken == Ring!Spec

(* Every server that stays up serves its queues again and again, whatever  *)
(* tokens are lost: the ring heals itself.                                   *)
EveryServerServed ==
  \A i \in Servers : []<>(~up[i] \/ pc[i] = "holding")

----------------------------------------------------------------------------
(* What makes the properties inductive.                                     *)

\* An election has found every server it has scanned so far down.
ScannedAreDown ==
  Honest =>
    \A j \in Servers : up[j] /\ pc[j] = "elect" =>
      \A i \in Servers : i < scan[j] => ~up[i]

\* While a server goes through the skip of its original successor, no monitor of that
\* successor runs yet, and after the relink the link is the replacement.
SkipInProgress ==
  \A i \in Servers : pc[i] \in {"relink", "repost"} /\ failed[i] = Succ(i) =>
    monitors[i] = 0 /\ (pc[i] = "repost" => next[i] = Skip(i))

\* A server that is down is as it will be when it starts again.
DownIsReset ==
  \A i \in Servers : ~up[i] =>
    /\ next[i] = Succ(i) /\ monitors[i] = 0
    /\ tokenChan[i] = "empty" /\ ~currentToken[i] /\ inject[i] = "empty"
    /\ pc[i] = "select" /\ watchdog[i] # "fired" /\ election[i] # "fired"

\* A server bypasses its successor, or is about to, only if that is down.
BypassedIsDown ==
  \A i \in Servers :
    /\ next[i] # Succ(i) => next[i] = Skip(i) /\ ~up[Succ(i)]
    /\ pc[i] \in {"dead", "relink"} => ~up[Succ(i)]
    /\ pc[i] = "relink" /\ failed[i] # Succ(i) => next[i] # Succ(i)

\* A server that goes on to post has what it posts.
PostsItsToken ==
  \A i \in Servers : pc[i] \in {"health", "retry", "dead", "relink", "repost"} => currentToken[i]

\* The faults so far are mild: they leave the timers their slack, nothing was late, and no
\* two neighbours are down.
Mild == InTime /\ faults["late"] = 0 /\ \A i \in Servers : up[i] \/ up[Succ(i)]

\* Server 0 leads whenever it is up.  Server 1, the first one after it, has an election
\* only after it stopped, and only while there is no token.
FirstLeads ==
  /\ isLeader[0]
  /\ election[1] = "fired" \/ pc[1] = "elect" => ~up[0] /\ ~TokenAlive

\* The watchdog of a leader has run out only if there is no token.
WatchdogIsRight ==
  \A i \in Servers : up[i] /\ isLeader[i] /\ watchdog[i] = "fired" => ~TokenAlive

OneAtMost == \A s, t \in Tokens : s = t

\* What makes OneToken inductive, beside the election, the monitors and the types.
RingInv ==
  /\ DownIsReset /\ PostsItsToken
  /\ Honest => BypassedIsDown
  /\ Mild => FirstLeads /\ WatchdogIsRight /\ OneAtMost
=============================================================================
