---------------------------- MODULE Matchmaking ----------------------------
(***************************************************************************)
(* Pairing players: the queue of each server, processMatchmakingQueue of   *)
(* the server whose turn it is, the two calls to another server with which *)
(* findAndCreateDistributedMatch looks for an opponent and asks for the    *)
(* match, and the players who ask for a match and leave meanwhile.         *)
(*                                                                         *)
(* Every method of StateManager holds sm.mu throughout and is one step;    *)
(* everything else may happen between two of them.  A token gives a server *)
(* its turn.  Of what TokenRing shows can happen to it only the duplicate  *)
(* is kept, which lets two servers have their turn at once.  The cards of  *)
(* a match make no difference to the pairing, nor does QUEUED, which the    *)
(* dispatcher publishes after the player is in the queue: a match made     *)
(* meanwhile may be announced before it.                                    *)
(***************************************************************************)
EXTENDS Integers, SequencesExt

CONSTANTS
  N,         \* the number of servers
  Players,
  NoPlayer,
  Home,      \* the server each player is connected to
  MaxAsks,   \* bound: how often FIND_MATCH is sent
  MaxFails   \* bound: how many calls to other servers fail or time out

Servers == 0 .. N - 1

ASSUME NAssumption == N \in Nat /\ N >= 2
ASSUME HomeAssumption == Home \in [Players -> Servers]
ASSUME NoPlayerAssumption == NoPlayer \notin Players
ASSUME BoundsAssumption == MaxAsks \in Nat /\ MaxFails \in Nat

VARIABLES
  conn,      \* PlayersOnline: who is connected
  asks,      \* how often FIND_MATCH has been sent
  asking,    \* whose FIND_MATCH is on its way to the dispatcher
  orderly,   \* history: nobody who waited or played has asked again, and no POST was late
  seeks,     \* history: who was put into the queue and has not had an answer since
  queue,     \* MatchmakingQueue of each server
  matches,   \* ActiveMatches of each server
  turn,      \* the token is in the channel of the server
  pc,        \* where processMatchmakingQueue of each server is
  job,       \* the match it is making
  search,    \* the servers it still has to search
  late,      \* POSTs of request-match whose sender has given up
  agreed,    \* the matches confirmed by the guest's server so far
  made,      \* how many match ids have been given out
  fails

players == <<conn, asks, asking, orderly>>
service == <<turn, pc, job, search>>
vars    == <<players, seeks, queue, matches, service, late, agreed, made, fails>>

Match == [id : Nat, p1 : Players, p2 : Players]
Pair(n, p, q) == [id |-> n, p1 |-> p, p2 |-> q]

\* A match that is being made may have no second player, or none at all.
Jobs == [id : Nat, p1 : Players \cup {NoPlayer}, p2 : Players \cup {NoPlayer}]
NoJob == Pair(0, NoPlayer, NoPlayer)

Places == {"away", "queue", "remove", "create", "find", "request", "drop",
           "leave queue", "host", "notify", "pass"}

\* A queue holds players of its server, each of them once.
QueuedOnce ==
  \A s \in Servers :
    IsInjective(queue[s]) /\ Range(queue[s]) \subseteq {p \in Players : Home[p] = s}

TypeOK ==
  /\ conn \in [Players -> {"online", "gone"}]
  /\ asks \in 0 .. MaxAsks
  /\ asking \subseteq Players
  /\ orderly \in BOOLEAN
  /\ seeks \subseteq Players
  /\ queue \in [Servers -> Seq(Players)]
  /\ QueuedOnce
  /\ matches \in [Servers -> SUBSET Match]
  /\ turn \in [Servers -> BOOLEAN]
  /\ pc \in [Servers -> Places]
  /\ job \in [Servers -> Jobs]
  /\ search \in [Servers -> SUBSET Servers] /\ \A s \in Servers : s \notin search[s]
  /\ late \subseteq Match
  /\ agreed \subseteq Match
  /\ made \in Nat
  /\ fails \in 0 .. MaxFails

Succ(s) == (s + 1) % N
GoTo(s, p) == pc' = [pc EXCEPT ![s] = p]

Plays(p, m) == p \in {m.p1, m.p2}
Online(p) == conn[p] = "online"

\* The matches a player plays, as the player's own server knows them.
MatchesOf(p) == {m \in matches[Home[p]] : Plays(p, m)}

\* RemovePlayersFromQueue, and the removal from the queue in CleanupPlayer.  The latter
\* takes away the first entry of the player and the former all of them; there is one at
\* most, since AddPlayerToQueue adds nobody twice (QueuedOnce).
Without(q, p) == RemoveFirst(q, p)

\* A server fails to answer a call in time.
CallFails == fails < MaxFails /\ fails' = fails + 1

----------------------------------------------------------------------------
(* The players.                                                            *)

SendFindMatch(p) ==
  /\ Online(p) /\ asks < MaxAsks /\ p \notin asking
  /\ asks' = asks + 1
  /\ asking' = asking \cup {p}
  /\ orderly' = (orderly /\ p \notin seeks /\ MatchesOf(p) = {})
  /\ UNCHANGED <<conn, seeks, queue, matches, service, late, agreed, made, fails>>

\* Slip: a player who is in the queue already is added again.
AddAgain(p) == queue' = [queue EXCEPT ![Home[p]] = Append(@, p)]

\* AddPlayerToQueue: whether the player still is online, or plays, is not looked at.
AddPlayerToQueue(p) ==
  queue' = IF p \in Range(queue[Home[p]]) THEN queue
                                          ELSE [queue EXCEPT ![Home[p]] = Append(@, p)]

\* AddPlayerToQueue by handleFindMatch on the dispatcher, maybe after the player has left.
HandleFindMatch(p) ==
  /\ p \in asking
  /\ asking' = asking \ {p}
  /\ AddPlayerToQueue(p)
  /\ seeks' = IF Online(p) THEN seeks \cup {p} ELSE seeks
  /\ UNCHANGED <<conn, asks, orderly, matches, service, late, agreed, made, fails>>

\* CleanupPlayer: the player leaves the queue and one match of this server, the first
\* one found in the map.
CleanupPlayer(p) ==
  /\ Online(p)
  /\ conn' = [conn EXCEPT ![p] = "gone"]
  /\ queue' = [queue EXCEPT ![Home[p]] = Without(@, p)]
  /\ IF MatchesOf(p) = {} THEN UNCHANGED matches
     ELSE \E m \in MatchesOf(p) : matches' = [matches EXCEPT ![Home[p]] = @ \ {m}]
  /\ UNCHANGED <<asks, asking, orderly, seeks, service, late, agreed, made, fails>>

\* A match is over: monitorMatch removes it, which the server of its first player alone
\* has started.  The guest's server keeps a match that is over.
RemoveMatch(s, m) ==
  /\ m \in matches[s] /\ Home[m.p1] = s
  /\ matches' = [matches EXCEPT ![s] = @ \ {m}]
  /\ UNCHANGED <<players, seeks, queue, service, late, agreed, made, fails>>

----------------------------------------------------------------------------
(* The turn of a server: processMatchmakingQueue.                          *)

\* Slip: a server processes its queue without having the token.
ProcessUnasked(s) ==
  /\ pc[s] = "away"
  /\ GoTo(s, "queue")
  /\ UNCHANGED <<players, seeks, queue, matches, turn, job, search, late, agreed, made, fails>>

ReceiveToken(s) ==
  /\ turn[s] /\ pc[s] = "away"
  /\ turn' = [turn EXCEPT ![s] = FALSE]
  /\ GoTo(s, "queue")
  /\ UNCHANGED <<players, seeks, queue, matches, job, search, late, agreed, made, fails>>

\* Slip: two players in the queue are not enough.
MoreThanTwo(q) == Len(q) > 2

TwoWait(q) == Len(q) >= 2

\* Slip: the server's own address is not left out of the search.
AllServers(s) == Servers

Others(s) == Servers \ {s}

\* GetMatchmakingQueueSnapshot: two players are matched here, one is offered elsewhere.
TakeSnapshot(s) ==
  /\ pc[s] = "queue"
  /\ \/ /\ TwoWait(queue[s])
        /\ job' = [job EXCEPT ![s] = Pair(0, queue[s][1], queue[s][2])]
        /\ GoTo(s, "remove")
        /\ UNCHANGED search
     \/ /\ Len(queue[s]) = 1
        /\ job' = [job EXCEPT ![s] = Pair(0, queue[s][1], NoPlayer)]
        /\ search' = [search EXCEPT ![s] = Others(s)]
        /\ GoTo(s, "find")
     \/ /\ ~TwoWait(queue[s]) /\ Len(queue[s]) # 1
        /\ GoTo(s, "pass")
        /\ UNCHANGED <<job, search>>
  /\ UNCHANGED <<players, seeks, queue, matches, turn, late, agreed, made, fails>>

RemovePair(s) ==
  /\ pc[s] = "remove"
  /\ queue' = [queue EXCEPT ![s] = Without(Without(@, job[s].p1), job[s].p2)]
  /\ GoTo(s, "create")
  /\ UNCHANGED <<players, seeks, matches, turn, job, search, late, agreed, made, fails>>

\* createMatchWithTokenCards, or CreateLocalMatch without the token.
CreateLocalMatch(s) ==
  /\ pc[s] = "create"
  /\ LET m == Pair(made + 1, job[s].p1, job[s].p2)
     IN  /\ job' = [job EXCEPT ![s] = m]
         /\ matches' = [matches EXCEPT ![s] = @ \cup {m}]
  /\ made' = made + 1
  /\ GoTo(s, "notify")
  /\ UNCHANGED <<players, seeks, queue, turn, search, late, agreed, fails>>

\* MATCH_FOUND reaches the players of this server; a message to any other player has no
\* subscriber here.
NotifyPlayersOfMatch(s) ==
  /\ pc[s] = "notify"
  /\ seeks' = seeks \ {p \in Players : Plays(p, job[s]) /\ Home[p] = s}
  /\ GoTo(s, "pass")
  /\ UNCHANGED <<players, queue, matches, turn, job, search, late, agreed, made, fails>>

PassToken(s) ==
  /\ pc[s] = "pass"
  /\ turn' = [turn EXCEPT ![Succ(s)] = TRUE]
  /\ job' = [job EXCEPT ![s] = NoJob]
  /\ search' = [search EXCEPT ![s] = {}]
  /\ GoTo(s, "away")
  /\ UNCHANGED <<players, seeks, queue, matches, late, agreed, made, fails>>

\* The POST of the token arrives but times out: the sender keeps a token and sends it again.
PassTokenLate(s) ==
  /\ pc[s] = "pass"
  /\ CallFails
  /\ turn' = [turn EXCEPT ![Succ(s)] = TRUE]
  /\ orderly' = FALSE
  /\ UNCHANGED <<conn, asks, asking, seeks, queue, matches, pc, job, search, late, agreed, made>>

----------------------------------------------------------------------------
(* A match with a player of another server: findAndCreateDistributedMatch. *)

\* The server searched next: they are asked in the order of ALL_SERVERS.
IsNext(s, t) == t \in search[s] /\ \A u \in search[s] : t <= u

\* GET find-opponent: the first player of the queue of t.
FindOpponent(s, t) ==
  /\ pc[s] = "find" /\ IsNext(s, t) /\ queue[t] # <<>>
  /\ job' = [job EXCEPT ![s] = Pair(made + 1, job[s].p1, Head(queue[t]))]
  /\ made' = made + 1
  /\ GoTo(s, "request")
  /\ UNCHANGED <<players, seeks, queue, matches, turn, search, late, agreed, fails>>

\* Nobody waits at t, or t does not answer: on to the next server.
FindNobody(s, t) ==
  /\ pc[s] = "find" /\ IsNext(s, t)
  /\ \/ queue[t] = <<>> /\ UNCHANGED fails
     \/ CallFails
  /\ search' = [search EXCEPT ![s] = @ \ {t}]
  /\ UNCHANGED <<players, seeks, queue, matches, turn, pc, job, late, agreed, made>>

SearchEnds(s) ==
  /\ pc[s] = "find" /\ search[s] = {}
  /\ GoTo(s, "pass")
  /\ UNCHANGED <<players, seeks, queue, matches, turn, job, search, late, agreed, made, fails>>

\* The guest is still the first one of the queue of its server.
Available(m) ==
  LET q == queue[Home[m.p2]] IN q # <<>> /\ Head(q) = m.p2

\* ConfirmAndCreateDistributedMatchWithCards and MATCH_FOUND to the guest.
Confirm(m) ==
  LET t == Home[m.p2]
  IN  /\ queue' = [queue EXCEPT ![t] = Tail(@)]
      /\ matches' = [matches EXCEPT ![t] = @ \cup {m}]
      /\ agreed' = agreed \cup {m}
      /\ seeks' = seeks \ {m.p2}

Reject == UNCHANGED <<queue, matches, agreed, seeks>>

\* Slip: only err is looked at, not the status of the answer, so 409 is taken for a yes.
StatusIgnored(s) ==
  /\ pc[s] = "request"
  /\ IF Available(job[s]) THEN Confirm(job[s]) ELSE Reject
  /\ GoTo(s, "leave queue")
  /\ UNCHANGED <<players, turn, job, search, late, made, fails>>

\* POST request-match, and its answer in time.
RequestMatch(s) ==
  /\ pc[s] = "request"
  /\ IF Available(job[s]) THEN Confirm(job[s]) /\ GoTo(s, "leave queue")
                          ELSE Reject /\ GoTo(s, "drop")
  /\ UNCHANGED <<players, turn, job, search, late, made, fails>>

\* The POST is lost, or handled only after its sender has given up.
RequestFails(s) ==
  /\ pc[s] = "request"
  /\ CallFails
  /\ \/ UNCHANGED <<late, orderly>>
     \/ late' = late \cup {job[s]} /\ orderly' = FALSE
  /\ GoTo(s, "drop")
  /\ UNCHANGED <<conn, asks, asking, seeks, queue, matches, turn, job, search, agreed, made>>

HandleLateRequest(m) ==
  /\ m \in late
  /\ late' = late \ {m}
  /\ IF Available(m) THEN Confirm(m) ELSE Reject
  /\ UNCHANGED <<players, service, made, fails>>

\* Slip: the host is taken from the queue and not told.
DropSilently(s) ==
  /\ pc[s] = "drop"
  /\ queue' = [queue EXCEPT ![s] = Without(@, job[s].p1)]
  /\ GoTo(s, "pass")
  /\ UNCHANGED <<players, seeks, matches, turn, job, search, late, agreed, made, fails>>

\* MATCH_SETUP_FAILED: the host leaves the queue and has to ask again.
DropHost(s) ==
  /\ pc[s] = "drop"
  /\ queue' = [queue EXCEPT ![s] = Without(@, job[s].p1)]
  /\ seeks' = seeks \ {job[s].p1}
  /\ GoTo(s, "pass")
  /\ UNCHANGED <<players, matches, turn, job, search, late, agreed, made, fails>>

RemoveHost(s) ==
  /\ pc[s] = "leave queue"
  /\ queue' = [queue EXCEPT ![s] = Without(@, job[s].p1)]
  /\ GoTo(s, "host")
  /\ UNCHANGED <<players, seeks, matches, turn, job, search, late, agreed, made, fails>>

\* CreateDistributedMatchAsHostWithCards, which refuses a host who has left.
CreateDistributedMatchAsHost(s) ==
  /\ pc[s] = "host"
  /\ IF Online(job[s].p1)
       THEN matches' = [matches EXCEPT ![s] = @ \cup {job[s]}] /\ GoTo(s, "notify")
       ELSE UNCHANGED matches /\ GoTo(s, "pass")
  /\ UNCHANGED <<players, seeks, queue, turn, job, search, late, agreed, made, fails>>

----------------------------------------------------------------------------
(* The specification.                                                      *)

Init ==
  /\ conn = [p \in Players |-> "online"]
  /\ asks = 0
  /\ asking = {}
  /\ orderly = TRUE
  /\ seeks = {}
  /\ queue = [s \in Servers |-> <<>>]
  /\ matches = [s \in Servers |-> {}]
  /\ turn = [s \in Servers |-> s = 0]
  /\ pc = [s \in Servers |-> "away"]
  /\ job = [s \in Servers |-> NoJob]
  /\ search = [s \in Servers |-> {}]
  /\ late = {}
  /\ agreed = {}
  /\ made = 0
  /\ fails = 0

Distribute(s) ==
  \/ \E t \in Servers : FindOpponent(s, t) \/ FindNobody(s, t)
  \/ SearchEnds(s) \/ RequestMatch(s) \/ RequestFails(s) \/ DropHost(s)
  \/ RemoveHost(s) \/ CreateDistributedMatchAsHost(s)

ProcessMatchmakingQueue(s) ==
  \/ TakeSnapshot(s) \/ RemovePair(s) \/ CreateLocalMatch(s) \/ Distribute(s)
  \/ NotifyPlayersOfMatch(s)

Run(s) == ReceiveToken(s) \/ ProcessMatchmakingQueue(s) \/ PassToken(s) \/ PassTokenLate(s)

Next ==
  \/ \E p \in Players : SendFindMatch(p) \/ HandleFindMatch(p) \/ CleanupPlayer(p)
  \/ \E s \in Servers : Run(s) \/ \E m \in matches[s] : RemoveMatch(s, m)
  \/ \E m \in late : HandleLateRequest(m)

Spec == Init /\ [][Next]_vars

\* The loop of each server goes on; players, dispatchers and faults are free.
Fairness == \A s \in Servers : WF_vars(Run(s))

FairSpec == Spec /\ Fairness

----------------------------------------------------------------------------
(* Properties.                                                             *)

(* However often a player asks, and whoever is in a queue when, nobody is  *)
(* matched with themselves.                                                 *)
NotAgainstOneself == \A s \in Servers : \A m \in matches[s] : m.p1 # m.p2

(* A server makes its half of a match with a player of another server only *)
(* after that server has made the other half, with the same two players.    *)
HostAfterGuest ==
  \A s \in Servers : \A m \in matches[s] : Home[m.p2] # s => m \in agreed

\* The player is in the hands of the loop of its server.
InHand(p) ==
  LET s == Home[p]
  IN  Plays(p, job[s]) /\ pc[s] \in {"create", "host", "notify"}

(* A player who has been put into the queue, has had no MATCH_FOUND and no   *)
(* MATCH_SETUP_FAILED since and is still there waits in the queue or is      *)
(* being matched: nobody drops out of the queue without an answer.           *)
NobodyForgotten ==
  \A p \in seeks : Online(p) => p \in Range(queue[Home[p]]) \/ InHand(p)

Queued(p) == p \in Range(queue[Home[p]])

(* The problem description asks for "pareamento único" across the servers: *)
(* a player is in one match at most, and not in the queue meanwhile.  The   *)
(* queues are read, searched and changed by different servers in separate  *)
(* steps; it is the one token that keeps them apart.  So it holds until a   *)
(* late POST has duplicated the token or been handled after its sender gave *)
(* up, or a player has asked again while waiting or in a match that the      *)
(* player's server knows, be it over.                                        *)
UniquePairing ==
  orderly => \A p \in Players :
    /\ Cardinality(MatchesOf(p)) <= 1
    /\ Queued(p) => MatchesOf(p) = {}

(* Two players who wait, wherever they are, do not wait forever: one of     *)
(* them leaves the queue, as long as the calls between servers succeed.     *)
WaitersMeet ==
  \A two \in kSubset(2, Players) : (\A p \in two : Queued(p)) ~> (\E p \in two : ~Queued(p))

(* The architecture document says of CleanupPlayer that a player who leaves *)
(* is removed from any active match, and that the opponent is told: nobody  *)
(* who is still there is left in a match with a player who has gone.        *)
NobodyPlaysAGhost ==
  \A s \in Servers : \A m \in matches[s] : \A p \in {m.p1, m.p2} :
    Home[p] = s /\ Online(p) => \A q \in {m.p1, m.p2} : Online(q)
=============================================================================
