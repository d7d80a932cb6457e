------------------------------ MODULE Session ------------------------------
(***************************************************************************)
(* The clients of one server from their terminal to the broker and back:   *)
(* the terminal client (its view of the match and the hand it shows), the  *)
(* goroutines of a connection (handleConn, readLoop, writeLoop), the       *)
(* broker with its channels of one place, the one dispatcher of all client *)
(* messages, and the goroutines that publish to the players.                *)
(*                                                                         *)
(* A goroutine that publishes several messages in a row publishes each in  *)
(* a step of its own.  The match is reduced to what the players are told:  *)
(* its rounds and its end.  It is local; Match and DistMatch model the     *)
(* rest of it.  A message that a client only prints is "OTHER".            *)
(***************************************************************************)
EXTENDS Integers, SequencesExt

CONSTANTS
  Clients,    \* the two clients of the server
  NoMsg,      \* no message
  Nobody,     \* no client
  Leavers,    \* bound: the clients that may leave
  Wishes,     \* bound: how often the clients may send what, besides FIND_MATCH
  MaxRounds   \* bound: how many rounds a match has

Commands   == {"PLAY", "CHAT", "OPEN_PACK", "OTHER"}
ClientMsgs == Commands \cup {"FIND_MATCH"}
ServerMsg  == [t : {"MATCH_FOUND", "STATE", "ROUND_RESULT", "MATCH_END", "OTHER"},
               round : 0 .. MaxRounds]

ASSUME WishesAssumption == Wishes \subseteq [Clients -> [Commands -> Nat]]
ASSUME ClientsAssumption ==
  /\ \E c, d \in Clients : c # d /\ Clients = {c, d}
  /\ Clients \cap {"dispatcher", "matchmaker", "round"} = {}
ASSUME NothingAssumption ==
  Nobody \notin Clients /\ NoMsg \notin ServerMsg \cup ClientMsgs \cup (Clients \X ClientMsgs)
ASSUME BoundsAssumption == Leavers \subseteq Clients /\ MaxRounds \in Nat \ {0}

VARIABLES
  client,     \* "new", "playing" or "gone": the process of each client
  wants,      \* what it has still to send
  inMatch,    \* inMatch of the client
  shown,      \* the round whose hand is in its currentHand, 0 if that is nil
  up,         \* the connection towards the server: a message on its way, or NoMsg
  down,       \* the connection towards the client, with the message writeLoop writes
  conn,       \* where handleConn of each client is
  writer,     \* its writeLoop runs
  slot,       \* the one place of its subscription
  inbox,      \* the one place of the subscription of the dispatcher
  dispatcher, \* "starting", "free" or "waiting" for the pack of packFor
  packFor,
  publishes,  \* what each publishing goroutine has still to publish
  queue,      \* MatchmakingQueue
  pair,       \* the players taken from it, P1 and P2 of the match
  match,      \* "none", "making", "active" or "removed", from ActiveMatches that is
  over,       \* State of the match is ENDED
  round,      \* Round of the match
  laid,       \* the players in its Waiting
  missed      \* history: the sorts of messages whose latest one a live client missed

terminal == <<client, wants, inMatch, shown>>
wires    == <<up, down>>
server   == <<conn, writer>>
broker   == <<slot, inbox, missed>>
dispatch == <<dispatcher, packFor>>
game     == <<queue, pair, match, over, round, laid>>
vars     == <<terminal, wires, server, broker, dispatch, publishes, game>>

\* Slip: only the first player of the match has an opponent.
OtherOfFirst(c) == IF c = pair[1] THEN pair[2] ELSE Nobody

Other(c) == CHOOSE d \in Clients : d # c

Says(t) == [t |-> t, round |-> 0]
State(r) == [t |-> "STATE", round |-> r]

\* The goroutines that publish: the dispatcher, the matchmaker, the round that is being
\* resolved, and the cleanup of each client.
Publishers == {"dispatcher", "matchmaker", "round"} \cup Clients

To(c, m) == [to |-> c, msg |-> m]

TypeOK ==
  /\ client \in [Clients -> {"new", "playing", "gone"}]
  /\ wants \in [Clients -> [Commands -> Nat]]
  /\ inMatch \in [Clients -> BOOLEAN]
  /\ shown \in [Clients -> 0 .. MaxRounds]
  /\ up \in [Clients -> ClientMsgs \cup {NoMsg}]
  /\ down \in [Clients -> ServerMsg \cup {NoMsg}]
  /\ conn \in [Clients -> {"none", "reading", "unsubscribed", "notifying", "closed"}]
  /\ writer \in [Clients -> BOOLEAN]
  /\ slot \in [Clients -> ServerMsg \cup {NoMsg}]
  /\ inbox \in (Clients \X ClientMsgs) \cup {NoMsg}
  /\ dispatcher \in {"starting", "free", "waiting"}
  /\ packFor \in IF dispatcher = "waiting" THEN Clients ELSE {Nobody}
  /\ publishes \in [Publishers -> Seq([to : Clients, msg : ServerMsg])]
  /\ queue \in Seq(Clients) /\ IsInjective(queue)
  /\ pair \in Seq(Clients)
  /\ match \in {"none", "making", "active", "removed"}
  /\ over \in BOOLEAN
  /\ round \in 0 .. MaxRounds
  /\ laid \in SUBSET Clients
  /\ missed \in [Clients -> SUBSET {"news", "state"}]

----------------------------------------------------------------------------
(* The terminal client.                                                    *)

\* handleConn of the client sends FIND_MATCH at once; the server registers the player,
\* subscribes to its topic and starts both loops.
Connect(c) ==
  /\ client[c] = "new"
  /\ client' = [client EXCEPT ![c] = "playing"]
  /\ up' = [up EXCEPT ![c] = "FIND_MATCH"]
  /\ conn' = [conn EXCEPT ![c] = "reading"]
  /\ writer' = [writer EXCEPT ![c] = TRUE]
  /\ UNCHANGED <<wants, inMatch, shown, down, broker, dispatch, publishes, game>>

\* The input loop and the commands.  A card is played only in a match and out of the hand;
\* a lone digit that is no play is sent as chat.  PING, AUTOPLAY, NOAUTOPLAY and REMATCH
\* are "OTHER": the server answers them, or answers that it does not know them.
Send(c, m) ==
  /\ client[c] = "playing" /\ up[c] = NoMsg /\ wants[c][m] > 0
  /\ m = "PLAY" => inMatch[c] /\ shown[c] > 0
  /\ up' = [up EXCEPT ![c] = m]
  /\ wants' = [wants EXCEPT ![c][m] = @ - 1]
  /\ UNCHANGED <<client, inMatch, shown, down, server, broker, dispatch, publishes, game>>

\* /quit sends LEAVE, which the server does not know, and exits; a process that dies sends
\* nothing.
Quit(c) ==
  /\ client[c] = "playing" /\ c \in Leavers
  /\ client' = [client EXCEPT ![c] = "gone"]
  /\ wants' = [wants EXCEPT ![c] = [m \in Commands |-> 0]]
  /\ inMatch' = [inMatch EXCEPT ![c] = FALSE]
  /\ shown' = [shown EXCEPT ![c] = 0]
  /\ missed' = [missed EXCEPT ![c] = {}]
  /\ down' = [down EXCEPT ![c] = NoMsg]
  /\ \E last \in {NoMsg, "OTHER"} : up' = IF up[c] = NoMsg THEN [up EXCEPT ![c] = last] ELSE up
  /\ UNCHANGED <<server, slot, inbox, dispatch, publishes, game>>

\* Slip: the end of a match does not leave it.
HandleWithoutEnd(c) ==
  /\ client[c] = "playing" /\ down[c] # NoMsg
  /\ inMatch' = [inMatch EXCEPT ![c] = @ \/ down[c].t = "MATCH_FOUND"]
  /\ shown' = [shown EXCEPT ![c] = IF down[c].t = "STATE" THEN down[c].round ELSE @]
  /\ down' = [down EXCEPT ![c] = NoMsg]
  /\ UNCHANGED <<client, wants, up, server, broker, dispatch, publishes, game>>

\* handleServerMessage.
HandleServerMessage(c) ==
  /\ client[c] = "playing" /\ down[c] # NoMsg
  /\ inMatch' = [inMatch EXCEPT ![c] = CASE down[c].t = "MATCH_FOUND" -> TRUE
                                         [] down[c].t = "MATCH_END"   -> FALSE
                                         [] OTHER                     -> @]
  /\ shown' = [shown EXCEPT ![c] = CASE down[c].t = "STATE"     -> down[c].round
                                     [] down[c].t = "MATCH_END" -> 0
                                     [] OTHER                   -> @]
  /\ down' = [down EXCEPT ![c] = NoMsg]
  /\ UNCHANGED <<client, wants, up, server, broker, dispatch, publishes, game>>

----------------------------------------------------------------------------
(* The broker: the non-blocking send to the subscriber's one place.        *)

\* What a missed message leaves out of date at the client.
Sort(m) == CASE m.t \in {"MATCH_FOUND", "MATCH_END"} -> {"news"}
             [] m.t = "STATE" -> {"state"}
             [] OTHER -> {}

Subscribed(c) == conn[c] = "reading"

\* Slip: the send waits until the place is free.
PublishBlocking(g) ==
  LET c == Head(publishes[g]).to
      m == Head(publishes[g]).msg
  IN  /\ publishes[g] # <<>>
      /\ Subscribed(c) => slot[c] = NoMsg
      /\ slot' = IF Subscribed(c) THEN [slot EXCEPT ![c] = m] ELSE slot
      /\ publishes' = [publishes EXCEPT ![g] = Tail(@)]
      /\ UNCHANGED <<missed, inbox>>
      /\ UNCHANGED <<terminal, wires, server, dispatch, game>>

\* Publish of the next message of goroutine g.  The second half of notifyPlayersOfMatch,
\* BroadcastState, takes the lock of the match, which a round that is being resolved has.
Publish(g) ==
  LET c == Head(publishes[g]).to
      m == Head(publishes[g]).msg
      received == Subscribed(c) /\ slot[c] = NoMsg
  IN  /\ publishes[g] # <<>>
      /\ g = "matchmaker" /\ Len(publishes[g]) = 2 => publishes["round"] = <<>>
      /\ slot' = IF received THEN [slot EXCEPT ![c] = m] ELSE slot
      /\ missed' = [missed EXCEPT ![c] = IF received \/ client[c] = "gone" THEN @ \ Sort(m)
                                                                       ELSE @ \cup Sort(m)]
      /\ publishes' = [publishes EXCEPT ![g] = Tail(@)]
      /\ UNCHANGED <<terminal, wires, server, inbox, dispatch, game>>

----------------------------------------------------------------------------
(* The goroutines of a connection.                                         *)

\* readLoop: Publish to "client.messages", which drops the message if the dispatcher is
\* busy and has one waiting, or has not yet subscribed.
ReadLoop(c) ==
  /\ conn[c] = "reading" /\ up[c] # NoMsg
  /\ up' = [up EXCEPT ![c] = NoMsg]
  /\ inbox' = IF dispatcher # "starting" /\ inbox = NoMsg THEN <<c, up[c]>> ELSE inbox
  /\ UNCHANGED <<terminal, down, server, slot, missed, dispatch, publishes, game>>

\* writeLoop takes the next message and encodes it.  A STATE refers to the hand in the
\* array of the match, which a later round shifts and refills in place: the client can be
\* sent any hand from then to now.  What is written to a client that is gone is lost.
WriteLoop(c) ==
  /\ writer[c] /\ slot[c] # NoMsg /\ down[c] = NoMsg
  /\ slot' = [slot EXCEPT ![c] = NoMsg]
  /\ \E r \in (IF slot[c].t = "STATE" THEN slot[c].round .. round ELSE {0}) :
       down' = IF client[c] = "playing"
                 THEN [down EXCEPT ![c] = [slot[c] EXCEPT !.round = r]] ELSE down
  /\ UNCHANGED <<terminal, up, server, inbox, missed, dispatch, publishes, game>>

\* Slip: the subscription is removed but not closed.
WriteLoopEndsOnError(c) ==
  /\ writer[c] /\ client[c] = "gone" /\ slot[c] # NoMsg
  /\ writer' = [writer EXCEPT ![c] = FALSE]
  /\ slot' = [slot EXCEPT ![c] = NoMsg]
  /\ UNCHANGED <<terminal, wires, conn, inbox, missed, dispatch, publishes, game>>

\* It ends when the write fails, or when the subscription is closed and empty.
WriteLoopEnds(c) ==
  /\ writer[c]
  /\ \/ client[c] = "gone" /\ slot[c] # NoMsg
     \/ conn[c] \notin {"none", "reading"} /\ slot[c] = NoMsg
  /\ writer' = [writer EXCEPT ![c] = FALSE]
  /\ slot' = [slot EXCEPT ![c] = NoMsg]
  /\ UNCHANGED <<terminal, wires, conn, inbox, missed, dispatch, publishes, game>>

\* readLoop meets the end of the stream and returns: the subscription is closed.
Unsubscribe(c) ==
  /\ conn[c] = "reading" /\ client[c] = "gone" /\ up[c] = NoMsg
  /\ conn' = [conn EXCEPT ![c] = "unsubscribed"]
  /\ UNCHANGED <<terminal, wires, writer, broker, dispatch, publishes, game>>

\* CleanupPlayer: out of the queue and of the match; the opponent will be told.
CleanupPlayer(c) ==
  /\ conn[c] = "unsubscribed"
  /\ conn' = [conn EXCEPT ![c] = "notifying"]
  /\ queue' = RemoveFirst(queue, c)
  /\ IF match = "active" /\ c \in Range(pair)
       THEN /\ match' = "removed"
            /\ publishes' = [publishes EXCEPT ![c] = <<To(Other(c), Says("OTHER")),
                                                       To(Other(c), Says("MATCH_END"))>>]
       ELSE UNCHANGED <<match, publishes>>
  /\ UNCHANGED <<terminal, wires, writer, broker, dispatch, pair, over, round, laid>>

CloseConn(c) ==
  /\ conn[c] = "notifying" /\ publishes[c] = <<>>
  /\ conn' = [conn EXCEPT ![c] = "closed"]
  /\ UNCHANGED <<terminal, wires, writer, broker, dispatch, publishes, game>>

----------------------------------------------------------------------------
(* The dispatcher: listenForClientMessages and handleMessage.              *)

Listen ==
  /\ dispatcher = "starting" /\ dispatcher' = "free"
  /\ UNCHANGED <<terminal, wires, server, broker, packFor, publishes, game>>

\* The dispatcher takes a message m of client c, having published its last answer.
Takes(c, m) ==
  /\ dispatcher = "free" /\ publishes["dispatcher"] = <<>>
  /\ inbox = <<c, m>> /\ inbox' = NoMsg

Answers(msgs) == publishes' = [publishes EXCEPT !["dispatcher"] = msgs]

HandleFindMatch(c) ==
  /\ Takes(c, "FIND_MATCH")
  /\ queue' = IF c \in Range(queue) THEN queue ELSE Append(queue, c)
  /\ Answers(<<To(c, Says("OTHER"))>>)
  /\ UNCHANGED <<terminal, wires, server, slot, missed, dispatch, pair, match, over, round, laid>>

\* The lock of the match is free.
Unlocked == publishes["round"] = <<>> /\ Len(publishes["matchmaker"]) # 1

\* handlePlay: FindPlayerMatch and PlayCard in one step; Match has the step between them.
HandlePlay(c) ==
  /\ Takes(c, "PLAY") /\ Unlocked
  /\ IF match = "active"
       THEN laid' = laid \cup {c} /\ UNCHANGED publishes
       ELSE Answers(<<To(c, Says("OTHER"))>>) /\ UNCHANGED laid
  /\ UNCHANGED <<terminal, wires, server, slot, missed, dispatch, queue, pair, match, over, round>>

HandleChat(c) ==
  /\ Takes(c, "CHAT")
  /\ Answers(IF match = "active" THEN <<To(Other(c), Says("OTHER"))>> ELSE <<>>)
  /\ UNCHANGED <<terminal, wires, server, slot, missed, dispatch, game>>

HandleOther(c) ==
  /\ Takes(c, "OTHER")
  /\ Answers(<<To(c, Says("OTHER"))>>)
  /\ UNCHANGED <<terminal, wires, server, slot, missed, dispatch, game>>

\* handleOpenPack: the request is queued, and the dispatcher waits.
HandleOpenPack(c) ==
  /\ Takes(c, "OPEN_PACK")
  /\ dispatcher' = "waiting" /\ packFor' = c
  /\ UNCHANGED <<terminal, wires, server, slot, missed, publishes, game>>

\* Slip: a timeout is reported and waited for again.
WaitAgain ==
  /\ dispatcher = "waiting" /\ publishes["dispatcher"] = <<>>
  /\ Answers(<<To(packFor, Says("OTHER"))>>)
  /\ UNCHANGED <<terminal, wires, server, broker, dispatch, game>>

\* The answer arrives, or else the timeout: what the client is told differs only in words.
PackIsAnswered ==
  /\ dispatcher = "waiting"
  /\ dispatcher' = "free" /\ packFor' = Nobody
  /\ Answers(<<To(packFor, Says("OTHER"))>>)
  /\ UNCHANGED <<terminal, wires, server, broker, game>>

----------------------------------------------------------------------------
(* The matchmaker and the match, as far as the players hear of them.       *)

TakePair ==
  /\ Len(queue) >= 2 /\ match = "none"
  /\ match' = "making"
  /\ pair' = SubSeq(queue, 1, 2)
  /\ queue' = SubSeq(queue, 3, Len(queue))
  /\ UNCHANGED <<terminal, wires, server, broker, dispatch, publishes, over, round, laid>>

\* Both players are told the one thing, then both are told the other thing.
ToBoth(m, n) == <<To(pair[1], m), To(pair[2], m), To(pair[1], n), To(pair[2], n)>>

\* CreateLocalMatch, then notifyPlayersOfMatch.
CreateMatch ==
  /\ match = "making" /\ match' = "active"
  /\ round' = 1
  /\ publishes' = [publishes EXCEPT !["matchmaker"] = ToBoth(Says("MATCH_FOUND"), State(1))]
  /\ UNCHANGED <<terminal, wires, server, broker, dispatch, queue, pair, over, laid>>

\* Slip: the state is sent before Round is advanced and the hands are refilled.
ResolveAfterState ==
  /\ laid = Clients /\ Unlocked
  /\ laid' = {}
  /\ \/ /\ ~over /\ round < MaxRounds
        /\ round' = round + 1
        /\ publishes' = [publishes EXCEPT !["round"] =
                           ToBoth(Says("ROUND_RESULT"), State(round))]
        /\ UNCHANGED over
     \/ /\ over' = TRUE
        /\ publishes' = [publishes EXCEPT !["round"] =
                           ToBoth(Says("ROUND_RESULT"), Says("MATCH_END"))]
        /\ UNCHANGED round
  /\ UNCHANGED <<terminal, wires, server, broker, dispatch, queue, pair, match>>

\* resolveRound: the results, then the state of the next round, or the end.  HP decides
\* which; a match that has ended ends again.  The second resolver that a double play
\* starts is left to Match.
ResolveRound ==
  /\ laid = Clients /\ Unlocked
  /\ laid' = {}
  /\ \/ /\ ~over /\ round < MaxRounds
        /\ round' = round + 1
        /\ publishes' = [publishes EXCEPT !["round"] =
                           ToBoth(Says("ROUND_RESULT"), State(round + 1))]
        /\ UNCHANGED over
     \/ /\ over' = TRUE
        /\ publishes' = [publishes EXCEPT !["round"] =
                           ToBoth(Says("ROUND_RESULT"), Says("MATCH_END"))]
        /\ UNCHANGED round
  /\ UNCHANGED <<terminal, wires, server, broker, dispatch, queue, pair, match>>

\* monitorMatch, started after the players were notified, gets the signal of the end.
RemoveMatch ==
  /\ match = "active" /\ over
  /\ publishes["round"] = <<>> /\ publishes["matchmaker"] = <<>>
  /\ match' = "removed"
  /\ UNCHANGED <<terminal, wires, server, broker, dispatch, publishes>>
  /\ UNCHANGED <<queue, pair, over, round, laid>>

----------------------------------------------------------------------------
(* The specification.                                                      *)

Init ==
  /\ client = [c \in Clients |-> "new"]
  /\ wants \in Wishes
  /\ inMatch = [c \in Clients |-> FALSE]
  /\ shown = [c \in Clients |-> 0]
  /\ up = [c \in Clients |-> NoMsg]
  /\ down = [c \in Clients |-> NoMsg]
  /\ conn = [c \in Clients |-> "none"]
  /\ writer = [c \in Clients |-> FALSE]
  /\ slot = [c \in Clients |-> NoMsg]
  /\ inbox = NoMsg
  /\ dispatcher = "starting"
  /\ packFor = Nobody
  /\ publishes = [g \in Publishers |-> <<>>]
  /\ queue = <<>>
  /\ pair = <<>>
  /\ match = "none"
  /\ over = FALSE
  /\ round = 0
  /\ laid = {}
  /\ missed = [c \in Clients |-> {}]

Terminal(c)   == Connect(c) \/ Quit(c) \/ HandleServerMessage(c) \/ \E m \in Commands : Send(c, m)
Cleanup(c)    == Unsubscribe(c) \/ CleanupPlayer(c) \/ CloseConn(c)
Handle(c)     == HandleFindMatch(c) \/ HandlePlay(c) \/ HandleChat(c) \/ HandleOther(c) \/ HandleOpenPack(c)
MatchGoesOn   == TakePair \/ CreateMatch \/ ResolveRound \/ RemoveMatch

Next ==
  \/ \E c \in Clients : Terminal(c) \/ ReadLoop(c) \/ WriteLoop(c) \/ WriteLoopEnds(c) \/ Cleanup(c)
  \/ \E g \in Publishers : Publish(g)
  \/ Listen \/ (\E c \in Clients : Handle(c)) \/ PackIsAnswered
  \/ MatchGoesOn

Spec == Init /\ [][Next]_vars

\* The goroutines of the server go on.  A client may be slow for ever: neither its terminal
\* nor the writeLoop that waits for it is fair, and the token need not come: PackIsAnswered is fair
\* because of its timeout.
Fairness ==
  /\ \A g \in Publishers : WF_vars(Publish(g))
  /\ \A c \in Clients : WF_vars(ReadLoop(c)) /\ WF_vars(WriteLoopEnds(c)) /\ WF_vars(Cleanup(c))
  /\ WF_vars(Listen) /\ WF_vars(\E c \in Clients : Handle(c)) /\ WF_vars(PackIsAnswered)
  /\ WF_vars(ResolveRound) /\ WF_vars(CreateMatch)

FairSpec == Spec /\ Fairness

----------------------------------------------------------------------------
(* Properties.                                                             *)

\* Nothing is on its way to client c.
Quiet(c) ==
  /\ slot[c] = NoMsg /\ down[c] = NoMsg
  /\ \A g \in Publishers : \A i \in DOMAIN publishes[g] : publishes[g][i].to # c

BothConnected == \A c \in Clients : client[c] = "playing"

(* A client and the server agree on whether it is in a match, once nothing   *)
(* is on its way and unless the broker dropped the last message that says so *)
(* (its one place was taken): MATCH_FOUND and MATCH_END, which come from      *)
(* different goroutines, do not overtake each other.                          *)
TrueView ==
  BothConnected =>
    \A c \in Clients : Quiet(c) /\ "news" \notin missed[c] =>
      (inMatch[c] <=> round > 0 /\ ~over)

(* Under the same conditions the hand a client shows and plays from is that *)
(* of the round the match is in, although the STATE message refers to an     *)
(* array that later rounds change, and although earlier ones may be lost.    *)
CurrentHand ==
  BothConnected =>
    \A c \in Clients : Quiet(c) /\ inMatch[c] /\ missed[c] = {} => shown[c] = round

(* No goroutine that publishes waits for a client that does not read, nor    *)
(* for one that has left: the comment in Publish on slow subscribers.        *)
PublishersGoOn ==
  []<>(\A g \in Publishers : publishes[g] = <<>>)

(* The one dispatcher of all clients always returns to the messages that     *)
(* wait for it, from a pack whose token never comes too.                      *)
DispatcherReturns == []<>(dispatcher = "free" /\ inbox = NoMsg)

(* Whoever left is cleaned up after, in whatever order its goroutines and    *)
(* those that publish to it get on: its connection is closed and its         *)
(* writeLoop ends, be it idle, be there a message that cannot be written; and *)
(* the match that was active when it left is removed.  That the queue and     *)
(* later matches are rid of it is not so: NobodyPlaysAGhost of Matchmaking.   *)
LeaverIsForgotten ==
  \A c \in Leavers :
    /\ (client[c] = "gone" /\ conn[c] # "none") ~> (conn[c] = "closed" /\ ~writer[c])
    /\ (client[c] = "gone" /\ conn[c] = "reading" /\ match = "active" /\ c \in Range(pair))
         ~> match = "removed"
=============================================================================
