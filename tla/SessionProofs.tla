--------------------------- MODULE SessionProofs ----------------------------
(***************************************************************************)
(* Proofs about Session, for everything the clients may send, every number *)
(* of rounds, and whoever may leave.                                        *)
(***************************************************************************)
EXTENDS Session, SeqLemmas

Found == Says("MATCH_FOUND")
Told  == Says("ROUND_RESULT")
End   == Says("MATCH_END")

\* What notifyPlayersOfMatch, and the round that is resolved, have still to publish.
Maker    == publishes["matchmaker"]
Resolver == publishes["round"]

\* q is what is left of telling both players m, and then n.
Left(q, m, n) ==
  \/ q = <<>>
  \/ q = <<To(pair[2], n)>>
  \/ q = <<To(pair[1], n), To(pair[2], n)>>
  \/ q = <<To(pair[2], m), To(pair[1], n), To(pair[2], n)>>
  \/ q = <<To(pair[1], m), To(pair[2], m), To(pair[1], n), To(pair[2], n)>>

\* Client c is still to be told the first of the two things, or the second one.
AwaitsOne(q, c) == Len(q) = 4 \/ (Len(q) = 3 /\ c = pair[2])
AwaitsTwo(q, c) == Len(q) >= 2 \/ (Len(q) = 1 /\ c = pair[2])

\* Client c is still to be told the match, the hand of the first round, or what a round
\* leads to.
AwaitsFound(c) == AwaitsOne(Maker, c)
AwaitsFirst(c) == AwaitsTwo(Maker, c)
AwaitsLast(c)  == AwaitsTwo(Resolver, c)

Is(x, t) == x # NoMsg /\ x.t = t

NobodyLeft == \A c \in Clients : client[c] # "gone"

\* A card of client c is on its way or lies.
HasPlayed(c) == up[c] = "PLAY" \/ inbox = <<c, "PLAY">> \/ c \in laid

\* A match has the two players, and nothing of it is told before it is made.
Paired ==
  /\ match # "none" => Len(pair) = 2 /\ pair[1] # pair[2]
  /\ round > 0 <=> match \in {"active", "removed"}
  /\ round = 0 =>
       /\ Maker = <<>> /\ Resolver = <<>> /\ laid = {} /\ ~over
       /\ \A c \in Clients : publishes[c] = <<>> /\ ~inMatch[c]

\* What each goroutine publishes; a cleanup does so when its client has gone only.  No
\* writeLoop runs for a client that has not connected.
Shapes ==
  /\ Left(Maker, Found, State(1))
  /\ Left(Resolver, Told, IF over THEN End ELSE State(round))
  /\ \A i \in DOMAIN publishes["dispatcher"] : publishes["dispatcher"][i].msg.t = "OTHER"
  /\ \A c \in Clients : \A i \in DOMAIN publishes[c] :
       publishes[c][i].msg.t \in {"OTHER", "MATCH_END"}
  /\ \A c \in Clients :
       /\ publishes[c] # <<>> \/ conn[c] \notin {"none", "reading"} => client[c] = "gone"
       /\ writer[c] => client[c] # "new"

\* The messages a client gets, and what it does about them, come in an order: first the
\* match, then its hand, then a card can be played, then the match can go on or end.
Ordered ==
  /\ \A c \in Clients : AwaitsFirst(c) \/ round = 0 =>
       ~HasPlayed(c) /\ shown[c] = 0 /\ ~Is(slot[c], "STATE") /\ ~Is(down[c], "STATE")
  /\ \A c \in Clients : Is(slot[c], "MATCH_FOUND") \/ Is(down[c], "MATCH_FOUND") =>
       ~HasPlayed(c) /\ shown[c] = 0 /\ round = 1 /\ ~over
  /\ \A c \in Clients : Is(slot[c], "MATCH_FOUND") => ~Is(down[c], "STATE")
  /\ over \/ round > 1 \/ Resolver # <<>> => Maker = <<>>
  /\ round = 0 => \A c \in Clients : ~Is(slot[c], "MATCH_END") /\ ~Is(down[c], "MATCH_END")

\* A client that has not missed the news knows whether the match goes on, or will.
News ==
  NobodyLeft => \A c \in Clients :
    /\ ~over => ~Is(slot[c], "MATCH_END") /\ ~Is(down[c], "MATCH_END")
    /\ over /\ "news" \notin missed[c] =>
         AwaitsLast(c) \/ Is(slot[c], "MATCH_END") \/ Is(down[c], "MATCH_END") \/ ~inMatch[c]
    /\ ~over /\ round > 0 /\ "news" \notin missed[c] =>
         AwaitsFound(c) \/ Is(slot[c], "MATCH_FOUND") \/ Is(down[c], "MATCH_FOUND") \/ inMatch[c]

\* The last hand that is on its way to a client, or else the one it shows, is the current one.
Hands ==
  NobodyLeft /\ round > 0 /\ ~over => \A c \in Clients : "state" \notin missed[c] =>
    \/ AwaitsFirst(c) \/ AwaitsLast(c)
    \/ Is(slot[c], "STATE") /\ slot[c].round = round
    \/ ~Is(slot[c], "STATE") /\ Is(down[c], "STATE") /\ down[c].round = round
    \/ ~Is(slot[c], "STATE") /\ ~Is(down[c], "STATE") /\ shown[c] = round

Logic == Paired /\ Shapes /\ Ordered /\ News /\ Hands

IInv == TypeOK /\ Logic

----------------------------------------------------------------------------
(* What the goroutines publish.                                             *)

LEMMA Names ==
  /\ "dispatcher" \in Publishers /\ "matchmaker" \in Publishers /\ "round" \in Publishers
  /\ \A c \in Clients : /\ c \in Publishers
                        /\ c # "dispatcher" /\ c # "matchmaker" /\ c # "round"
                        /\ Other(c) \in Clients
<1>1. \A c \in Clients : Other(c) \in Clients
  <2> SUFFICES ASSUME NEW c \in Clients PROVE Other(c) \in Clients
    OBVIOUS
  <2>1. \E d \in Clients : d # c
    BY ClientsAssumption
  <2>2. QED  BY <2>1 DEF Other
<1>2. QED  BY <1>1, ClientsAssumption DEF Publishers

\* The two players of a match are the two clients.
LEMMA Players ==
  ASSUME TypeOK, Paired, match # "none"
  PROVE  /\ pair[1] \in Clients /\ pair[2] \in Clients /\ pair[1] # pair[2]
         /\ Clients = {pair[1], pair[2]}
<1>1. pair \in Seq(Clients) /\ Len(pair) = 2 /\ pair[1] # pair[2]
  BY DEF TypeOK, Paired
<1>2. pair[1] \in Clients /\ pair[2] \in Clients
  BY <1>1
<1>3. PICK c, d \in Clients : Clients = {c, d}
  BY ClientsAssumption
<1>4. QED  BY <1>1, <1>2, <1>3

\* A message and its addressee.
LEMMA ToType ==
  ASSUME NEW c \in Clients, NEW m \in ServerMsg
  PROVE  To(c, m) \in [to : Clients, msg : ServerMsg]
BY DEF To

LEMMA Messages ==
  /\ Found \in ServerMsg /\ Told \in ServerMsg /\ End \in ServerMsg /\ Says("OTHER") \in ServerMsg
  /\ \A r \in 1 .. MaxRounds : State(r) \in ServerMsg
<1>1. 0 \in 0 .. MaxRounds /\ \A r \in 1 .. MaxRounds : r \in 0 .. MaxRounds
  BY BoundsAssumption
<1>2. QED  BY <1>1 DEF Found, Told, End, Says, State, ServerMsg

\* A goroutine has its next messages, the others keep theirs.
LEMMA Publishing ==
  ASSUME TypeOK, NEW g \in Publishers, NEW q \in Seq([to : Clients, msg : ServerMsg]),
         publishes' = [publishes EXCEPT ![g] = q]
  PROVE  /\ publishes' \in [Publishers -> Seq([to : Clients, msg : ServerMsg])]
         /\ publishes'[g] = q
         /\ \A h \in Publishers : h # g => publishes'[h] = publishes[h]
BY DEF TypeOK

\* The first message of a goroutine, and the ones that follow.
LEMMA NextMessage ==
  ASSUME TypeOK, NEW g \in Publishers, publishes[g] # <<>>
  PROVE  /\ Head(publishes[g]).to \in Clients /\ Head(publishes[g]).msg \in ServerMsg
         /\ Tail(publishes[g]) \in Seq([to : Clients, msg : ServerMsg])
<1>1. publishes[g] \in Seq([to : Clients, msg : ServerMsg])
  BY DEF TypeOK
<1> DEFINE S == [to : Clients, msg : ServerMsg]
<1>2. publishes[g] \in Seq(S)
  BY <1>1
<1> HIDE DEF S
<1>3. Head(publishes[g]) \in S /\ Tail(publishes[g]) \in Seq(S)
  BY <1>2, HeadTailProperties, EmptySeq
<1>4. QED  BY <1>3 DEF S

\* The answer of the dispatcher is about no match.
LEMMA Answering ==
  ASSUME TypeOK, NEW c \in Clients, NEW q,
         q = <<>> \/ q = <<To(c, Says("OTHER"))>>, Answers(q)
  PROVE  /\ publishes' \in [Publishers -> Seq([to : Clients, msg : ServerMsg])]
         /\ \A i \in DOMAIN publishes'["dispatcher"] : publishes'["dispatcher"][i].msg.t = "OTHER"
         /\ \A g \in Publishers : g # "dispatcher" => publishes'[g] = publishes[g]
<1>1. To(c, Says("OTHER")) \in [to : Clients, msg : ServerMsg]
  BY Messages, ToType
<1>2. q \in Seq([to : Clients, msg : ServerMsg])
  <2> DEFINE S == [to : Clients, msg : ServerMsg]
             x == To(c, Says("OTHER"))
  <2>1. x \in S /\ (q = <<>> \/ q = <<x>>)
    BY <1>1
  <2> HIDE DEF S, x
  <2>2. <<x>> \in Seq(S) /\ <<>> \in Seq(S)
    BY <2>1
  <2>3. q \in Seq(S)
    BY <2>1, <2>2
  <2>4. QED  BY <2>3 DEF S
<1>3. /\ publishes' \in [Publishers -> Seq([to : Clients, msg : ServerMsg])]
      /\ publishes'["dispatcher"] = q
      /\ \A g \in Publishers : g # "dispatcher" => publishes'[g] = publishes[g]
  BY <1>2, Names, Publishing DEF Answers
<1>4. \A i \in DOMAIN q : q[i].msg.t = "OTHER"
  BY DEF To, Says
<1>5. QED  BY <1>3, <1>4

----------------------------------------------------------------------------
(* The inductive invariant.                                                 *)

LEMMA InitInv == Init => IInv
<1> SUFFICES ASSUME Init PROVE IInv
  OBVIOUS
<1>1. TypeOK
  <2>1. wants \in [Clients -> [Commands -> Nat]]
    BY WishesAssumption DEF Init
  <2>2. 0 \in 0 .. MaxRounds
    BY BoundsAssumption
  <2>3. <<>> \in Seq([to : Clients, msg : ServerMsg]) /\ <<>> \in Seq(Clients)
    OBVIOUS
  <2>4. QED  BY <2>1, <2>2, <2>3, EmptyRange DEF Init, TypeOK
<1>2. Paired
  BY Names DEF Init, Paired, Maker, Resolver
<1>3. Shapes
  BY Names DEF Init, Shapes, Maker, Resolver, Left
<1>4. Ordered
  <2>1. NoMsg # "PLAY" /\ \A c \in Clients : NoMsg # <<c, "PLAY">>
    BY NothingAssumption DEF ClientMsgs, Commands
  <2>2. /\ \A c \in Clients : up[c] = NoMsg /\ shown[c] = 0 /\ slot[c] = NoMsg /\ down[c] = NoMsg
        /\ inbox = NoMsg /\ laid = {} /\ Maker = <<>> /\ round = 0 /\ ~over
        /\ Resolver = <<>>
    BY Names DEF Init, Maker, Resolver
  <2>3. QED  BY <2>1, <2>2 DEF Ordered, HasPlayed, Is
<1>5. News /\ Hands
  BY DEF Init, News, Hands, Is
<1>6. QED  BY <1>1, <1>2, <1>3, <1>4, <1>5 DEF IInv, Logic

\* A step that neither publishes, receives nor handles anything about the match, and plays
\* no card, keeps what is said of the order, the news and the hands.
LEMMA Calm ==
  ASSUME Logic,
         UNCHANGED <<pair, over, round, missed, inMatch, shown, slot, down, Maker, Resolver>>,
         \A c \in Clients : HasPlayed(c)' => HasPlayed(c),
         \A c \in Clients : client[c] = "gone" => client'[c] = "gone"
  PROVE  Ordered' /\ News' /\ Hands'
<1>1. /\ \A c \in Clients : /\ AwaitsFound(c)' <=> AwaitsFound(c)
                            /\ AwaitsFirst(c)' <=> AwaitsFirst(c)
                            /\ AwaitsLast(c)' <=> AwaitsLast(c)
      /\ NobodyLeft' => NobodyLeft
  BY DEF AwaitsFound, AwaitsFirst, AwaitsLast, AwaitsOne, AwaitsTwo, NobodyLeft
<1>2. Ordered'
  BY <1>1 DEF Logic, Ordered, Is
<1>3. News'
  BY <1>1 DEF Logic, News, Is
<1>4. Hands'
  BY <1>1 DEF Logic, Hands, Is
<1>5. QED  BY <1>2, <1>3, <1>4

\* What notifyPlayersOfMatch and the round publish keeps its shape when nothing changes it.
LEMMA LeftAsBefore ==
  ASSUME Logic, UNCHANGED <<pair, over, round, Maker, Resolver>>
  PROVE  /\ Left(Maker, Found, State(1))'
         /\ Left(Resolver, Told, IF over THEN End ELSE State(round))'
BY DEF Logic, Shapes, Left, Found, Told, End, State

\* Nor does a step that leaves the match, its goroutines and the connections alone change
\* who plays and what is published.
LEMMA Still ==
  ASSUME Logic, UNCHANGED <<publishes, conn, writer, game>>,
         \A c \in Clients : client[c] # "new" => client'[c] # "new",
         \A c \in Clients : client[c] = "gone" => client'[c] = "gone",
         \A c \in Clients : inMatch'[c] => inMatch[c] \/ round # 0
  PROVE  Paired' /\ Shapes'
<1>1. UNCHANGED <<Maker, Resolver, pair, match, over, round, laid>>
  BY DEF Maker, Resolver, game
<1>2. Paired'
  BY <1>1 DEF Logic, Paired
<1>3. Shapes'
  BY <1>1 DEF Logic, Shapes, Left
<1>4. QED  BY <1>2, <1>3

----------------------------------------------------------------------------
(* The terminal client.                                                     *)

LEMMA ConnectInv ==
  ASSUME IInv, NEW c \in Clients, Connect(c)
  PROVE  IInv'
<1>1. UNCHANGED <<wants, inMatch, shown, down, slot, inbox, missed, dispatcher, packFor, publishes,
                  queue, pair, match, over, round, laid, Maker, Resolver>>
  BY DEF Connect, broker, dispatch, game, Maker, Resolver
<1>2. /\ client[c] = "new" /\ client' = [client EXCEPT ![c] = "playing"]
      /\ up' = [up EXCEPT ![c] = "FIND_MATCH"]
      /\ conn' = [conn EXCEPT ![c] = "reading"] /\ writer' = [writer EXCEPT ![c] = TRUE]
  BY DEF Connect
<1>3. TypeOK'
  <2>1. /\ client \in [Clients -> {"new", "playing", "gone"}]
        /\ up \in [Clients -> ClientMsgs \cup {NoMsg}]
        /\ conn \in [Clients -> {"none", "reading", "unsubscribed", "notifying", "closed"}]
        /\ writer \in [Clients -> BOOLEAN]
    BY DEF IInv, TypeOK
  <2>2. /\ client' \in [Clients -> {"new", "playing", "gone"}]
        /\ up' \in [Clients -> ClientMsgs \cup {NoMsg}]
        /\ conn' \in [Clients -> {"none", "reading", "unsubscribed", "notifying", "closed"}]
        /\ writer' \in [Clients -> BOOLEAN]
    BY <1>2, <2>1 DEF ClientMsgs
  <2>3. QED  BY <1>1, <2>2 DEF IInv, TypeOK
<1>4. \A d \in Clients : /\ client[d] # "new" => client'[d] = client[d]
                         /\ client'[d] # "gone" \/ client[d] = "gone"
                         /\ up'[d] = "PLAY" => up[d] = "PLAY"
                         /\ conn'[d] \in {"none", "reading"} \/ conn'[d] = conn[d]
                         /\ writer'[d] => writer[d] \/ client'[d] = "playing"
  BY <1>2 DEF IInv, TypeOK
<1>5. Paired'
  BY <1>1 DEF IInv, Logic, Paired
<1>6. Shapes'
  BY <1>1, <1>4 DEF IInv, Logic, Shapes, Left
<1>7. Ordered' /\ News' /\ Hands'
  <2>1. \A d \in Clients : HasPlayed(d)' => HasPlayed(d)
    BY <1>1, <1>4 DEF HasPlayed
  <2>2. \A d \in Clients : client[d] = "gone" => client'[d] = "gone"
    BY <1>4
  <2>3. QED  BY <1>1, <2>1, <2>2, Calm DEF IInv
<1>8. QED  BY <1>3, <1>5, <1>6, <1>7 DEF IInv, Logic

LEMMA SendInv ==
  ASSUME IInv, NEW c \in Clients, NEW m \in Commands, Send(c, m)
  PROVE  IInv'
<1>1. UNCHANGED <<client, inMatch, shown, down, conn, writer, slot, inbox, missed, dispatcher,
                  packFor, publishes, queue, pair, match, over, round, laid, Maker, Resolver>>
  BY DEF Send, server, broker, dispatch, game, Maker, Resolver
<1>2. /\ wants' = [wants EXCEPT ![c] = [wants[c] EXCEPT ![m] = wants[c][m] - 1]]
      /\ up' = [up EXCEPT ![c] = m] /\ wants[c][m] > 0
      /\ m = "PLAY" => inMatch[c] /\ shown[c] > 0
  BY DEF Send
<1>3. TypeOK'
  <2>1. wants \in [Clients -> [Commands -> Nat]] /\ up \in [Clients -> ClientMsgs \cup {NoMsg}]
    BY DEF IInv, TypeOK
  <2>2. [wants[c] EXCEPT ![m] = wants[c][m] - 1] \in [Commands -> Nat]
    BY <1>2, <2>1
  <2>3. wants' \in [Clients -> [Commands -> Nat]] /\ up' \in [Clients -> ClientMsgs \cup {NoMsg}]
    BY <1>2, <2>1, <2>2, Zenon DEF ClientMsgs
  <2>4. QED  BY <1>1, <2>3 DEF IInv, TypeOK
<1>4. Paired' /\ Shapes'
  BY <1>1, Still DEF IInv, game
<1>5. \A d \in Clients : up'[d] = IF d = c THEN m ELSE up[d]
  BY <1>2 DEF IInv, TypeOK
<1>6. CASE m # "PLAY"
  <2>1. \A d \in Clients : HasPlayed(d)' => HasPlayed(d)
    BY <1>1, <1>5, <1>6 DEF HasPlayed
  <2>2. Ordered' /\ News' /\ Hands'
    BY <1>1, <2>1, Calm DEF IInv
  <2>3. QED  BY <1>3, <1>4, <2>2 DEF IInv, Logic
<1>7. CASE m = "PLAY"
  <2>1. /\ \A d \in Clients : /\ AwaitsFound(d)' <=> AwaitsFound(d)
                              /\ AwaitsFirst(d)' <=> AwaitsFirst(d)
                              /\ AwaitsLast(d)' <=> AwaitsLast(d)
        /\ NobodyLeft' <=> NobodyLeft
    BY <1>1 DEF AwaitsFound, AwaitsFirst, AwaitsLast, AwaitsOne, AwaitsTwo, NobodyLeft
  <2>2. shown[c] # 0
    BY <1>2, <1>7
  <2>3. ~AwaitsFirst(c) /\ round # 0 /\ ~Is(slot[c], "MATCH_FOUND") /\ ~Is(down[c], "MATCH_FOUND")
    BY <2>2 DEF IInv, Logic, Ordered
  <2>4. \A d \in Clients : HasPlayed(d)' => HasPlayed(d) \/ d = c
    BY <1>1, <1>5 DEF HasPlayed
  <2>5. Ordered'
    BY <1>1, <2>1, <2>3, <2>4 DEF IInv, Logic, Ordered, Is
  <2>6. News' /\ Hands'
    BY <1>1, <2>1 DEF IInv, Logic, News, Hands, Is
  <2>7. QED  BY <1>3, <1>4, <2>5, <2>6 DEF IInv, Logic
<1>8. QED  BY <1>6, <1>7

LEMMA QuitInv ==
  ASSUME IInv, NEW c \in Clients, Quit(c)
  PROVE  IInv'
<1>1. UNCHANGED <<conn, writer, slot, inbox, dispatcher, packFor, publishes, queue, pair, match,
                  over, round, laid, Maker, Resolver>>
  BY DEF Quit, server, dispatch, game, Maker, Resolver
<1>2. /\ client[c] = "playing" /\ client' = [client EXCEPT ![c] = "gone"]
      /\ wants' = [wants EXCEPT ![c] = [m \in Commands |-> 0]]
      /\ inMatch' = [inMatch EXCEPT ![c] = FALSE] /\ shown' = [shown EXCEPT ![c] = 0]
      /\ missed' = [missed EXCEPT ![c] = {}] /\ down' = [down EXCEPT ![c] = NoMsg]
      /\ up' = up \/ up' = [up EXCEPT ![c] = "OTHER"] \/ up' = [up EXCEPT ![c] = NoMsg]
  BY DEF Quit
<1>3. TypeOK'
  <2>1. /\ client \in [Clients -> {"new", "playing", "gone"}]
        /\ wants \in [Clients -> [Commands -> Nat]]
        /\ inMatch \in [Clients -> BOOLEAN] /\ shown \in [Clients -> 0 .. MaxRounds]
        /\ missed \in [Clients -> SUBSET {"news", "state"}]
        /\ down \in [Clients -> ServerMsg \cup {NoMsg}]
        /\ up \in [Clients -> ClientMsgs \cup {NoMsg}]
    BY DEF IInv, TypeOK
  <2>2. 0 \in 0 .. MaxRounds /\ "OTHER" \in ClientMsgs /\ [m \in Commands |-> 0] \in [Commands -> Nat]
    BY BoundsAssumption DEF ClientMsgs, Commands
  <2>3. /\ client' \in [Clients -> {"new", "playing", "gone"}]
        /\ inMatch' \in [Clients -> BOOLEAN]
        /\ missed' \in [Clients -> SUBSET {"news", "state"}]
        /\ down' \in [Clients -> ServerMsg \cup {NoMsg}]
    BY <1>2, <2>1
  <2>4. /\ wants' \in [Clients -> [Commands -> Nat]] /\ shown' \in [Clients -> 0 .. MaxRounds]
        /\ up' \in [Clients -> ClientMsgs \cup {NoMsg}]
    BY <1>2, <2>1, <2>2, Zenon
  <2>5. QED  BY <1>1, <2>3, <2>4 DEF IInv, TypeOK
<1>4. \A d \in Clients : /\ client'[d] = IF d = c THEN "gone" ELSE client[d]
                         /\ up'[d] = "PLAY" => up[d] = "PLAY"
                         /\ inMatch'[d] => inMatch[d]
                         /\ shown'[d] = shown[d] \/ shown'[d] = 0
                         /\ down'[d] = down[d] \/ down'[d] = NoMsg
  <2>1. NoMsg # "PLAY"
    BY NothingAssumption DEF ClientMsgs, Commands
  <2>2. \A d \in Clients : up'[d] = up[d] \/ up'[d] = "OTHER" \/ up'[d] = NoMsg
    BY <1>2 DEF IInv, TypeOK
  <2>3. QED  BY <1>2, <2>1, <2>2 DEF IInv, TypeOK
<1>5. Paired' /\ Shapes'
  BY <1>1, <1>4, Still DEF IInv, game
<1>6. Ordered'
  <2>1. \A d \in Clients : /\ HasPlayed(d)' => HasPlayed(d)
                           /\ AwaitsFirst(d)' <=> AwaitsFirst(d)
    BY <1>1, <1>4 DEF HasPlayed, AwaitsFirst, AwaitsTwo
  <2>2. QED  BY <1>1, <1>4, <2>1 DEF IInv, Logic, Ordered, Is
<1>7. ~NobodyLeft'
  BY <1>4 DEF NobodyLeft
<1>8. QED  BY <1>3, <1>5, <1>6, <1>7 DEF IInv, Logic, News, Hands

LEMMA HandleServerMessageInv ==
  ASSUME IInv, NEW c \in Clients, HandleServerMessage(c)
  PROVE  IInv'
<1>1. UNCHANGED <<client, wants, up, conn, writer, slot, inbox, missed, dispatcher, packFor,
                  publishes, queue, pair, match, over, round, laid, Maker, Resolver>>
  BY DEF HandleServerMessage, server, broker, dispatch, game, Maker, Resolver
<1> DEFINE heard == IF down[c].t = "MATCH_FOUND" THEN TRUE
                    ELSE IF down[c].t = "MATCH_END" THEN FALSE ELSE inMatch[c]
           hand  == IF down[c].t = "STATE" THEN down[c].round
                    ELSE IF down[c].t = "MATCH_END" THEN 0 ELSE shown[c]
<1>2. /\ down[c] # NoMsg
      /\ inMatch' = [inMatch EXCEPT ![c] = heard]
      /\ shown' = [shown EXCEPT ![c] = hand]
      /\ down' = [down EXCEPT ![c] = NoMsg]
  BY DEF HandleServerMessage
<1>3. TypeOK'
  <2>1. /\ inMatch \in [Clients -> BOOLEAN] /\ shown \in [Clients -> 0 .. MaxRounds]
        /\ down \in [Clients -> ServerMsg \cup {NoMsg}]
    BY DEF IInv, TypeOK
  <2>2. down[c] \in ServerMsg
    BY <1>2, <2>1
  <2>3. down[c].round \in 0 .. MaxRounds
    BY <2>2 DEF ServerMsg
  <2>4. heard \in BOOLEAN
    BY <2>1, Zenon
  <2> HIDE DEF heard
  <2>5. shown[c] \in 0 .. MaxRounds /\ 0 \in 0 .. MaxRounds
    BY <2>1, BoundsAssumption
  <2>6. hand \in 0 .. MaxRounds
    BY <2>3, <2>5, Zenon
  <2> HIDE DEF hand
  <2>7. /\ inMatch' \in [Clients -> BOOLEAN] /\ shown' \in [Clients -> 0 .. MaxRounds]
        /\ down' \in [Clients -> ServerMsg \cup {NoMsg}]
    BY <1>2, <2>1, <2>4, <2>6, Zenon
  <2>8. QED  BY <1>1, <2>7 DEF IInv, TypeOK
<1>4. \A d \in Clients : /\ d # c => /\ inMatch'[d] = inMatch[d] /\ shown'[d] = shown[d]
                                     /\ down'[d] = down[d]
                         /\ inMatch'[c] = heard /\ shown'[c] = hand /\ ~Is(down'[c], "STATE")
                         /\ down'[c] = NoMsg
  BY <1>2 DEF IInv, TypeOK, Is
<1>5. Paired' /\ Shapes'
  <2>1. Is(down[c], "MATCH_FOUND") => round # 0
    BY DEF IInv, Logic, Ordered
  <2>2. \A d \in Clients : inMatch'[d] => inMatch[d] \/ round # 0
    BY <1>2, <1>4, <2>1 DEF Is
  <2>3. QED  BY <1>1, <2>2, Still DEF IInv, game
<1>6. /\ \A d \in Clients : /\ AwaitsFound(d)' <=> AwaitsFound(d)
                            /\ AwaitsFirst(d)' <=> AwaitsFirst(d)
                            /\ AwaitsLast(d)' <=> AwaitsLast(d)
                            /\ HasPlayed(d)' <=> HasPlayed(d)
      /\ NobodyLeft' <=> NobodyLeft
  BY <1>1 DEF AwaitsFound, AwaitsFirst, AwaitsLast, AwaitsOne, AwaitsTwo, NobodyLeft, HasPlayed
<1>7. Ordered'
  <2>1. /\ AwaitsFirst(c) \/ round = 0 => shown'[c] = 0
        /\ Is(slot[c], "MATCH_FOUND") => shown'[c] = 0
    BY <1>2, <1>4 DEF IInv, Logic, Ordered, Is
  <2>2. QED  BY <1>1, <1>4, <1>6, <2>1 DEF IInv, Logic, Ordered, Is
<1>8. News'
  <2>1. NobodyLeft /\ ~over => ~Is(down[c], "MATCH_END")
    BY DEF IInv, Logic, News
  <2>2. over => ~Is(down[c], "MATCH_FOUND")
    BY DEF IInv, Logic, Ordered
  <2> SUFFICES ASSUME NobodyLeft, NEW d \in Clients
               PROVE  /\ ~over => ~Is(slot[d], "MATCH_END") /\ ~Is(down'[d], "MATCH_END")
                      /\ over /\ "news" \notin missed[d] =>
                           AwaitsLast(d) \/ Is(slot[d], "MATCH_END") \/ Is(down'[d], "MATCH_END")
                             \/ ~inMatch'[d]
                      /\ ~over /\ round > 0 /\ "news" \notin missed[d] =>
                           AwaitsFound(d) \/ Is(slot[d], "MATCH_FOUND") \/ Is(down'[d], "MATCH_FOUND")
                             \/ inMatch'[d]
    BY <1>1, <1>6 DEF News
  <2>3. /\ ~over => ~Is(slot[d], "MATCH_END") /\ ~Is(down[d], "MATCH_END")
        /\ over /\ "news" \notin missed[d] =>
             AwaitsLast(d) \/ Is(slot[d], "MATCH_END") \/ Is(down[d], "MATCH_END") \/ ~inMatch[d]
        /\ ~over /\ round > 0 /\ "news" \notin missed[d] =>
             AwaitsFound(d) \/ Is(slot[d], "MATCH_FOUND") \/ Is(down[d], "MATCH_FOUND") \/ inMatch[d]
    BY DEF IInv, Logic, News
  <2>4. CASE d # c
    BY <1>4, <2>3, <2>4
  <2>5. CASE d = c
    <3>1. ~Is(down'[c], "MATCH_END") /\ ~Is(down'[c], "MATCH_FOUND")
      BY <1>4 DEF Is
    <3>2. Is(down[c], "MATCH_FOUND") => inMatch'[c]
      BY <1>2, <1>4 DEF Is
    <3>3. Is(down[c], "MATCH_END") => ~inMatch'[c]
      BY <1>2, <1>4 DEF Is
    <3>4. ~Is(down[c], "MATCH_FOUND") /\ ~Is(down[c], "MATCH_END") => inMatch'[c] = inMatch[c]
      BY <1>2, <1>4 DEF Is
    <3>5. QED  BY <2>1, <2>2, <2>3, <2>5, <3>1, <3>2, <3>3, <3>4
  <2>6. QED  BY <2>4, <2>5
<1>9. Hands'
  <2>1. NobodyLeft /\ ~over => ~Is(down[c], "MATCH_END")
    BY DEF IInv, Logic, News
  <2>2. CASE ~(NobodyLeft /\ round > 0 /\ ~over)
    BY <1>1, <1>6, <2>2 DEF Hands
  <2>3. CASE NobodyLeft /\ round > 0 /\ ~over
    <3> SUFFICES ASSUME NEW d \in Clients, "state" \notin missed[d]
                 PROVE  \/ AwaitsFirst(d) \/ AwaitsLast(d)
                        \/ Is(slot[d], "STATE") /\ slot[d].round = round
                        \/ ~Is(slot[d], "STATE") /\ Is(down'[d], "STATE") /\ down'[d].round = round
                        \/ ~Is(slot[d], "STATE") /\ ~Is(down'[d], "STATE") /\ shown'[d] = round
      BY <1>1, <1>6 DEF Hands
    <3>1. \/ AwaitsFirst(d) \/ AwaitsLast(d)
          \/ Is(slot[d], "STATE") /\ slot[d].round = round
          \/ ~Is(slot[d], "STATE") /\ Is(down[d], "STATE") /\ down[d].round = round
          \/ ~Is(slot[d], "STATE") /\ ~Is(down[d], "STATE") /\ shown[d] = round
      BY <2>3 DEF IInv, Logic, Hands
    <3>2. CASE d # c
      BY <1>4, <3>1, <3>2
    <3>3. CASE d = c
      BY <1>2, <1>4, <2>1, <2>3, <3>1, <3>3 DEF Is
    <3>4. QED  BY <3>2, <3>3
  <2>4. QED  BY <2>2, <2>3
<1>10. QED  BY <1>3, <1>5, <1>7, <1>8, <1>9 DEF IInv, Logic

----------------------------------------------------------------------------
(* The goroutines of a connection.                                          *)

LEMMA ReadLoopInv ==
  ASSUME IInv, NEW c \in Clients, ReadLoop(c)
  PROVE  IInv'
<1>1. UNCHANGED <<client, wants, inMatch, shown, down, conn, writer, slot, missed, dispatcher,
                  packFor, publishes, queue, pair, match, over, round, laid, Maker, Resolver>>
  BY DEF ReadLoop, terminal, server, dispatch, game, Maker, Resolver
<1>2. /\ up[c] # NoMsg /\ up' = [up EXCEPT ![c] = NoMsg]
      /\ inbox' = <<c, up[c]>> \/ inbox' = inbox
  BY DEF ReadLoop
<1>3. TypeOK'
  <2>1. up \in [Clients -> ClientMsgs \cup {NoMsg}] /\ inbox \in (Clients \X ClientMsgs) \cup {NoMsg}
    BY DEF IInv, TypeOK
  <2>2. up' \in [Clients -> ClientMsgs \cup {NoMsg}] /\ up[c] \in ClientMsgs
    BY <1>2, <2>1
  <2>3. inbox' \in (Clients \X ClientMsgs) \cup {NoMsg}
    BY <1>2, <2>1, <2>2
  <2>4. QED  BY <1>1, <2>2, <2>3 DEF IInv, TypeOK
<1>4. Paired' /\ Shapes'
  BY <1>1, Still DEF IInv, game
<1>5. \A d \in Clients : HasPlayed(d)' => HasPlayed(d)
  <2>1. NoMsg # "PLAY"
    BY NothingAssumption DEF ClientMsgs, Commands
  <2>2. \A d \in Clients : up'[d] = up[d] \/ up'[d] = NoMsg
    BY <1>2 DEF IInv, TypeOK
  <2>3. \A d \in Clients : inbox' = <<d, "PLAY">> => inbox = <<d, "PLAY">> \/ up[d] = "PLAY"
    BY <1>2
  <2>4. QED  BY <1>1, <2>1, <2>2, <2>3 DEF HasPlayed
<1>6. Ordered' /\ News' /\ Hands'
  BY <1>1, <1>5, Calm DEF IInv
<1>7. QED  BY <1>3, <1>4, <1>6 DEF IInv, Logic

LEMMA WriteLoopInv ==
  ASSUME IInv, NEW c \in Clients, WriteLoop(c)
  PROVE  IInv'
<1>1. UNCHANGED <<client, wants, inMatch, shown, up, conn, writer, inbox, missed, dispatcher,
                  packFor, publishes, queue, pair, match, over, round, laid, Maker, Resolver>>
  BY DEF WriteLoop, terminal, server, dispatch, game, Maker, Resolver
<1>2. PICK r \in (IF slot[c].t = "STATE" THEN slot[c].round .. round ELSE {0}) :
        down' = IF client[c] = "playing"
                  THEN [down EXCEPT ![c] = [slot[c] EXCEPT !.round = r]] ELSE down
  BY DEF WriteLoop
<1> DEFINE m == [slot[c] EXCEPT !.round = r]
<1>3. /\ writer[c] /\ slot[c] # NoMsg /\ down[c] = NoMsg
      /\ slot' = [slot EXCEPT ![c] = NoMsg]
  BY DEF WriteLoop
<1>4. /\ slot[c] \in ServerMsg /\ m \in ServerMsg /\ m.t = slot[c].t /\ m.round = r
      /\ m # NoMsg
      /\ slot[c].t = "STATE" /\ slot[c].round = round => r = round
  <2>1. slot[c] \in ServerMsg /\ round \in 0 .. MaxRounds
    BY <1>3 DEF IInv, TypeOK
  <2>2. slot[c].round \in 0 .. MaxRounds
    BY <2>1 DEF ServerMsg
  <2>3. r \in 0 .. MaxRounds
    BY <2>1, <2>2, BoundsAssumption
  <2>4. m \in ServerMsg /\ m.t = slot[c].t /\ m.round = r
    BY <2>1, <2>3 DEF ServerMsg
  <2>5. m # NoMsg
    BY <2>4, NothingAssumption
  <2>6. slot[c].t = "STATE" /\ slot[c].round = round => r = round
    BY <2>1, <2>2
  <2>7. QED  BY <2>1, <2>4, <2>5, <2>6
<1> HIDE DEF m
<1>5. down' = IF client[c] = "playing" THEN [down EXCEPT ![c] = m] ELSE down
  BY <1>2 DEF m
<1>6. TypeOK'
  <2>1. slot \in [Clients -> ServerMsg \cup {NoMsg}] /\ down \in [Clients -> ServerMsg \cup {NoMsg}]
    BY DEF IInv, TypeOK
  <2>2. slot' \in [Clients -> ServerMsg \cup {NoMsg}] /\ down' \in [Clients -> ServerMsg \cup {NoMsg}]
    BY <1>3, <1>4, <1>5, <2>1, Zenon
  <2>3. QED  BY <1>1, <2>2 DEF IInv, TypeOK
<1>7. Paired' /\ Shapes'
  BY <1>1, Still DEF IInv, game
<1>8. /\ \A d \in Clients : /\ AwaitsFound(d)' <=> AwaitsFound(d)
                            /\ AwaitsFirst(d)' <=> AwaitsFirst(d)
                            /\ AwaitsLast(d)' <=> AwaitsLast(d)
                            /\ HasPlayed(d)' <=> HasPlayed(d)
      /\ NobodyLeft' <=> NobodyLeft
  BY <1>1 DEF AwaitsFound, AwaitsFirst, AwaitsLast, AwaitsOne, AwaitsTwo, NobodyLeft, HasPlayed
<1>9. \A d \in Clients : /\ d # c => slot'[d] = slot[d] /\ down'[d] = down[d]
                         /\ slot'[c] = NoMsg
                         /\ down'[c] = IF client[c] = "playing" THEN m ELSE NoMsg
                         /\ client[c] = "playing" \/ client[c] = "gone"
  BY <1>3, <1>5 DEF IInv, TypeOK, Logic, Shapes
<1>10. Ordered'
  BY <1>1, <1>3, <1>4, <1>8, <1>9 DEF IInv, Logic, Ordered, Is
<1>11. News'
  <2>1. NobodyLeft => client[c] = "playing"
    BY <1>9 DEF NobodyLeft
  <2>2. QED  BY <1>1, <1>3, <1>4, <1>8, <1>9, <2>1 DEF IInv, Logic, News, Is
<1>12. Hands'
  <2>1. NobodyLeft => client[c] = "playing"
    BY <1>9 DEF NobodyLeft
  <2>2. QED  BY <1>1, <1>3, <1>4, <1>8, <1>9, <2>1 DEF IInv, Logic, Hands, Is
<1>13. QED  BY <1>6, <1>7, <1>10, <1>11, <1>12 DEF IInv, Logic

LEMMA WriteLoopEndsInv ==
  ASSUME IInv, NEW c \in Clients, WriteLoopEnds(c)
  PROVE  IInv'
<1>1. UNCHANGED <<client, wants, inMatch, shown, up, down, conn, inbox, missed, dispatcher,
                  packFor, publishes, queue, pair, match, over, round, laid, Maker, Resolver>>
  BY DEF WriteLoopEnds, terminal, wires, dispatch, game, Maker, Resolver
<1>2. /\ writer' = [writer EXCEPT ![c] = FALSE] /\ slot' = [slot EXCEPT ![c] = NoMsg]
      /\ client[c] = "gone" \/ conn[c] \notin {"none", "reading"}
  BY DEF WriteLoopEnds
<1>3. TypeOK'
  <2>1. writer \in [Clients -> BOOLEAN] /\ slot \in [Clients -> ServerMsg \cup {NoMsg}]
    BY DEF IInv, TypeOK
  <2>2. writer' \in [Clients -> BOOLEAN] /\ slot' \in [Clients -> ServerMsg \cup {NoMsg}]
    BY <1>2, <2>1, Zenon
  <2>3. QED  BY <1>1, <2>2 DEF IInv, TypeOK
<1>4. \A d \in Clients : /\ writer'[d] => writer[d]
                         /\ slot'[d] = slot[d] \/ slot'[d] = NoMsg
  BY <1>2 DEF IInv, TypeOK
<1>5. Paired'
  BY <1>1 DEF IInv, Logic, Paired
<1>6. Shapes'
  BY <1>1, <1>4 DEF IInv, Logic, Shapes, Left
<1>7. Ordered'
  <2>1. \A d \in Clients : /\ HasPlayed(d)' <=> HasPlayed(d)
                           /\ AwaitsFirst(d)' <=> AwaitsFirst(d)
    BY <1>1 DEF HasPlayed, AwaitsFirst, AwaitsTwo
  <2>2. QED  BY <1>1, <1>4, <2>1 DEF IInv, Logic, Ordered, Is
<1>8. ~NobodyLeft'
  BY <1>1, <1>2 DEF IInv, Logic, Shapes, NobodyLeft
<1>9. QED  BY <1>3, <1>5, <1>6, <1>7, <1>8 DEF IInv, Logic, News, Hands

\* A connection goes on to its next place.
LEMMA ConnGoesOn ==
  ASSUME IInv, NEW c \in Clients,
         NEW place \in {"unsubscribed", "notifying", "closed"}, conn' = [conn EXCEPT ![c] = place]
  PROVE  /\ conn' \in [Clients -> {"none", "reading", "unsubscribed", "notifying", "closed"}]
         /\ \A d \in Clients : d # c => conn'[d] = conn[d]
BY DEF IInv, TypeOK

LEMMA UnsubscribeInv ==
  ASSUME IInv, NEW c \in Clients, Unsubscribe(c) \/ CloseConn(c)
  PROVE  IInv'
<1>1. UNCHANGED <<client, wants, inMatch, shown, up, down, writer, slot, inbox, missed, dispatcher,
                  packFor, publishes, queue, pair, match, over, round, laid, Maker, Resolver>>
  BY DEF Unsubscribe, CloseConn, terminal, wires, broker, dispatch, game, Maker, Resolver
<1>2. PICK place \in {"unsubscribed", "notifying", "closed"} : conn' = [conn EXCEPT ![c] = place]
  BY DEF Unsubscribe, CloseConn
<1>3. client[c] = "gone"
  BY DEF Unsubscribe, CloseConn, IInv, Logic, Shapes
<1>4. /\ conn' \in [Clients -> {"none", "reading", "unsubscribed", "notifying", "closed"}]
      /\ \A d \in Clients : d # c => conn'[d] = conn[d]
  BY <1>2, ConnGoesOn
<1>5. TypeOK'
  BY <1>1, <1>4 DEF IInv, TypeOK
<1>6. Paired'
  BY <1>1 DEF IInv, Logic, Paired
<1>7. Shapes'
  BY <1>1, <1>3, <1>4 DEF IInv, Logic, Shapes, Left
<1>8. Ordered' /\ News' /\ Hands'
  <2>1. \A d \in Clients : HasPlayed(d)' => HasPlayed(d)
    BY <1>1 DEF HasPlayed
  <2>2. QED  BY <1>1, <2>1, Calm DEF IInv
<1>9. QED  BY <1>5, <1>6, <1>7, <1>8 DEF IInv, Logic

LEMMA CleanupPlayerInv ==
  ASSUME IInv, NEW c \in Clients, CleanupPlayer(c)
  PROVE  IInv'
<1>1. UNCHANGED <<client, wants, inMatch, shown, up, down, writer, slot, inbox, missed, dispatcher,
                  packFor, pair, over, round, laid>>
  BY DEF CleanupPlayer, terminal, wires, broker, dispatch
<1>2. /\ conn' = [conn EXCEPT ![c] = "notifying"] /\ client[c] = "gone"
      /\ queue' = RemoveFirst(queue, c)
  BY DEF CleanupPlayer, IInv, Logic, Shapes
<1>3. /\ conn' \in [Clients -> {"none", "reading", "unsubscribed", "notifying", "closed"}]
      /\ \A d \in Clients : d # c => conn'[d] = conn[d]
  BY <1>2, ConnGoesOn
<1>4. queue' \in Seq(Clients) /\ IsInjective(queue')
  BY <1>2, RemoveFirstRange DEF IInv, TypeOK
<1>5. /\ publishes' \in [Publishers -> Seq([to : Clients, msg : ServerMsg])]
      /\ \A g \in Publishers : g # c => publishes'[g] = publishes[g]
      /\ \A i \in DOMAIN publishes'[c] : publishes'[c][i].msg.t \in {"OTHER", "MATCH_END"}
      /\ publishes'[c] = publishes[c] \/ round # 0
      /\ match' = match \/ (match = "active" /\ match' = "removed")
  <2>1. CASE match = "active" /\ c \in Range(pair)
    <3> DEFINE S == [to : Clients, msg : ServerMsg]
               x == To(Other(c), Says("OTHER"))
               y == To(Other(c), Says("MATCH_END"))
               q == <<x, y>>
    <3>1. x \in S /\ y \in S /\ x.msg.t = "OTHER" /\ y.msg.t = "MATCH_END"
      BY Names, Messages, ToType DEF To, Says, End
    <3>2. match' = "removed" /\ publishes' = [publishes EXCEPT ![c] = q]
      BY <2>1 DEF CleanupPlayer
    <3> HIDE DEF S, x, y
    <3>3. q \in Seq(S) /\ \A i \in DOMAIN q : q[i].msg.t \in {"OTHER", "MATCH_END"}
      BY <3>1
    <3> HIDE DEF q
    <3>4. /\ publishes' \in [Publishers -> Seq([to : Clients, msg : ServerMsg])]
          /\ publishes'[c] = q
          /\ \A g \in Publishers : g # c => publishes'[g] = publishes[g]
      BY <3>2, <3>3, Names, Publishing DEF S, IInv
    <3>5. round # 0
      BY <2>1 DEF IInv, TypeOK, Logic, Paired
    <3>6. QED  BY <2>1, <3>2, <3>3, <3>4, <3>5
  <2>2. CASE ~(match = "active" /\ c \in Range(pair))
    <3>1. UNCHANGED <<match, publishes>>
      BY <2>2 DEF CleanupPlayer
    <3>2. QED  BY <3>1 DEF IInv, TypeOK, Logic, Shapes
  <2>3. QED  BY <2>1, <2>2
<1>6. TypeOK'
  <2>1. match' \in {"none", "making", "active", "removed"}
    BY <1>5 DEF IInv, TypeOK
  <2>2. QED  BY <1>1, <1>3, <1>4, <1>5, <2>1 DEF IInv, TypeOK
<1>7. Maker' = Maker /\ Resolver' = Resolver /\ publishes'["dispatcher"] = publishes["dispatcher"]
  BY <1>5, Names DEF Maker, Resolver
<1>8. Paired'
  BY <1>1, <1>5, <1>7, Names DEF IInv, Logic, Paired
<1>9. Shapes'
  <2>1. \A d \in Clients : d # c => publishes'[d] = publishes[d] /\ conn'[d] = conn[d]
    BY <1>3, <1>5, Names
  <2>2. /\ Left(Maker, Found, State(1))'
        /\ Left(Resolver, Told, IF over THEN End ELSE State(round))'
    BY <1>1, <1>7, LeftAsBefore DEF IInv
  <2>3. \A i \in DOMAIN publishes'["dispatcher"] : publishes'["dispatcher"][i].msg.t = "OTHER"
    BY <1>7 DEF IInv, Logic, Shapes
  <2>4. ASSUME NEW d \in Clients
        PROVE  /\ \A i \in DOMAIN publishes'[d] : publishes'[d][i].msg.t \in {"OTHER", "MATCH_END"}
               /\ publishes'[d] # <<>> \/ conn'[d] \notin {"none", "reading"} => client'[d] = "gone"
               /\ writer'[d] => client'[d] # "new"
    <3>1. CASE d = c
      BY <1>1, <1>2, <1>5, <3>1 DEF IInv, Logic, Shapes
    <3>2. CASE d # c
      BY <1>1, <2>1, <3>2 DEF IInv, Logic, Shapes
    <3>3. QED  BY <3>1, <3>2
  <2>5. QED  BY <2>2, <2>3, <2>4 DEF Shapes
<1>10. Ordered' /\ News' /\ Hands'
  <2>1. \A d \in Clients : HasPlayed(d)' => HasPlayed(d)
    BY <1>1 DEF HasPlayed
  <2>2. QED  BY <1>1, <1>7, <2>1, Calm DEF IInv
<1>11. QED  BY <1>6, <1>8, <1>9, <1>10 DEF IInv, Logic

----------------------------------------------------------------------------
(* The dispatcher.                                                          *)

LEMMA ListenInv ==
  ASSUME IInv, Listen
  PROVE  IInv'
<1>1. UNCHANGED <<client, wants, inMatch, shown, up, down, conn, writer, slot, inbox, missed,
                  packFor, publishes, queue, pair, match, over, round, laid, Maker, Resolver>>
  BY DEF Listen, terminal, wires, server, broker, game, Maker, Resolver
<1>2. TypeOK'
  BY <1>1 DEF Listen, IInv, TypeOK
<1>3. Paired' /\ Shapes'
  BY <1>1, Still DEF IInv, game
<1>4. Ordered' /\ News' /\ Hands'
  <2>1. \A d \in Clients : HasPlayed(d)' => HasPlayed(d)
    BY <1>1 DEF HasPlayed
  <2>2. QED  BY <1>1, <2>1, Calm DEF IInv
<1>5. QED  BY <1>2, <1>3, <1>4 DEF IInv, Logic

\* A step of the dispatcher takes no card but the one it is given, and answers nothing about
\* the match.
DispatcherActs ==
  /\ UNCHANGED <<terminal, wires, server, slot, missed, pair, match, over, round>>
  /\ \/ UNCHANGED publishes
     \/ Answers(<<>>)
     \/ \E c \in Clients : Answers(<<To(c, Says("OTHER"))>>)
  /\ inbox' = inbox \/ inbox' = NoMsg
  /\ \/ laid' = laid
     \/ match = "active" /\ \E c \in Clients : inbox = <<c, "PLAY">> /\ laid' = laid \cup {c}
  /\ dispatcher' \in {"free", "waiting"}
  /\ packFor' \in IF dispatcher' = "waiting" THEN Clients ELSE {Nobody}
  /\ queue' \in Seq(Clients) /\ IsInjective(queue')

LEMMA DispatcherStep ==
  ASSUME IInv, DispatcherActs
  PROVE  IInv'
<1>1. UNCHANGED <<client, wants, inMatch, shown, up, down, conn, writer, slot, missed, pair, match,
                  over, round>>
  BY DEF DispatcherActs, terminal, wires, server
<1>2. /\ publishes' \in [Publishers -> Seq([to : Clients, msg : ServerMsg])]
      /\ \A i \in DOMAIN publishes'["dispatcher"] : publishes'["dispatcher"][i].msg.t = "OTHER"
      /\ \A g \in Publishers : g # "dispatcher" => publishes'[g] = publishes[g]
  <2>1. CASE UNCHANGED publishes
    BY <2>1 DEF IInv, TypeOK, Logic, Shapes
  <2>2. CASE Answers(<<>>)
    <3>1. PICK c \in Clients : TRUE
      BY ClientsAssumption
    <3>2. QED  BY <2>2, Answering DEF IInv
  <2>3. CASE \E c \in Clients : Answers(<<To(c, Says("OTHER"))>>)
    BY <2>3, Answering DEF IInv
  <2>4. QED  BY <2>1, <2>2, <2>3 DEF DispatcherActs
<1>3. Maker' = Maker /\ Resolver' = Resolver /\ \A c \in Clients : publishes'[c] = publishes[c]
  BY <1>2, Names DEF Maker, Resolver
<1>4. laid' \in SUBSET Clients /\ inbox' \in (Clients \X ClientMsgs) \cup {NoMsg}
  BY DEF DispatcherActs, IInv, TypeOK
<1>5. TypeOK'
  BY <1>1, <1>2, <1>4 DEF DispatcherActs, IInv, TypeOK
<1>6. Paired'
  <2>1. laid' = laid \/ round # 0
    BY DEF DispatcherActs, IInv, TypeOK, Logic, Paired
  <2>2. QED  BY <1>1, <1>3, <2>1 DEF IInv, Logic, Paired
<1>7. Shapes'
  <2>1. /\ Left(Maker, Found, State(1))'
        /\ Left(Resolver, Told, IF over THEN End ELSE State(round))'
    BY <1>1, <1>3, LeftAsBefore DEF IInv
  <2>2. QED  BY <1>1, <1>2, <1>3, <2>1 DEF IInv, Logic, Shapes
<1>8. Ordered' /\ News' /\ Hands'
  <2>1. \A c \in Clients : inbox' = <<c, "PLAY">> => inbox = <<c, "PLAY">>
    BY NothingAssumption DEF DispatcherActs, ClientMsgs, Commands
  <2>2. \A c \in Clients : c \in laid' => c \in laid \/ inbox = <<c, "PLAY">>
    BY DEF DispatcherActs
  <2>3. \A c \in Clients : HasPlayed(c)' => HasPlayed(c)
    BY <1>1, <2>1, <2>2 DEF HasPlayed
  <2>4. QED  BY <1>1, <1>3, <2>3, Calm DEF IInv
<1>9. QED  BY <1>5, <1>6, <1>7, <1>8 DEF IInv, Logic

LEMMA HandleInv ==
  ASSUME IInv, NEW c \in Clients, Handle(c)
  PROVE  IInv'
<1>1. /\ UNCHANGED <<terminal, wires, server, slot, missed, pair, match, over, round>>
      /\ inbox' = NoMsg /\ dispatcher = "free"
  BY DEF Handle, HandleFindMatch, HandlePlay, HandleChat, HandleOther, HandleOpenPack, Takes, game
<1>2. packFor = Nobody /\ queue \in Seq(Clients) /\ IsInjective(queue)
  BY <1>1 DEF IInv, TypeOK
<1> DEFINE published ==
             \/ UNCHANGED publishes
             \/ Answers(<<>>)
             \/ \E d \in Clients : Answers(<<To(d, Says("OTHER"))>>)
           lies ==
             \/ laid' = laid
             \/ match = "active" /\ \E d \in Clients : inbox = <<d, "PLAY">> /\ laid' = laid \cup {d}
           takes ==
             /\ dispatcher' \in {"free", "waiting"}
             /\ packFor' \in IF dispatcher' = "waiting" THEN Clients ELSE {Nobody}
<1>3. SUFFICES published /\ lies /\ takes /\ queue' \in Seq(Clients) /\ IsInjective(queue')
  BY <1>1, DispatcherStep DEF DispatcherActs
<1>4. CASE HandleFindMatch(c)
  <2>1. queue' \in Seq(Clients) /\ IsInjective(queue')
    BY <1>2, <1>4, AppendRange, AppendProperties DEF HandleFindMatch
  <2>2. UNCHANGED <<dispatcher, packFor, laid>> /\ Answers(<<To(c, Says("OTHER"))>>)
    BY <1>4 DEF HandleFindMatch, dispatch
  <2>3. QED  BY <1>1, <1>2, <2>1, <2>2
<1>5. CASE HandlePlay(c)
  <2>1. /\ UNCHANGED <<dispatcher, packFor, queue>>
        /\ UNCHANGED publishes \/ Answers(<<To(c, Says("OTHER"))>>)
        /\ laid' = laid \/ (match = "active" /\ inbox = <<c, "PLAY">> /\ laid' = laid \cup {c})
    BY <1>5 DEF HandlePlay, Takes, dispatch
  <2>2. QED  BY <1>1, <1>2, <2>1
<1>6. CASE HandleChat(c)
  <2>1. /\ UNCHANGED <<dispatcher, packFor, queue, laid>> /\ Other(c) \in Clients
        /\ Answers(<<To(Other(c), Says("OTHER"))>>) \/ Answers(<<>>)
    BY <1>6, Names DEF HandleChat, dispatch, game
  <2>2. QED  BY <1>1, <1>2, <2>1
<1>7. CASE HandleOther(c)
  <2>1. UNCHANGED <<dispatcher, packFor, queue, laid>> /\ Answers(<<To(c, Says("OTHER"))>>)
    BY <1>7 DEF HandleOther, dispatch, game
  <2>2. QED  BY <1>1, <1>2, <2>1
<1>8. CASE HandleOpenPack(c)
  <2>1. UNCHANGED <<publishes, queue, laid>> /\ dispatcher' = "waiting" /\ packFor' = c
    BY <1>8 DEF HandleOpenPack, game
  <2>2. QED  BY <1>1, <1>2, <2>1
<1>9. QED  BY <1>4, <1>5, <1>6, <1>7, <1>8 DEF Handle

LEMMA PackIsAnsweredInv ==
  ASSUME IInv, PackIsAnswered
  PROVE  IInv'
<1>1. UNCHANGED <<terminal, wires, server, slot, inbox, missed, queue, pair, match, over, round, laid>>
  BY DEF PackIsAnswered, broker, game
<1>2. dispatcher' = "free" /\ packFor' = Nobody /\ Answers(<<To(packFor, Says("OTHER"))>>)
  BY DEF PackIsAnswered
<1>3. packFor \in Clients
  BY DEF PackIsAnswered, IInv, TypeOK
<1>4. queue' \in Seq(Clients) /\ IsInjective(queue')
  BY <1>1 DEF IInv, TypeOK
<1>5. /\ \E c \in Clients : Answers(<<To(c, Says("OTHER"))>>)
      /\ packFor' \in IF dispatcher' = "waiting" THEN Clients ELSE {Nobody}
      /\ dispatcher' \in {"free", "waiting"}
  BY <1>2, <1>3
<1>6. DispatcherActs
  BY <1>1, <1>4, <1>5 DEF DispatcherActs
<1>7. QED  BY <1>6, DispatcherStep

----------------------------------------------------------------------------
(* Publishing.                                                              *)

\* The next message of telling both players m and then n: it is for one of them, who then
\* waits for n or for nothing more, and changes nothing for the other one.
Goes(q, t, m, n, c) ==
  /\ Left(t, m, n) /\ AwaitsTwo(q, c) /\ ~AwaitsOne(t, c)
  /\ \/ Head(q).msg = m /\ AwaitsTwo(t, c)
     \/ Head(q).msg = n /\ ~AwaitsOne(q, c) /\ ~AwaitsTwo(t, c)
  /\ \A d \in {pair[1], pair[2]} : d # c => /\ AwaitsOne(t, d) <=> AwaitsOne(q, d)
                                            /\ AwaitsTwo(t, d) <=> AwaitsTwo(q, d)

LEMMA LeftHead ==
  ASSUME NEW q, NEW m, NEW n, Left(q, m, n), q # <<>>, pair[1] # pair[2]
  PROVE  Goes(q, Tail(q), m, n, Head(q).to)
<1> DEFINE w == To(pair[1], m)
           x == To(pair[2], m)
           y == To(pair[1], n)
           z == To(pair[2], n)
<1>1. q = <<z>> \/ q = <<y, z>> \/ q = <<x, y, z>> \/ q = <<w, x, y, z>>
  BY DEF Left
<1>2. /\ w.to = pair[1] /\ x.to = pair[2] /\ y.to = pair[1] /\ z.to = pair[2]
      /\ w.msg = m /\ x.msg = m /\ y.msg = n /\ z.msg = n
  BY DEF To
<1> HIDE DEF w, x, y, z
<1> DEFINE c == Head(q).to
<1> DEFINE Goal(t, h, k, l) ==
             /\ k >= 2 \/ (k = 1 /\ c = pair[2])
             /\ ~(l = 4 \/ (l = 3 /\ c = pair[2]))
             /\ \/ h.msg = m /\ (l >= 2 \/ (l = 1 /\ c = pair[2]))
                \/ /\ h.msg = n /\ ~(k = 4 \/ (k = 3 /\ c = pair[2]))
                   /\ ~(l >= 2 \/ (l = 1 /\ c = pair[2]))
             /\ \A d \in {pair[1], pair[2]} : d # c =>
                  /\ (l = 4 \/ (l = 3 /\ d = pair[2])) <=> (k = 4 \/ (k = 3 /\ d = pair[2]))
                  /\ (l >= 2 \/ (l = 1 /\ d = pair[2])) <=> (k >= 2 \/ (k = 1 /\ d = pair[2]))
<1>0. SUFFICES Left(Tail(q), m, n) /\ Goal(Tail(q), Head(q), Len(q), Len(Tail(q)))
  BY Zenon DEF Goes, AwaitsOne, AwaitsTwo
<1> HIDE DEF c
<1>3. CASE q = <<z>>
  <2>1. Tail(q) = <<>> /\ Len(q) = 1 /\ Len(Tail(q)) = 0 /\ Head(q) = z
    BY <1>3
  <2>2. Left(Tail(q), m, n)
    BY <2>1 DEF Left
  <2>3. c = z.to
    BY <2>1 DEF c
  <2>4. Goal(Tail(q), z, 1, 0)
    BY <1>2, <2>3
  <2>5. QED  BY <2>1, <2>2, <2>4, Zenon
<1>4. CASE q = <<y, z>>
  <2>1. Tail(q) = <<z>> /\ Len(q) = 2 /\ Len(Tail(q)) = 1 /\ Head(q) = y
    BY <1>4
  <2>2. Left(Tail(q), m, n)
    BY <2>1 DEF Left, z
  <2>3. c = y.to
    BY <2>1 DEF c
  <2>4. Goal(Tail(q), y, 2, 1)
    BY <1>2, <2>3
  <2>5. QED  BY <2>1, <2>2, <2>4, Zenon
<1>5. CASE q = <<x, y, z>>
  <2>1. Tail(q) = <<y, z>> /\ Len(q) = 3 /\ Len(Tail(q)) = 2 /\ Head(q) = x
    BY <1>5
  <2>2. Left(Tail(q), m, n)
    BY <2>1 DEF Left, y, z
  <2>3. c = x.to
    BY <2>1 DEF c
  <2>4. Goal(Tail(q), x, 3, 2)
    BY <1>2, <2>3
  <2>5. QED  BY <2>1, <2>2, <2>4, Zenon
<1>6. CASE q = <<w, x, y, z>>
  <2>1. Tail(q) = <<x, y, z>> /\ Len(q) = 4 /\ Len(Tail(q)) = 3 /\ Head(q) = w
    BY <1>6
  <2>2. Left(Tail(q), m, n)
    BY <2>1 DEF Left, x, y, z
  <2>3. c = w.to
    BY <2>1 DEF c
  <2>4. Goal(Tail(q), w, 4, 3)
    BY <1>2, <2>3
  <2>5. QED  BY <2>1, <2>2, <2>4, Zenon
<1>7. QED  BY <1>1, <1>3, <1>4, <1>5, <1>6

\* What a step of Publish leaves alone, and what becomes of its message.
LEMMA PublishFrame ==
  ASSUME IInv, NEW g \in Publishers, Publish(g),
         NEW c, NEW m, c = Head(publishes[g]).to, m = Head(publishes[g]).msg
  PROVE  /\ UNCHANGED <<client, wants, inMatch, shown, up, down, conn, writer, inbox, dispatcher,
                        packFor, queue, pair, match, over, round, laid>>
         /\ TypeOK' /\ c \in Clients /\ m # NoMsg
         /\ publishes[g] # <<>> /\ publishes'[g] = Tail(publishes[g])
         /\ \A h \in Publishers : h # g => publishes'[h] = publishes[h]
         /\ \A d \in Clients : d # c => slot'[d] = slot[d] /\ missed'[d] = missed[d]
         /\ \/ slot[c] = NoMsg /\ slot'[c] = m /\ missed'[c] = missed[c] \ Sort(m)
            \/ slot'[c] = slot[c] /\ (client[c] # "gone" => missed'[c] = missed[c] \cup Sort(m))
<1> DEFINE received == Subscribed(c) /\ slot[c] = NoMsg
           misses == IF received \/ client[c] = "gone" THEN missed[c] \ Sort(m)
                                                      ELSE missed[c] \cup Sort(m)
<1>1. /\ publishes[g] # <<>>
      /\ slot' = IF received THEN [slot EXCEPT ![c] = m] ELSE slot
      /\ missed' = [missed EXCEPT ![c] = misses]
      /\ publishes' = [publishes EXCEPT ![g] = Tail(publishes[g])]
      /\ UNCHANGED <<client, wants, inMatch, shown, up, down, conn, writer, inbox, dispatcher,
                     packFor, queue, pair, match, over, round, laid>>
  BY DEF Publish, terminal, wires, server, dispatch, game
<1>2. /\ c \in Clients /\ m \in ServerMsg
      /\ Tail(publishes[g]) \in Seq([to : Clients, msg : ServerMsg])
  BY <1>1, NextMessage DEF IInv
<1>3. m # NoMsg
  BY <1>2, NothingAssumption
<1>4. /\ publishes' \in [Publishers -> Seq([to : Clients, msg : ServerMsg])]
      /\ publishes'[g] = Tail(publishes[g])
      /\ \A h \in Publishers : h # g => publishes'[h] = publishes[h]
  BY <1>1, <1>2, Publishing DEF IInv
<1>5. slot \in [Clients -> ServerMsg \cup {NoMsg}] /\ missed \in [Clients -> SUBSET {"news", "state"}]
  BY DEF IInv, TypeOK
<1>6. misses \in SUBSET {"news", "state"}
  BY <1>2, <1>5 DEF Sort
<1>7. /\ slot' \in [Clients -> ServerMsg \cup {NoMsg}]
      /\ \A d \in Clients : d # c => slot'[d] = slot[d]
      /\ slot'[c] = IF received THEN m ELSE slot[c]
  BY <1>1, <1>2, <1>5
<1> HIDE DEF misses
<1>8. /\ missed' \in [Clients -> SUBSET {"news", "state"}]
      /\ \A d \in Clients : d # c => missed'[d] = missed[d]
      /\ missed'[c] = misses
  BY <1>1, <1>2, <1>5, <1>6
<1>9. TypeOK'
  BY <1>1, <1>4, <1>7, <1>8 DEF IInv, TypeOK
<1>10. \/ slot[c] = NoMsg /\ slot'[c] = m /\ missed'[c] = missed[c] \ Sort(m)
       \/ slot'[c] = slot[c] /\ (client[c] # "gone" => missed'[c] = missed[c] \cup Sort(m))
  BY <1>7, <1>8 DEF misses
<1>11. QED  BY <1>1, <1>2, <1>3, <1>4, <1>7, <1>8, <1>9, <1>10

\* The answers of the dispatcher and the notice of a cleanup tell who is connected nothing
\* about a match.
LEMMA PublishAnswer ==
  ASSUME IInv, NEW g \in Clients \cup {"dispatcher"}, Publish(g)
  PROVE  IInv'
<1> DEFINE c == Head(publishes[g]).to
           m == Head(publishes[g]).msg
<1>1. g \in Publishers /\ g # "matchmaker" /\ g # "round"
  BY Names
<1>2. /\ UNCHANGED <<client, wants, inMatch, shown, up, down, conn, writer, inbox, dispatcher,
                     packFor, queue, pair, match, over, round, laid>>
      /\ TypeOK' /\ c \in Clients /\ m # NoMsg
      /\ publishes[g] # <<>> /\ publishes'[g] = Tail(publishes[g])
      /\ \A h \in Publishers : h # g => publishes'[h] = publishes[h]
      /\ \A d \in Clients : d # c => slot'[d] = slot[d] /\ missed'[d] = missed[d]
      /\ \/ slot[c] = NoMsg /\ slot'[c] = m /\ missed'[c] = missed[c] \ Sort(m)
         \/ slot'[c] = slot[c] /\ (client[c] # "gone" => missed'[c] = missed[c] \cup Sort(m))
  BY <1>1, PublishFrame
<1>3. /\ Head(publishes[g]) = publishes[g][1] /\ 1 \in DOMAIN publishes[g]
      /\ \A i \in DOMAIN publishes'[g] :
           i + 1 \in DOMAIN publishes[g] /\ publishes'[g][i] = publishes[g][i + 1]
  <2> DEFINE S == [to : Clients, msg : ServerMsg]
  <2>1. publishes[g] \in Seq(S)
    BY <1>1 DEF IInv, TypeOK
  <2> HIDE DEF S
  <2>2. /\ Len(publishes[g]) \in Nat \ {0} /\ DOMAIN publishes[g] = 1 .. Len(publishes[g])
        /\ Tail(publishes[g]) \in Seq(S) /\ Len(Tail(publishes[g])) = Len(publishes[g]) - 1
        /\ \A i \in 1 .. Len(publishes[g]) - 1 : Tail(publishes[g])[i] = publishes[g][i + 1]
        /\ Head(publishes[g]) = publishes[g][1]
    BY <1>2, <2>1, HeadTailProperties, EmptySeq, LenProperties, SMT
  <2>3. DOMAIN Tail(publishes[g]) = 1 .. Len(publishes[g]) - 1
    BY <2>2, LenProperties
  <2>4. QED  BY <1>2, <2>2, <2>3
<1>4. m.t = "OTHER" \/ (m.t = "MATCH_END" /\ ~NobodyLeft /\ round # 0)
  <2>1. CASE g = "dispatcher"
    BY <1>3, <2>1 DEF IInv, Logic, Shapes
  <2>2. CASE g # "dispatcher"
    <3>1. g \in Clients
      BY <2>2
    <3>2. m.t \in {"OTHER", "MATCH_END"} /\ client[g] = "gone"
      BY <1>2, <1>3, <3>1 DEF IInv, Logic, Shapes
    <3>3. ~NobodyLeft /\ round # 0
      BY <1>2, <3>1, <3>2 DEF NobodyLeft, IInv, Logic, Paired
    <3>4. QED  BY <3>2, <3>3
  <2>3. QED  BY <2>1, <2>2
<1> HIDE DEF c, m
<1>5. Maker' = Maker /\ Resolver' = Resolver
  BY <1>1, <1>2, Names DEF Maker, Resolver
<1>6. Paired'
  <2>1. \A d \in Clients : round = 0 => publishes'[d] = <<>>
    <3> SUFFICES ASSUME NEW d \in Clients, round = 0 PROVE publishes'[d] = <<>>
      OBVIOUS
    <3>1. publishes[d] = <<>>
      BY DEF IInv, Logic, Paired
    <3>2. d # g
      BY <1>2, <3>1
    <3>3. QED  BY <1>2, <3>1, <3>2, Names
  <2>2. QED  BY <1>2, <1>5, <2>1 DEF IInv, Logic, Paired
<1>7. Shapes'
  <2>1. \A i \in DOMAIN publishes'["dispatcher"] : publishes'["dispatcher"][i].msg.t = "OTHER"
    <3>1. CASE g = "dispatcher"
      BY <1>3, <3>1 DEF IInv, Logic, Shapes
    <3>2. CASE g # "dispatcher"
      BY <1>2, <3>2, Names DEF IInv, Logic, Shapes
    <3>3. QED  BY <3>1, <3>2
  <2>2. ASSUME NEW d \in Clients
        PROVE  /\ \A i \in DOMAIN publishes'[d] : publishes'[d][i].msg.t \in {"OTHER", "MATCH_END"}
               /\ publishes'[d] # <<>> => publishes[d] # <<>>
    <3>1. CASE d = g
      <4>1. \A i \in DOMAIN publishes[d] : publishes[d][i].msg.t \in {"OTHER", "MATCH_END"}
        BY DEF IInv, Logic, Shapes
      <4>2. \A i \in DOMAIN publishes'[d] : publishes'[d][i].msg.t \in {"OTHER", "MATCH_END"}
        BY <1>3, <3>1, <4>1
      <4>3. QED  BY <1>2, <3>1, <4>2
    <3>2. CASE d # g
      BY <1>2, <3>2, Names DEF IInv, Logic, Shapes
    <3>3. QED  BY <3>1, <3>2
  <2>3. QED  BY <1>2, <1>5, <2>1, <2>2 DEF IInv, Logic, Shapes, Left
<1>8. /\ \A d \in Clients : /\ AwaitsFound(d)' <=> AwaitsFound(d)
                            /\ AwaitsFirst(d)' <=> AwaitsFirst(d)
                            /\ AwaitsLast(d)' <=> AwaitsLast(d)
                            /\ HasPlayed(d)' <=> HasPlayed(d)
      /\ NobodyLeft' <=> NobodyLeft
  BY <1>2, <1>5 DEF AwaitsFound, AwaitsFirst, AwaitsLast, AwaitsOne, AwaitsTwo, NobodyLeft, HasPlayed
<1>9. \A d \in Clients :
        /\ Is(slot'[d], "STATE") <=> Is(slot[d], "STATE")
        /\ Is(slot[d], "STATE") => slot'[d] = slot[d]
        /\ Is(slot'[d], "MATCH_FOUND") <=> Is(slot[d], "MATCH_FOUND")
        /\ Is(slot'[d], "MATCH_END") => Is(slot[d], "MATCH_END") \/ round # 0
        /\ NobodyLeft => (Is(slot'[d], "MATCH_END") <=> Is(slot[d], "MATCH_END"))
  BY <1>2, <1>4 DEF Is
<1>10. Ordered'
  BY <1>2, <1>5, <1>8, <1>9 DEF IInv, Logic, Ordered
<1>11. NobodyLeft => missed' = missed
  <2>1. ASSUME NobodyLeft PROVE \A d \in Clients : missed'[d] = missed[d]
    <3>1. m.t = "OTHER" /\ client[c] # "gone"
      BY <1>2, <1>4, <2>1 DEF NobodyLeft
    <3>2. Sort(m) = {}
      BY <3>1 DEF Sort
    <3>3. QED  BY <1>2, <3>1, <3>2
  <2>2. QED  BY <1>2, <2>1 DEF IInv, TypeOK
<1>12. News'
  BY <1>2, <1>8, <1>9, <1>11 DEF IInv, Logic, News
<1>13. Hands'
  BY <1>2, <1>8, <1>9, <1>11 DEF IInv, Logic, Hands
<1>14. QED  BY <1>2, <1>6, <1>7, <1>10, <1>12, <1>13 DEF IInv, Logic

\* The message of the matchmaker to one player: the match, or the hand of the first round.
LEMMA PublishMatch ==
  ASSUME IInv, Publish("matchmaker")
  PROVE  IInv'
<1>0. PICK c, m : c = Head(Maker).to /\ m = Head(Maker).msg
  OBVIOUS
<1>1. /\ UNCHANGED <<client, wants, inMatch, shown, up, down, conn, writer, inbox, dispatcher,
                     packFor, queue, pair, match, over, round, laid>>
      /\ TypeOK' /\ c \in Clients /\ m # NoMsg
      /\ Maker # <<>> /\ Maker' = Tail(Maker)
      /\ \A h \in Publishers : h # "matchmaker" => publishes'[h] = publishes[h]
      /\ \A d \in Clients : d # c => slot'[d] = slot[d] /\ missed'[d] = missed[d]
      /\ \/ slot[c] = NoMsg /\ slot'[c] = m /\ missed'[c] = missed[c] \ Sort(m)
         \/ slot'[c] = slot[c] /\ (client[c] # "gone" => missed'[c] = missed[c] \cup Sort(m))
  <2>1. /\ "matchmaker" \in Publishers /\ Maker = publishes["matchmaker"]
        /\ Maker' = publishes'["matchmaker"]
    BY Names DEF Maker
  <2>2. c = Head(publishes["matchmaker"]).to /\ m = Head(publishes["matchmaker"]).msg
    BY <1>0, <2>1
  <2>3. QED  BY <2>1, <2>2, PublishFrame
<1>2. /\ Resolver' = Resolver /\ publishes'["dispatcher"] = publishes["dispatcher"]
      /\ \A d \in Clients : publishes'[d] = publishes[d]
  BY <1>1, Names DEF Resolver
<1>3. /\ ~over /\ round = 1 /\ Resolver = <<>> /\ match # "none"
  BY <1>1 DEF IInv, TypeOK, Logic, Ordered, Paired
<1>4. pair[1] # pair[2] /\ Clients = {pair[1], pair[2]}
  BY <1>3, Players DEF IInv, Logic
<1>5. /\ Left(Maker', Found, State(1)) /\ AwaitsTwo(Maker, c) /\ ~AwaitsOne(Maker', c)
      /\ \/ m = Found /\ AwaitsTwo(Maker', c)
         \/ m = State(1) /\ ~AwaitsOne(Maker, c) /\ ~AwaitsTwo(Maker', c)
      /\ \A d \in Clients : d # c => /\ AwaitsOne(Maker', d) <=> AwaitsOne(Maker, d)
                                     /\ AwaitsTwo(Maker', d) <=> AwaitsTwo(Maker, d)
  <2>1. Left(Maker, Found, State(1))
    BY DEF IInv, Logic, Shapes
  <2>0. Maker # <<>> /\ pair[1] # pair[2] /\ c = Head(Maker).to
    BY <1>0, <1>1, <1>4
  <2>2. Goes(Maker, Tail(Maker), Found, State(1), c)
    BY <2>0, <2>1, LeftHead, Zenon
  <2>3. Maker' = Tail(Maker) /\ m = Head(Maker).msg /\ Clients = {pair[1], pair[2]}
    BY <1>0, <1>1, <1>4
  <2>4. QED  BY <2>2, <2>3, Zenon DEF Goes
<1>6. Paired'
  BY <1>1, <1>2, <1>3 DEF IInv, Logic, Paired
<1>7. Shapes'
  <2>1. Left(Maker, Found, State(1))'
    BY <1>1, <1>5 DEF Left, Found, State
  <2>2. Left(Resolver, Told, IF over THEN End ELSE State(round))'
    BY <1>2, <1>3 DEF Left
  <2>3. QED  BY <1>1, <1>2, <2>1, <2>2 DEF IInv, Logic, Shapes
<1>8. /\ \A d \in Clients : /\ AwaitsFirst(d)' => AwaitsFirst(d)
                            /\ AwaitsLast(d)' <=> AwaitsLast(d)
                            /\ HasPlayed(d)' <=> HasPlayed(d)
                            /\ d # c => /\ AwaitsFound(d)' <=> AwaitsFound(d)
                                        /\ AwaitsFirst(d)' <=> AwaitsFirst(d)
      /\ AwaitsFirst(c) /\ (AwaitsFirst(c)' <=> AwaitsTwo(Maker', c))
      /\ ~AwaitsFound(c)'
      /\ NobodyLeft' <=> NobodyLeft
  <2>1. \A d \in Clients : /\ AwaitsFound(d)' <=> AwaitsOne(Maker', d)
                           /\ AwaitsFirst(d)' <=> AwaitsTwo(Maker', d)
    BY <1>1 DEF AwaitsFound, AwaitsFirst, AwaitsOne, AwaitsTwo
  <2>2. \A d \in Clients : /\ AwaitsLast(d)' <=> AwaitsLast(d)
                           /\ HasPlayed(d)' <=> HasPlayed(d)
    BY <1>1, <1>2 DEF AwaitsLast, AwaitsTwo, HasPlayed
  <2>3. NobodyLeft' <=> NobodyLeft
    BY <1>1 DEF NobodyLeft
  <2>4. ASSUME NEW d \in Clients
        PROVE  /\ AwaitsFirst(d)' => AwaitsFirst(d)
               /\ d # c => /\ AwaitsFound(d)' <=> AwaitsFound(d)
                           /\ AwaitsFirst(d)' <=> AwaitsFirst(d)
    <3>1. CASE d = c
      BY <1>5, <3>1 DEF AwaitsFirst
    <3>2. CASE d # c
      <4>1. AwaitsOne(Maker', d) <=> AwaitsOne(Maker, d)
        BY <1>5, <3>2
      <4>2. AwaitsTwo(Maker', d) <=> AwaitsTwo(Maker, d)
        BY <1>5, <3>2
      <4>3. AwaitsFound(d)' <=> AwaitsFound(d)
        BY <2>1, <4>1 DEF AwaitsFound
      <4>4. AwaitsFirst(d)' <=> AwaitsFirst(d)
        BY <2>1, <4>2 DEF AwaitsFirst
      <4>5. QED  BY <4>3, <4>4
    <3>3. QED  BY <3>1, <3>2
  <2>5. /\ AwaitsFirst(c) /\ (AwaitsFirst(c)' <=> AwaitsTwo(Maker', c))
        /\ ~AwaitsFound(c)'
    BY <1>1, <1>5, <2>1, Zenon DEF AwaitsFirst
  <2>6. QED  BY <2>2, <2>3, <2>4, <2>5
<1>9. CASE m = Found
  <2>1. m.t = "MATCH_FOUND" /\ Sort(m) = {"news"} /\ AwaitsFirst(c)
    BY <1>8, <1>9 DEF Found, Says, Sort
  <2>2. /\ ~HasPlayed(c) /\ shown[c] = 0 /\ ~Is(slot[c], "STATE") /\ ~Is(down[c], "STATE")
    BY <1>1, <2>1 DEF IInv, Logic, Ordered
  <2>3. Is(slot'[c], "MATCH_FOUND") \/ slot'[c] = slot[c]
    BY <1>1, <2>1 DEF Is
  <2>4. ~Is(slot'[c], "STATE") /\ (Is(slot'[c], "MATCH_END") => Is(slot[c], "MATCH_END"))
    BY <2>2, <2>3 DEF Is
  <2>5. Ordered'
    BY <1>1, <1>2, <1>3, <1>8, <2>2, <2>3, <2>4 DEF IInv, Logic, Ordered, Is
  <2>6. NobodyLeft => Is(slot'[c], "MATCH_FOUND") \/ "news" \in missed'[c]
    BY <1>1, <2>1 DEF NobodyLeft, Is
  <2>7. News'
    BY <1>1, <1>3, <1>8, <2>4, <2>6 DEF IInv, Logic, News
  <2>8. AwaitsFirst(c)'
    BY <1>5, <1>8, <1>9 DEF Found, Says, State
  <2>9. Hands'
    BY <1>1, <1>8, <2>8 DEF IInv, Logic, Hands
  <2>10. QED  BY <1>1, <1>6, <1>7, <2>5, <2>7, <2>9 DEF IInv, Logic
<1>10. CASE m = State(1)
  <2>1. m.t = "STATE" /\ m.round = 1 /\ Sort(m) = {"state"} /\ AwaitsFirst(c) /\ ~AwaitsFirst(c)'
    BY <1>5, <1>8, <1>10 DEF Found, Says, State, Sort
  <2>2. AwaitsFound(c)' <=> AwaitsFound(c)
    BY <1>5, <1>8, <1>10 DEF Found, Says, State, AwaitsFound
  <2>3. ~HasPlayed(c) /\ shown[c] = 0
    BY <1>1, <2>1 DEF IInv, Logic, Ordered
  <2>4. slot'[c] = slot[c] \/ (slot[c] = NoMsg /\ slot'[c] = m)
    BY <1>1
  <2>5. /\ Is(slot'[c], "MATCH_FOUND") <=> Is(slot[c], "MATCH_FOUND")
        /\ Is(slot'[c], "MATCH_END") <=> Is(slot[c], "MATCH_END")
    BY <1>1, <2>1, <2>4 DEF Is
  <2>6. Ordered'
    BY <1>1, <1>2, <1>3, <1>8, <2>1, <2>3, <2>5 DEF IInv, Logic, Ordered
  <2>7. NobodyLeft =>
          /\ "news" \in missed[c] => "news" \in missed'[c]
          /\ "state" \in missed'[c] \/ slot'[c] = m
    BY <1>1, <2>1 DEF NobodyLeft
  <2>8. News'
    BY <1>1, <1>3, <1>8, <2>2, <2>5, <2>7 DEF IInv, Logic, News
  <2>9. Hands'
    <3>1. slot'[c] = m => Is(slot'[c], "STATE") /\ slot'[c].round = round
      BY <1>1, <1>3, <2>1 DEF Is
    <3>2. QED  BY <1>1, <1>8, <2>7, <3>1 DEF IInv, Logic, Hands
  <2>10. QED  BY <1>1, <1>6, <1>7, <2>6, <2>8, <2>9 DEF IInv, Logic
<1>11. QED  BY <1>5, <1>9, <1>10

\* The message of the round to one player: its results, and then the hand of the next round
\* or the end.
LEMMA PublishRound ==
  ASSUME IInv, Publish("round")
  PROVE  IInv'
<1>0. PICK c, m : c = Head(Resolver).to /\ m = Head(Resolver).msg
  OBVIOUS
<1> DEFINE n == IF over THEN End ELSE State(round)
<1>1. /\ UNCHANGED <<client, wants, inMatch, shown, up, down, conn, writer, inbox, dispatcher,
                     packFor, queue, pair, match, over, round, laid>>
      /\ TypeOK' /\ c \in Clients /\ m # NoMsg
      /\ Resolver # <<>> /\ Resolver' = Tail(Resolver)
      /\ \A h \in Publishers : h # "round" => publishes'[h] = publishes[h]
      /\ \A d \in Clients : d # c => slot'[d] = slot[d] /\ missed'[d] = missed[d]
      /\ \/ slot[c] = NoMsg /\ slot'[c] = m /\ missed'[c] = missed[c] \ Sort(m)
         \/ slot'[c] = slot[c] /\ (client[c] # "gone" => missed'[c] = missed[c] \cup Sort(m))
  <2>1. /\ "round" \in Publishers /\ Resolver = publishes["round"]
        /\ Resolver' = publishes'["round"]
    BY Names DEF Resolver
  <2>2. c = Head(publishes["round"]).to /\ m = Head(publishes["round"]).msg
    BY <1>0, <2>1
  <2>3. QED  BY <2>1, <2>2, PublishFrame
<1>2. /\ Maker' = Maker /\ publishes'["dispatcher"] = publishes["dispatcher"]
      /\ \A d \in Clients : publishes'[d] = publishes[d]
  BY <1>1, Names DEF Maker
<1>3. /\ round # 0 /\ Maker = <<>> /\ match # "none"
  BY <1>1 DEF IInv, TypeOK, Logic, Ordered, Paired
<1>4. pair[1] # pair[2] /\ Clients = {pair[1], pair[2]}
  BY <1>3, Players DEF IInv, Logic
<1>5. /\ Left(Resolver', Told, n) /\ AwaitsTwo(Resolver, c)
      /\ \/ m = Told /\ AwaitsTwo(Resolver', c)
         \/ m = n
      /\ \A d \in Clients : d # c => (AwaitsTwo(Resolver', d) <=> AwaitsTwo(Resolver, d))
  <2>1. Left(Resolver, Told, n)
    BY DEF IInv, Logic, Shapes
  <2> HIDE DEF n
  <2>0. Resolver # <<>> /\ pair[1] # pair[2] /\ c = Head(Resolver).to
    BY <1>0, <1>1, <1>4
  <2>2. Goes(Resolver, Tail(Resolver), Told, n, c)
    BY <2>0, <2>1, LeftHead, Zenon
  <2>3. Resolver' = Tail(Resolver) /\ m = Head(Resolver).msg /\ Clients = {pair[1], pair[2]}
    BY <1>0, <1>1, <1>4
  <2>4. QED  BY <2>2, <2>3 DEF Goes
<1>6. Paired'
  BY <1>1, <1>2, <1>3 DEF IInv, Logic, Paired
<1>7. Shapes'
  <2>1. Left(Resolver, Told, IF over THEN End ELSE State(round))'
    BY <1>1, <1>5 DEF Left, Told, End, State
  <2>2. Left(Maker, Found, State(1))'
    BY <1>2, <1>3 DEF Left
  <2>3. QED  BY <1>1, <1>2, <2>1, <2>2 DEF IInv, Logic, Shapes
<1>8. /\ \A d \in Clients : /\ AwaitsFound(d)' <=> AwaitsFound(d)
                            /\ AwaitsFirst(d)' <=> AwaitsFirst(d)
                            /\ HasPlayed(d)' <=> HasPlayed(d)
                            /\ d # c => AwaitsLast(d)' <=> AwaitsLast(d)
                            /\ ~AwaitsFirst(d)
      /\ AwaitsLast(c) /\ (AwaitsLast(c)' <=> AwaitsTwo(Resolver', c))
      /\ NobodyLeft' <=> NobodyLeft
  <2>1. Len(Maker) = 0
    BY <1>3
  <2>2. \A d \in Clients : /\ AwaitsFound(d)' <=> AwaitsFound(d)
                           /\ AwaitsFirst(d)' <=> AwaitsFirst(d)
                           /\ HasPlayed(d)' <=> HasPlayed(d)
                           /\ ~AwaitsFirst(d)
    BY <1>1, <1>2, <2>1 DEF AwaitsFound, AwaitsFirst, AwaitsOne, AwaitsTwo, HasPlayed
  <2>3. \A d \in Clients : AwaitsLast(d)' <=> AwaitsTwo(Resolver', d)
    BY <1>1 DEF AwaitsLast, AwaitsTwo
  <2>4. NobodyLeft' <=> NobodyLeft
    BY <1>1 DEF NobodyLeft
  <2>5. QED  BY <1>1, <1>5, <2>2, <2>3, <2>4 DEF AwaitsLast
<1>9. slot'[c] = slot[c] \/ (slot[c] = NoMsg /\ slot'[c] = m)
  BY <1>1
<1>10. m.t # "MATCH_FOUND" /\ Told.t = "ROUND_RESULT" /\ End.t = "MATCH_END"
       /\ State(round).t = "STATE" /\ State(round).round = round
  BY <1>5 DEF Found, Told, End, Says, State
<1>11. /\ Is(slot'[c], "MATCH_FOUND") <=> Is(slot[c], "MATCH_FOUND")
  BY <1>1, <1>9, <1>10 DEF Is
<1>12. Ordered'
  BY <1>1, <1>2, <1>3, <1>8, <1>11 DEF IInv, Logic, Ordered
<1>13. CASE m = Told
  <2>1. Sort(m) = {} /\ (AwaitsLast(c)' <=> AwaitsLast(c))
    <3>1. m # n
      BY <1>10, <1>13
    <3>2. AwaitsTwo(Resolver', c)
      BY <1>5, <3>1
    <3>3. QED  BY <1>8, <1>10, <1>13, <3>2 DEF Sort
  <2>2. /\ Is(slot'[c], "MATCH_END") <=> Is(slot[c], "MATCH_END")
        /\ Is(slot'[c], "STATE") <=> Is(slot[c], "STATE")
        /\ Is(slot[c], "STATE") => slot'[c] = slot[c]
    BY <1>1, <1>9, <1>10, <1>13 DEF Is
  <2>3. NobodyLeft => missed'[c] = missed[c]
    BY <1>1, <2>1 DEF NobodyLeft
  <2>4. News'
    BY <1>1, <1>8, <1>11, <2>1, <2>2, <2>3 DEF IInv, Logic, News
  <2>5. Hands'
    BY <1>1, <1>8, <2>1, <2>2, <2>3 DEF IInv, Logic, Hands
  <2>6. QED  BY <1>1, <1>6, <1>7, <1>12, <2>4, <2>5 DEF IInv, Logic
<1>14. CASE over /\ m = End
  <2>1. Sort(m) = {"news"}
    BY <1>10, <1>14 DEF Sort
  <2>2. NobodyLeft => Is(slot'[c], "MATCH_END") \/ "news" \in missed'[c]
    BY <1>1, <1>10, <1>14, <2>1 DEF NobodyLeft, Is
  <2>3. News'
    BY <1>1, <1>8, <1>14, <2>2 DEF IInv, Logic, News
  <2>4. Hands'
    BY <1>1, <1>14 DEF Hands
  <2>5. QED  BY <1>1, <1>6, <1>7, <1>12, <2>3, <2>4 DEF IInv, Logic
<1>15. CASE ~over /\ m = State(round)
  <2>1. Sort(m) = {"state"}
    BY <1>10, <1>15 DEF Sort
  <2>2. /\ Is(slot'[c], "MATCH_END") <=> Is(slot[c], "MATCH_END")
    BY <1>1, <1>9, <1>10, <1>15 DEF Is
  <2>3. NobodyLeft =>
          /\ "news" \in missed[c] => "news" \in missed'[c]
          /\ "state" \in missed'[c] \/ slot'[c] = m
    BY <1>1, <2>1 DEF NobodyLeft
  <2>4. News'
    BY <1>1, <1>8, <1>11, <1>15, <2>2, <2>3 DEF IInv, Logic, News
  <2>5. Hands'
    <3>1. slot'[c] = m => Is(slot'[c], "STATE") /\ slot'[c].round = round
      BY <1>1, <1>10, <1>15 DEF Is
    <3>2. QED  BY <1>1, <1>8, <2>3, <3>1 DEF IInv, Logic, Hands
  <2>6. QED  BY <1>1, <1>6, <1>7, <1>12, <2>4, <2>5 DEF IInv, Logic
<1>16. QED  BY <1>5, <1>13, <1>14, <1>15

----------------------------------------------------------------------------
(* The matchmaker and the match.                                            *)

LEMMA TakePairInv ==
  ASSUME IInv, TakePair
  PROVE  IInv'
<1>1. UNCHANGED <<client, wants, inMatch, shown, up, down, conn, writer, slot, inbox, missed,
                  dispatcher, packFor, publishes, over, round, laid, Maker, Resolver>>
  BY DEF TakePair, terminal, wires, server, broker, dispatch, Maker, Resolver
<1>2. /\ Len(queue) >= 2 /\ match = "none" /\ match' = "making"
      /\ pair' = SubSeq(queue, 1, 2) /\ queue' = SubSeq(queue, 3, Len(queue))
  BY DEF TakePair
<1>3. queue \in Seq(Clients) /\ IsInjective(queue) /\ Len(queue) \in Nat
      /\ DOMAIN queue = 1 .. Len(queue)
  BY LenProperties DEF IInv, TypeOK
<1>4. pair' \in Seq(Clients) /\ Len(pair') = 2 /\ pair'[1] # pair'[2]
  <2>1. 1 \in DOMAIN queue /\ 2 \in DOMAIN queue
    BY <1>2, <1>3
  <2>2. queue[1] # queue[2] /\ queue[1] \in Clients /\ queue[2] \in Clients
    BY <1>3, <2>1 DEF IsInjective
  <2>3. \A i \in 1 .. 2 : queue[i] \in Clients
    BY <2>2
  <2>4. /\ SubSeq(queue, 1, 2) \in Seq(Clients)
        /\ Len(SubSeq(queue, 1, 2)) = IF 1 <= 2 THEN 2 - 1 + 1 ELSE 0
        /\ \A i \in 1 .. 2 - 1 + 1 : SubSeq(queue, 1, 2)[i] = queue[1 + i - 1]
    BY <2>3, SubSeqProperties
  <2>5. pair'[1] = queue[1] /\ pair'[2] = queue[2]
    BY <1>2, <2>4
  <2>6. QED  BY <1>2, <2>2, <2>4, <2>5
<1>5. queue' \in Seq(Clients) /\ IsInjective(queue')
  <2> DEFINE k == Len(queue) - 2
  <2>1. /\ queue' \in Seq(Clients) /\ Len(queue') = k /\ k \in Nat
        /\ \A i \in 1 .. k : queue'[i] = queue[2 + i]
    BY <1>2, <1>3, SubSeqTail
  <2>2. DOMAIN queue' = 1 .. k
    BY <2>1, LenProperties
  <2>3. ASSUME NEW i \in 1 .. k, NEW j \in 1 .. k, queue'[i] = queue'[j] PROVE i = j
    <3>1. 2 + i \in DOMAIN queue /\ 2 + j \in DOMAIN queue /\ queue[2 + i] = queue[2 + j]
      BY <1>3, <2>1, <2>3
    <3>2. 2 + i = 2 + j
      BY <1>3, <3>1 DEF IsInjective
    <3>3. QED  BY <3>2
  <2>4. QED  BY <2>1, <2>2, <2>3 DEF IsInjective
<1>6. TypeOK'
  BY <1>1, <1>2, <1>4, <1>5 DEF IInv, TypeOK
<1>7. round = 0 /\ Maker = <<>> /\ Resolver = <<>> /\ ~over
  BY <1>2 DEF IInv, TypeOK, Logic, Paired
<1>8. Paired'
  BY <1>1, <1>2, <1>4, <1>7 DEF IInv, Logic, Paired
<1>9. Shapes'
  BY <1>1, <1>7 DEF IInv, Logic, Shapes, Left
<1>10. Ordered'
  <2>1. \A c \in Clients : /\ HasPlayed(c)' <=> HasPlayed(c)
                           /\ ~AwaitsFirst(c)' /\ ~AwaitsFirst(c)
    BY <1>1, <1>7 DEF HasPlayed, AwaitsFirst, AwaitsTwo
  <2>2. QED  BY <1>1, <1>7, <2>1 DEF IInv, Logic, Ordered, Is
<1>11. News' /\ Hands'
  <2>1. NobodyLeft' <=> NobodyLeft
    BY <1>1 DEF NobodyLeft
  <2>2. News'
    BY <1>1, <1>7, <2>1 DEF IInv, Logic, News, Is
  <2>3. Hands'
    BY <1>1, <1>7 DEF Hands
  <2>4. QED  BY <2>2, <2>3
<1>12. QED  BY <1>6, <1>8, <1>9, <1>10, <1>11 DEF IInv, Logic

\* Four messages for the two players.
LEMMA ToBothType ==
  ASSUME NEW m \in ServerMsg, NEW n \in ServerMsg, pair[1] \in Clients, pair[2] \in Clients
  PROVE  /\ ToBoth(m, n) \in Seq([to : Clients, msg : ServerMsg])
         /\ Len(ToBoth(m, n)) = 4 /\ ToBoth(m, n) # <<>> /\ Left(ToBoth(m, n), m, n)
<1> DEFINE S == [to : Clients, msg : ServerMsg]
           w == To(pair[1], m)
           x == To(pair[2], m)
           y == To(pair[1], n)
           z == To(pair[2], n)
<1>1. w \in S /\ x \in S /\ y \in S /\ z \in S
  BY ToType
<1>2. ToBoth(m, n) = <<w, x, y, z>> /\ Left(<<w, x, y, z>>, m, n)
  BY DEF ToBoth, Left
<1> HIDE DEF S, w, x, y, z
<1>3. /\ <<w, x, y, z>> \in Seq(S) /\ Len(<<w, x, y, z>>) = 4
      /\ <<w, x, y, z>> # <<>>
  BY <1>1
<1>4. QED  BY <1>2, <1>3 DEF S

LEMMA CreateMatchInv ==
  ASSUME IInv, CreateMatch
  PROVE  IInv'
<1>1. UNCHANGED <<client, wants, inMatch, shown, up, down, conn, writer, slot, inbox, missed,
                  dispatcher, packFor, queue, pair, over, laid>>
  BY DEF CreateMatch, terminal, wires, server, broker, dispatch
<1>2. /\ match = "making" /\ match' = "active" /\ round' = 1
      /\ publishes' = [publishes EXCEPT !["matchmaker"] = ToBoth(Found, State(1))]
  BY DEF CreateMatch, Found
<1>3. /\ pair[1] \in Clients /\ pair[2] \in Clients /\ pair[1] # pair[2]
      /\ Clients = {pair[1], pair[2]}
  BY <1>2, Players DEF IInv, Logic
<1>4. 1 \in 1 .. MaxRounds /\ 1 \in 0 .. MaxRounds
  BY BoundsAssumption
<1>5. /\ ToBoth(Found, State(1)) \in Seq([to : Clients, msg : ServerMsg])
      /\ Len(ToBoth(Found, State(1))) = 4 /\ Left(ToBoth(Found, State(1)), Found, State(1))
  BY <1>3, <1>4, Messages, ToBothType
<1> DEFINE q == ToBoth(Found, State(1))
<1>6. q \in Seq([to : Clients, msg : ServerMsg]) /\ publishes' = [publishes EXCEPT !["matchmaker"] = q]
  BY <1>2, <1>5
<1> HIDE DEF q
<1>7. /\ publishes' \in [Publishers -> Seq([to : Clients, msg : ServerMsg])]
      /\ Maker' = q
      /\ \A h \in Publishers : h # "matchmaker" => publishes'[h] = publishes[h]
  BY <1>6, Names, Publishing DEF IInv, Maker
<1>8. TypeOK'
  BY <1>1, <1>2, <1>4, <1>7 DEF IInv, TypeOK
<1>9. round = 0 /\ Resolver = <<>> /\ ~over /\ laid = {}
  BY <1>2 DEF IInv, TypeOK, Logic, Paired
<1>10. /\ Resolver' = Resolver /\ publishes'["dispatcher"] = publishes["dispatcher"]
       /\ \A d \in Clients : publishes'[d] = publishes[d]
  BY <1>7, Names DEF Resolver
<1>11. Paired'
  <2>1. pair' \in Seq(Clients) /\ Len(pair') = 2 /\ pair'[1] # pair'[2]
    BY <1>1, <1>2 DEF IInv, TypeOK, Logic, Paired
  <2>2. QED  BY <1>2, <2>1 DEF Paired
<1>12. Shapes'
  <2>1. Left(Maker, Found, State(1))'
    BY <1>1, <1>5, <1>7 DEF Left, q, Found, Says, State
  <2>2. Left(Resolver, Told, IF over THEN End ELSE State(round))'
    BY <1>9, <1>10 DEF Left
  <2>3. QED  BY <1>1, <1>10, <2>1, <2>2 DEF IInv, Logic, Shapes
<1>13. /\ \A d \in Clients : AwaitsFound(d)' /\ AwaitsFirst(d)' /\ (HasPlayed(d)' <=> HasPlayed(d))
       /\ NobodyLeft' <=> NobodyLeft
  <2>1. Len(Maker') = 4
    BY <1>5, <1>7 DEF q
  <2>2. QED  BY <1>1, <2>1 DEF AwaitsFound, AwaitsFirst, AwaitsOne, AwaitsTwo, HasPlayed, NobodyLeft
<1>14. Ordered'
  <2>1. \A c \in Clients : /\ ~HasPlayed(c) /\ shown[c] = 0
                           /\ ~Is(slot[c], "STATE") /\ ~Is(down[c], "STATE")
                           /\ ~Is(slot[c], "MATCH_FOUND") /\ ~Is(down[c], "MATCH_FOUND")
    BY <1>9 DEF IInv, Logic, Ordered
  <2>2. QED  BY <1>1, <1>2, <1>9, <1>10, <1>13, <2>1 DEF Ordered, Is
<1>15. News'
  <2>1. \A c \in Clients : ~Is(slot[c], "MATCH_END") /\ ~Is(down[c], "MATCH_END")
    BY <1>9 DEF IInv, Logic, Ordered
  <2>2. QED  BY <1>1, <1>9, <1>13, <2>1 DEF News, Is
<1>16. Hands'
  BY <1>13 DEF Hands
<1>17. QED  BY <1>8, <1>11, <1>12, <1>14, <1>15, <1>16 DEF IInv, Logic

LEMMA ResolveRoundInv ==
  ASSUME IInv, ResolveRound
  PROVE  IInv'
<1>1. UNCHANGED <<client, wants, inMatch, shown, up, down, conn, writer, slot, inbox, missed,
                  dispatcher, packFor, queue, pair, match>>
  BY DEF ResolveRound, terminal, wires, server, broker, dispatch
<1>2. laid = Clients /\ laid' = {} /\ Resolver = <<>> /\ Len(Maker) # 1
  BY DEF ResolveRound, Unlocked, Resolver, Maker
<1>3. round # 0 /\ match \in {"active", "removed"} /\ round \in 0 .. MaxRounds
  <2>1. Clients # {}
    BY ClientsAssumption
  <2>2. QED  BY <1>2, <2>1 DEF IInv, TypeOK, Logic, Paired
<1>4. /\ pair[1] \in Clients /\ pair[2] \in Clients /\ pair[1] # pair[2]
      /\ Clients = {pair[1], pair[2]}
  BY <1>3, Players DEF IInv, Logic
<1>5. \A c \in Clients : /\ ~AwaitsFirst(c)
                         /\ ~Is(slot[c], "MATCH_FOUND") /\ ~Is(down[c], "MATCH_FOUND")
  BY <1>2 DEF IInv, Logic, Ordered, HasPlayed
<1>6. Maker = <<>>
  <2>1. Left(Maker, Found, State(1))
    BY DEF IInv, Logic, Shapes
  <2>2. ~(Len(Maker) >= 2) /\ Len(Maker) # 1
    BY <1>2, <1>4, <1>5 DEF AwaitsFirst, AwaitsTwo
  <2>3. QED  BY <2>1, <2>2 DEF Left
<1>7. PICK n \in ServerMsg :
        /\ publishes' = [publishes EXCEPT !["round"] = ToBoth(Told, n)]
        /\ \/ ~over /\ ~over' /\ round' = round + 1 /\ round < MaxRounds /\ n = State(round')
           \/ over' /\ round' = round /\ n = End
        /\ over' \in BOOLEAN
  <2>1. CASE /\ ~over /\ round < MaxRounds /\ round' = round + 1 /\ UNCHANGED over
             /\ publishes' = [publishes EXCEPT !["round"] =
                                ToBoth(Says("ROUND_RESULT"), State(round + 1))]
    <3>1. round' \in 1 .. MaxRounds
      BY <1>3, <2>1, BoundsAssumption
    <3>2. State(round') \in ServerMsg
      BY <3>1, Messages
    <3>3. publishes' = [publishes EXCEPT !["round"] = ToBoth(Told, State(round'))]
      BY <2>1 DEF Told
    <3>4. over' \in BOOLEAN
      BY <2>1 DEF IInv, TypeOK
    <3>5. QED  BY <2>1, <3>2, <3>3, <3>4
  <2>2. CASE /\ over' = TRUE /\ UNCHANGED round
             /\ publishes' = [publishes EXCEPT !["round"] =
                                ToBoth(Says("ROUND_RESULT"), Says("MATCH_END"))]
    BY <2>2, Messages DEF Told, End
  <2>3. QED  BY <2>1, <2>2 DEF ResolveRound
<1> DEFINE q == ToBoth(Told, n)
<1>8. /\ q \in Seq([to : Clients, msg : ServerMsg]) /\ Len(q) = 4 /\ q # <<>> /\ Left(q, Told, n)
  BY <1>4, <1>7, Messages, ToBothType
<1>9. publishes' = [publishes EXCEPT !["round"] = q]
  BY <1>7
<1> HIDE DEF q
<1>10. /\ publishes' \in [Publishers -> Seq([to : Clients, msg : ServerMsg])]
       /\ Resolver' = q
       /\ \A h \in Publishers : h # "round" => publishes'[h] = publishes[h]
  BY <1>8, <1>9, Names, Publishing DEF IInv, Resolver
<1>11. over' \in BOOLEAN /\ round' \in 0 .. MaxRounds /\ round' # 0
  <2>1. over' \in BOOLEAN /\ (round' = round \/ (round' = round + 1 /\ round < MaxRounds))
    BY <1>7
  <2>2. QED  BY <1>3, <2>1, BoundsAssumption
<1>12. TypeOK'
  BY <1>1, <1>2, <1>10, <1>11 DEF IInv, TypeOK
<1>13. /\ Maker' = Maker /\ publishes'["dispatcher"] = publishes["dispatcher"]
       /\ \A d \in Clients : publishes'[d] = publishes[d]
  BY <1>10, Names DEF Maker
<1>14. Paired'
  <2>1. round' > 0 /\ Len(pair') = 2 /\ pair'[1] # pair'[2] /\ match' \in {"active", "removed"}
    BY <1>1, <1>3, <1>11 DEF IInv, TypeOK, Logic, Paired
  <2>2. QED  BY <2>1 DEF Paired
<1>15. Shapes'
  <2>1. Left(Resolver, Told, IF over THEN End ELSE State(round))'
    BY <1>1, <1>7, <1>8, <1>10 DEF Left, Told, End, Says, State
  <2>2. Left(Maker, Found, State(1))'
    BY <1>6, <1>13 DEF Left
  <2>3. QED  BY <1>1, <1>13, <2>1, <2>2 DEF IInv, Logic, Shapes
<1>16. /\ \A d \in Clients : ~AwaitsFirst(d)' /\ AwaitsLast(d)' /\ (AwaitsFound(d)' <=> AwaitsFound(d))
       /\ NobodyLeft' <=> NobodyLeft
  <2>1. Len(Maker') = 0 /\ Len(Maker) = 0 /\ Len(Resolver') = 4
    BY <1>6, <1>8, <1>10, <1>13
  <2>2. QED  BY <1>1, <2>1 DEF AwaitsFound, AwaitsFirst, AwaitsLast, AwaitsOne, AwaitsTwo, NobodyLeft
<1>17. Ordered'
  BY <1>1, <1>5, <1>6, <1>11, <1>13, <1>16 DEF Ordered, Is
<1>18. News'
  <2>1. ~over' => ~over /\ round # 0
    BY <1>3, <1>7
  <2>2. round > 0
    BY <1>3
  <2>3. QED  BY <1>1, <1>16, <2>1, <2>2 DEF IInv, Logic, News, Is
<1>19. Hands'
  BY <1>16 DEF Hands
<1>20. QED  BY <1>12, <1>14, <1>15, <1>17, <1>18, <1>19 DEF IInv, Logic

LEMMA RemoveMatchInv ==
  ASSUME IInv, RemoveMatch
  PROVE  IInv'
<1>1. UNCHANGED <<client, wants, inMatch, shown, up, down, conn, writer, slot, inbox, missed,
                  dispatcher, packFor, publishes, queue, pair, over, round, laid, Maker, Resolver>>
  BY DEF RemoveMatch, terminal, wires, server, broker, dispatch, Maker, Resolver
<1>2. match = "active" /\ match' = "removed"
  BY DEF RemoveMatch
<1>3. TypeOK'
  BY <1>1, <1>2 DEF IInv, TypeOK
<1>4. Paired'
  BY <1>1, <1>2 DEF IInv, Logic, Paired
<1>5. Shapes'
  <2>1. /\ Left(Maker, Found, State(1))'
        /\ Left(Resolver, Told, IF over THEN End ELSE State(round))'
    BY <1>1, LeftAsBefore DEF IInv
  <2>2. QED  BY <1>1, <2>1 DEF IInv, Logic, Shapes
<1>6. Ordered' /\ News' /\ Hands'
  <2>1. \A d \in Clients : HasPlayed(d)' => HasPlayed(d)
    BY <1>1 DEF HasPlayed
  <2>2. QED  BY <1>1, <2>1, Calm DEF IInv
<1>7. QED  BY <1>3, <1>4, <1>5, <1>6 DEF IInv, Logic

----------------------------------------------------------------------------
(* The theorems.                                                            *)

LEMMA NextInv == IInv /\ [Next]_vars => IInv'
<1> SUFFICES ASSUME IInv, [Next]_vars PROVE IInv'
  OBVIOUS
<1>1. ASSUME NEW c \in Clients, Terminal(c) PROVE IInv'
  BY <1>1, ConnectInv, QuitInv, HandleServerMessageInv, SendInv DEF Terminal
<1>2. ASSUME NEW c \in Clients, ReadLoop(c) \/ WriteLoop(c) \/ WriteLoopEnds(c) PROVE IInv'
  BY <1>2, ReadLoopInv, WriteLoopInv, WriteLoopEndsInv
<1>3. ASSUME NEW c \in Clients, Cleanup(c) PROVE IInv'
  BY <1>3, UnsubscribeInv, CleanupPlayerInv DEF Cleanup
<1>4. ASSUME NEW g \in Publishers, Publish(g) PROVE IInv'
  <2>1. CASE g \in Clients \cup {"dispatcher"}
    BY <1>4, <2>1, PublishAnswer
  <2>2. CASE g = "matchmaker"
    BY <1>4, <2>2, PublishMatch
  <2>3. CASE g = "round"
    BY <1>4, <2>3, PublishRound
  <2>4. QED  BY <2>1, <2>2, <2>3 DEF Publishers
<1>5. ASSUME NEW c \in Clients, Handle(c) PROVE IInv'
  BY <1>5, HandleInv
<1>6. CASE Listen \/ PackIsAnswered
  BY <1>6, ListenInv, PackIsAnsweredInv
<1>7. CASE MatchGoesOn
  BY <1>7, TakePairInv, CreateMatchInv, ResolveRoundInv, RemoveMatchInv DEF MatchGoesOn
<1>8. CASE UNCHANGED vars
  <2>1. UNCHANGED <<client, wants, inMatch, shown, up, down, conn, writer, slot, inbox, missed,
                    dispatcher, packFor, publishes, queue, pair, match, over, round, laid,
                    Maker, Resolver>>
    BY <1>8 DEF vars, terminal, wires, server, broker, dispatch, game, Maker, Resolver
  <2>2. TypeOK'
    BY <2>1 DEF IInv, TypeOK
  <2>3. Paired' /\ Shapes'
    BY <2>1, Still DEF IInv, game
  <2>4. Ordered' /\ News' /\ Hands'
    <3>1. \A d \in Clients : HasPlayed(d)' => HasPlayed(d)
      BY <2>1 DEF HasPlayed
    <3>2. QED  BY <2>1, <3>1, Calm DEF IInv
  <2>5. QED  BY <2>2, <2>3, <2>4 DEF IInv, Logic
<1>9. QED  BY <1>1, <1>2, <1>3, <1>4, <1>5, <1>6, <1>7, <1>8 DEF Next

(* What is on its way to the players, and what they have done about it, is  *)
(* in the order of the match: the match is told before its hand, the hand   *)
(* before a card of it is played, the cards before the result.               *)
THEOREM Invariance == Spec => []IInv
BY InitInv, NextInv, PTL DEF Spec

(* The messages, places and queues of the clients and of the goroutines     *)
(* that serve them have their types, and nobody waits in the queue twice.    *)
THEOREM TypeCorrect == Spec => []TypeOK
<1>1. IInv => TypeOK
  BY DEF IInv
<1>2. QED  BY <1>1, Invariance, PTL

\* A client to which nothing is on its way awaits nothing from the goroutines that publish.
LEMMA NothingAwaited ==
  ASSUME IInv, NEW c \in Clients, Quiet(c), round # 0
  PROVE  /\ ~AwaitsFound(c) /\ ~AwaitsFirst(c) /\ ~AwaitsLast(c)
         /\ slot[c] = NoMsg /\ down[c] = NoMsg
<1>1. match # "none"
  BY DEF IInv, TypeOK, Logic, Paired
<1>2. pair[1] # pair[2] /\ Clients = {pair[1], pair[2]}
  BY <1>1, Players DEF IInv, Logic
<1>3. ASSUME NEW q, NEW m, NEW n, Left(q, m, n), \A i \in DOMAIN q : q[i].to # c
      PROVE  ~AwaitsOne(q, c) /\ ~AwaitsTwo(q, c)
  <2> DEFINE w == To(pair[1], m)
             x == To(pair[2], m)
             y == To(pair[1], n)
             z == To(pair[2], n)
  <2>1. w.to = pair[1] /\ x.to = pair[2] /\ y.to = pair[1] /\ z.to = pair[2]
    BY DEF To
  <2>2. q = <<>> \/ q = <<z>> \/ q = <<y, z>> \/ q = <<x, y, z>> \/ q = <<w, x, y, z>>
    BY <1>3 DEF Left
  <2> HIDE DEF w, x, y, z
  <2>3. CASE q = <<>>
    <3>1. Len(q) = 0
      BY <2>3
    <3>2. QED  BY <3>1 DEF AwaitsOne, AwaitsTwo
  <2>4. CASE q = <<z>>
    <3>1. Len(q) = 1 /\ z.to # c
      BY <1>3, <2>4
    <3>2. QED  BY <2>1, <3>1 DEF AwaitsOne, AwaitsTwo
  <2>5. CASE q = <<y, z>>
    BY <1>2, <1>3, <2>1, <2>5
  <2>6. CASE q = <<x, y, z>>
    BY <1>2, <1>3, <2>1, <2>6
  <2>7. CASE q = <<w, x, y, z>>
    BY <1>2, <1>3, <2>1, <2>7
  <2>8. QED  BY <2>2, <2>3, <2>4, <2>5, <2>6, <2>7
<1>4. Left(Maker, Found, State(1)) /\ Left(Resolver, Told, IF over THEN End ELSE State(round))
  BY DEF IInv, Logic, Shapes
<1>5. /\ \A i \in DOMAIN Maker : Maker[i].to # c
      /\ \A i \in DOMAIN Resolver : Resolver[i].to # c
  BY Names DEF Quiet, Maker, Resolver
<1>6. ~AwaitsFound(c) /\ ~AwaitsFirst(c)
  BY <1>3, <1>4, <1>5 DEF AwaitsFound, AwaitsFirst
<1>7. ~AwaitsLast(c)
  BY <1>3, <1>4, <1>5 DEF AwaitsLast
<1>8. QED  BY <1>6, <1>7 DEF Quiet

LEMMA View ==
  ASSUME IInv, BothConnected, NEW c \in Clients, Quiet(c), "news" \notin missed[c]
  PROVE  inMatch[c] <=> round > 0 /\ ~over
<1>1. NobodyLeft
  BY DEF BothConnected, NobodyLeft
<1>2. round \in Nat
  BY BoundsAssumption DEF IInv, TypeOK
<1>3. CASE round = 0
  BY <1>3 DEF IInv, Logic, Paired
<1>4. CASE round # 0
  <2>1. ~AwaitsFound(c) /\ ~AwaitsLast(c) /\ slot[c] = NoMsg /\ down[c] = NoMsg
    BY <1>4, NothingAwaited
  <2>2. round > 0
    BY <1>2, <1>4
  <2>3. QED  BY <1>1, <2>1, <2>2 DEF IInv, Logic, News, Is
<1>5. QED  BY <1>3, <1>4

(* A client and the server agree on whether it is in a match once nothing   *)
(* is on its way and unless the last message that says so was dropped, for   *)
(* every number of rounds and everything the clients may send meanwhile.     *)
THEOREM ViewIsTrue == Spec => []TrueView
<1>1. IInv => TrueView
  BY View DEF TrueView
<1>2. QED  BY <1>1, Invariance, PTL

(* Under the same conditions, and unless the last hand was dropped, the hand *)
(* a client plays from is the one of the round the match is in, although a   *)
(* STATE message refers to an array that later rounds change.                *)
THEOREM HandIsCurrent == Spec => []CurrentHand
<1>1. IInv => CurrentHand
  <2> SUFFICES ASSUME IInv, BothConnected, NEW c \in Clients,
                      Quiet(c), inMatch[c], missed[c] = {}
               PROVE  shown[c] = round
    BY DEF CurrentHand
  <2>1. NobodyLeft
    BY DEF BothConnected, NobodyLeft
  <2>2. round > 0 /\ ~over
    BY View
  <2>3. /\ ~AwaitsFirst(c) /\ ~AwaitsLast(c) /\ slot[c] = NoMsg /\ down[c] = NoMsg
    BY <2>2, NothingAwaited
  <2>4. QED  BY <2>1, <2>2, <2>3 DEF IInv, Logic, Hands, Is
<1>2. QED  BY <1>1, Invariance, PTL
=============================================================================
