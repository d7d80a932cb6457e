------------------------------- MODULE Packs -------------------------------
(***************************************************************************)
(* Opening packs: handleOpenPack, which queues a request and waits for its *)
(* answer or a timeout on the one dispatcher goroutine of its server, and  *)
(* the holder of the token, which takes the queue and draws the cards of   *)
(* each request from the pool the token carries, then those of the match   *)
(* it makes, local or with another server, and passes the token on.         *)
(*                                                                         *)
(* The ring is taken as TokenRing shows it without late POSTs: one token,  *)
(* that may get lost and is then regenerated by the leader, server 0.  A   *)
(* card is one copy of a card, so that handing it out twice can be seen;   *)
(* copies are numbered in the order of the shuffled pool.                  *)
(***************************************************************************)
EXTENDS Integers, SequencesExt

CONSTANTS
  N,           \* the number of servers
  Requests,    \* the pack requests of the clients
  Home,        \* the server each of them is made to
  Copies,      \* how many cards a new token, or a refill, has
  PackSize,    \* cardsPerPack
  HandSize,    \* the cards of a player in a match
  MaxMatches,  \* bound: when this many hands have been drawn, no match is started
  MaxLosses,   \* bound: how often the token gets lost
  MaxNils      \* bound: how often cards.json cannot be read to regenerate it

Servers == 0 .. N - 1
Leader  == 0

ASSUME NAssumption == N \in Nat /\ N >= 2
ASSUME HomeAssumption == Home \in [Requests -> Servers]
ASSUME CardsAssumption ==
  /\ Copies \in Nat /\ PackSize \in Nat /\ HandSize \in Nat
  /\ PackSize <= Copies /\ 2 * HandSize <= Copies
ASSUME BoundsAssumption == MaxMatches \in Nat /\ MaxLosses \in Nat /\ MaxNils \in Nat

VARIABLES
  handler,   \* what became of each request, as its client sees it
  queue,     \* PackRequestQueue of each server
  reply,     \* what was sent to the ReplyChan of each request
  phase,     \* what Run of each server does with the token
  batch,     \* the requests processPackRequests has taken and not yet answered
  tokenAt,   \* the server that has the token, or Nowhere
  pool,      \* CardPool of the token
  minted,    \* how many copies of cards have ever been put into a pool
  hands,     \* the cards drawn for the players of matches: two hands at once, or one
  discarded, \* how many hands were drawn for a player who then was not put in a match
  losses, nils

players == <<handler, reply>>
token   == <<tokenAt, pool, minted>>
matches == <<hands, discarded>>
vars    == <<players, queue, phase, batch, token, matches, losses, nils>>

Nowhere == -1

Answer(k, c) == [kind |-> k, cards |-> c]    \* a PackResult
NoReply == Answer("none", <<>>)

Copy == 1 .. minted

TypeOK ==
  /\ handler \in [Requests -> {"new", "waiting", "opened", "rejected", "timed out"}]
  /\ queue \in [Servers -> Seq(Requests)]
  /\ batch \in [Servers -> Seq(Requests)]
  /\ reply \in [Requests -> [kind : {"none", "cards", "sold out"}, cards : Seq(Copy)]]
  /\ phase \in [Servers -> {"idle", "packs", "matches", "host", "pass"}]
  /\ tokenAt \in Servers \cup {Nowhere}
  /\ minted \in Nat
  /\ pool \in Seq(Copy)
  /\ hands \in Seq(Seq(Copy))
  /\ discarded \in Nat
  /\ losses \in 0 .. MaxLosses
  /\ nils \in 0 .. MaxNils

Succ(s) == (s + 1) % N

----------------------------------------------------------------------------
(* The token.                                                              *)

\* LoadCardsFromJSON and refillPool_unsafe: fresh copies of every card, shuffled.
FreshCards == [i \in 1 .. Copies |-> minted + i]

\* Slip: a refill replaces what is left of the pool.
DrawFromRefill(n) ==
  LET full == IF Len(pool) < n THEN FreshCards ELSE pool
  IN  IF Len(full) < n
        THEN [ok |-> FALSE, cards |-> <<>>, left |-> full]
        ELSE [ok |-> TRUE, cards |-> SubSeq(full, 1, n), left |-> SubSeq(full, n + 1, Len(full))]

\* Slip: the cards drawn stay in the pool.
DrawAndKeep(n) ==
  LET full == IF Len(pool) < n THEN pool \o FreshCards ELSE pool
  IN  IF Len(full) < n
        THEN [ok |-> FALSE, cards |-> <<>>, left |-> full]
        ELSE [ok |-> TRUE, cards |-> SubSeq(full, 1, n), left |-> full]

\* Slip: the slice handed out ends one card early.
DrawShort(n) ==
  LET full == IF Len(pool) < n THEN pool \o FreshCards ELSE pool
  IN  IF Len(full) < n
        THEN [ok |-> FALSE, cards |-> <<>>, left |-> full]
        ELSE [ok |-> TRUE, cards |-> SubSeq(full, 1, n - 1), left |-> SubSeq(full, n + 1, Len(full))]

\* DrawCards: refill a pool that is too small, then take the first n cards.
DrawCards(n) ==
  LET full == IF Len(pool) < n THEN pool \o FreshCards ELSE pool
  IN  IF Len(full) < n
        THEN [ok |-> FALSE, cards |-> <<>>, left |-> full]
        ELSE [ok |-> TRUE, cards |-> SubSeq(full, 1, n), left |-> SubSeq(full, n + 1, Len(full))]

\* Slip: a refill puts copies into the pool that are there already.
TakeWithoutMinting(n) == pool' = DrawCards(n).left /\ UNCHANGED minted

\* The pool after a draw of n cards.
TakeFromPool(n) ==
  /\ pool' = DrawCards(n).left
  /\ minted' = IF Len(pool) < n THEN minted + Copies ELSE minted

----------------------------------------------------------------------------
(* The clients' side: handleOpenPack.                                      *)

\* The dispatcher of the server is blocked while a request waits.
Dispatching(s) == \A r \in Requests : Home[r] = s => handler[r] # "waiting"

OpenPack(r) ==
  /\ handler[r] = "new" /\ Dispatching(Home[r])
  /\ handler' = [handler EXCEPT ![r] = "waiting"]
  /\ queue' = [queue EXCEPT ![Home[r]] = Append(@, r)]
  /\ UNCHANGED <<reply, phase, batch, token, matches, losses, nils>>

\* The answer arrives first.
ReceiveReply(r) ==
  /\ handler[r] = "waiting" /\ reply[r] # NoReply
  /\ handler' = [handler EXCEPT ![r] = IF reply[r].kind = "cards" THEN "opened"
                                                                     ELSE "rejected"]
  /\ UNCHANGED <<reply, queue, phase, batch, token, matches, losses, nils>>

\* The timeout does, or is chosen among both.  The request stays where it is.
TimeOut(r) ==
  /\ handler[r] = "waiting"
  /\ handler' = [handler EXCEPT ![r] = "timed out"]
  /\ UNCHANGED <<reply, queue, phase, batch, token, matches, losses, nils>>

----------------------------------------------------------------------------
(* The holder's side: processPackRequests, the matches, the pass.          *)

\* Slip: the queue is handed out but not cleared.
DequeueAndKeep(s) ==
  batch' = [batch EXCEPT ![s] = queue[s]] /\ UNCHANGED queue

\* DequeueAllPackRequests.
DequeueAll(s) ==
  batch' = [batch EXCEPT ![s] = queue[s]] /\ queue' = [queue EXCEPT ![s] = <<>>]

ReceiveToken(s) ==
  /\ tokenAt = s /\ phase[s] = "idle"
  /\ phase' = [phase EXCEPT ![s] = "packs"]
  /\ DequeueAll(s)
  /\ UNCHANGED <<players, token, matches, losses, nils>>

ServePack(s) ==
  /\ phase[s] = "packs" /\ batch[s] # <<>>
  /\ reply' = [reply EXCEPT ![Head(batch[s])] =
                 IF DrawCards(PackSize).ok THEN Answer("cards", DrawCards(PackSize).cards)
                                           ELSE Answer("sold out", <<>>)]
  /\ TakeFromPool(PackSize)
  /\ batch' = [batch EXCEPT ![s] = Tail(@)]
  /\ UNCHANGED <<handler, queue, phase, tokenAt, matches, losses, nils>>

\* Slip: the queue is cleared after the requests have been answered.
ClearQueueAtEnd(s) ==
  /\ phase[s] = "packs" /\ batch[s] = <<>>
  /\ phase' = [phase EXCEPT ![s] = "matches"]
  /\ queue' = [queue EXCEPT ![s] = <<>>]
  /\ UNCHANGED <<players, batch, token, matches, losses, nils>>

PacksServed(s) ==
  /\ phase[s] = "packs" /\ batch[s] = <<>>
  /\ phase' = [phase EXCEPT ![s] = "matches"]
  /\ UNCHANGED <<players, queue, batch, token, matches, losses, nils>>

\* Another match may be started: a bound of the model.
MoreMatches == Len(hands) + discarded < MaxMatches

\* What becomes of the n cards just drawn: a match gets them, or nobody does.
Deal(n)    == hands' = Append(hands, DrawCards(n).cards) /\ UNCHANGED discarded
Discard(n) == discarded' = discarded + 1 /\ UNCHANGED hands

GoTo(s, p) == phase' = [phase EXCEPT ![s] = p]

\* createMatchWithTokenCards: one draw for the two players of a local match.
LocalMatch(s) ==
  /\ phase[s] = "matches" /\ MoreMatches
  /\ TakeFromPool(2 * HandSize) /\ Deal(2 * HandSize)
  /\ GoTo(s, "pass")
  /\ UNCHANGED <<players, queue, batch, tokenAt, losses, nils>>

\* A match with another server: the cards of the guest are drawn before its server is
\* asked.  If that refuses, they are in nobody's hand and not put back; if only its
\* answer gets lost, the guest has them, but the host's part is not made.
OfferMatch(s) ==
  /\ phase[s] = "matches" /\ MoreMatches
  /\ TakeFromPool(HandSize)
  /\ \/ Deal(HandSize) /\ GoTo(s, "host")
     \/ Deal(HandSize) /\ GoTo(s, "pass")
     \/ Discard(HandSize) /\ GoTo(s, "pass")
  /\ UNCHANGED <<players, queue, batch, tokenAt, losses, nils>>

\* The guest has accepted: the cards of the host are drawn, also for one who has left.
HostMatch(s) ==
  /\ phase[s] = "host"
  /\ TakeFromPool(HandSize)
  /\ Deal(HandSize) \/ Discard(HandSize)
  /\ GoTo(s, "pass")
  /\ UNCHANGED <<players, queue, batch, tokenAt, losses, nils>>

PassToken(s) ==
  /\ phase[s] \in {"matches", "pass"}
  /\ phase' = [phase EXCEPT ![s] = "idle"]
  /\ \/ tokenAt' = Succ(s) /\ UNCHANGED losses
     \/ tokenAt' = Nowhere /\ losses < MaxLosses /\ losses' = losses + 1
  /\ UNCHANGED <<players, queue, batch, pool, minted, matches, nils>>

\* regenerateAndSetToken, on the leader.
RegenerateToken ==
  /\ tokenAt = Nowhere
  /\ tokenAt' = Leader
  /\ pool' = FreshCards
  /\ minted' = minted + Copies
  /\ UNCHANGED <<players, queue, phase, batch, matches, losses, nils>>

\* The leader cannot regenerate the token and goes on with a nil one: processPackRequests
\* takes the requests before it looks at the token, and returns.
ServeWithoutToken ==
  /\ tokenAt = Nowhere /\ nils < MaxNils
  /\ nils' = nils + 1
  /\ queue' = [queue EXCEPT ![Leader] = <<>>]
  /\ UNCHANGED <<players, phase, batch, token, matches, losses>>

----------------------------------------------------------------------------
(* The specification.                                                      *)

Init ==
  /\ handler = [r \in Requests |-> "new"]
  /\ queue = [s \in Servers |-> <<>>]
  /\ batch = [s \in Servers |-> <<>>]
  /\ reply = [r \in Requests |-> NoReply]
  /\ phase = [s \in Servers |-> "idle"]
  /\ tokenAt = Nowhere
  /\ pool = <<>>
  /\ minted = 0
  /\ hands = <<>>
  /\ discarded = 0
  /\ losses = 0
  /\ nils = 0

Client(r) == ReceiveReply(r) \/ TimeOut(r)
Serve(s)  == ReceiveToken(s) \/ ServePack(s) \/ PacksServed(s) \/ HostMatch(s)

Next ==
  \/ \E r \in Requests : OpenPack(r) \/ Client(r)
  \/ \E s \in Servers : Serve(s) \/ LocalMatch(s) \/ OfferMatch(s) \/ PassToken(s)
  \/ RegenerateToken
  \/ ServeWithoutToken

Spec == Init /\ [][Next]_vars

\* The loops of the servers go on; the timers of the handlers run out.
Fairness ==
  /\ \A s \in Servers : WF_vars(Serve(s)) /\ WF_vars(PassToken(s))
  /\ WF_vars(RegenerateToken)
  /\ \A r \in Requests : WF_vars(Client(r))

FairSpec == Spec /\ Fairness

----------------------------------------------------------------------------
(* Properties.                                                             *)

\* The requests that have been made and will still be answered.
Pending(s) == Range(queue[s]) \cup Range(batch[s])

(* A request that is still to be answered has an empty reply channel, and   *)
(* is in one place once: the send to ReplyChan, whose capacity is 1, never  *)
(* blocks the loop that has the token, even if the client has given up.     *)
ReplyNeverBlocks ==
  \A s \in Servers :
    /\ \A r \in Pending(s) : reply[r] = NoReply
    /\ IsInjective(queue[s] \o batch[s])

(* No copy of a card is handed out twice: not in two packs, not in two      *)
(* draws for matches, not in a pack and a match, and none that has been      *)
(* handed out is in the pool again.                                          *)
NoCardTwice ==
  LET pack(r) == Range(reply[r].cards)
      match(m) == Range(hands[m])
  IN  /\ \A r, q \in Requests : r # q => pack(r) \cap pack(q) = {}
      /\ \A m, k \in DOMAIN hands : m # k => match(m) \cap match(k) = {}
      /\ \A r \in Requests, m \in DOMAIN hands : pack(r) \cap match(m) = {}
      /\ \A r \in Requests : pack(r) \cap Range(pool) = {}
      /\ \A m \in DOMAIN hands : match(m) \cap Range(pool) = {}

(* The requests a server has queued when the token comes, or queues while   *)
(* it has it, are all answered, unless the token could not be regenerated.  *)
EveryRequestServed ==
  \A r \in Requests : handler[r] = "waiting" ~> (reply[r] # NoReply \/ nils > 0)

\* The copies that packs and matches have handed out.
Issued == {c \in Copy : \/ \E r \in Requests : c \in Range(reply[r].cards)
                        \/ \E m \in DOMAIN hands : c \in Range(hands[m])}

(* The token carries the only copies: as long as none got lost and no hand  *)
(* was drawn for an opponent who refused or a host who left, every copy ever *)
(* made is in the pool, in a pack that was sent or in a match.  No draw that *)
(* runs into a refill, and no pass, loses any.                               *)
NoCardLost == losses = 0 /\ discarded = 0 => Copy = Issued \cup Range(pool)

Stock == INSTANCE CardStock WITH
  asked  <- {r \in Requests : handler[r] # "new"},
  answer <- [r \in Requests |-> Range(reply[r].cards)],
  issued <- Issued

(* The requests, the ring and the pool implement the card stock: every      *)
(* request that is answered, for a client who still waits or who gave up,    *)
(* gets one full pack of fresh copies, and so does every match, across       *)
(* refills of the pool, lost tokens and the token of the next leader turn.   *)
(* A hand drawn for nobody is not dealt to anybody later.                    *)
IssuesFreshPacks == Stock!Spec
----------------------------------------------------------------------------
(* What makes the properties inductive.                                     *)

\* The copies that are in no pool any more.
Gone == minted - Len(pool)

\* The pool is the latest copies, in order: whatever is drawn is new.
PoolIsLatest ==
  /\ Len(pool) <= minted
  /\ \A i \in 1 .. Len(pool) : pool[i] = Gone + i

IssuedAreGone == Issued \subseteq 1 .. Gone

\* What left the pool went to somebody, unless a token or a hand got lost.
GoneAreIssued == losses = 0 /\ discarded = 0 => 1 .. Gone \subseteq Issued

\* Whoever serves queues has the token, and until one gets lost it is the first.
HolderServes ==
  /\ \A s \in Servers : phase[s] # "idle" => tokenAt = s
  /\ tokenAt = Nowhere /\ losses = 0 => minted = 0

\* A request is queued once, at the server it was made to, until it is answered, and the
\* holder of the token has answered a batch before it takes the next.
QueuedOnce ==
  \A s \in Servers :
    /\ \A r \in Pending(s) : Home[r] = s /\ handler[r] # "new" /\ reply[r] = NoReply
    /\ IsInjective(queue[s]) /\ IsInjective(batch[s])
    /\ Range(queue[s]) \cap Range(batch[s]) = {}
    /\ phase[s] # "packs" => batch[s] = <<>>

\* An answer is a full pack, and goes to somebody who asked.
FullPacks ==
  \A r \in Requests :
    /\ handler[r] # "rejected"
    /\ reply[r] # NoReply =>
         /\ reply[r].kind = "cards" /\ handler[r] # "new"
         /\ Cardinality(Range(reply[r].cards)) = PackSize
=============================================================================
