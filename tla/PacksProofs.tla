---------------------------- MODULE PacksProofs ----------------------------
(***************************************************************************)
(* Proofs about Packs, for every number of servers, every set of requests   *)
(* and every size of pools, packs and matches.                               *)
(***************************************************************************)
EXTENDS Packs, SeqLemmas, FiniteSetTheorems

\* A pool of n new copies.
LEMMA FreshCardsTyped ==
  ASSUME minted \in Nat
  PROVE  /\ FreshCards \in Seq(1 .. minted + Copies)
         /\ Len(FreshCards) = Copies
         /\ \A i \in 1 .. Copies : FreshCards[i] = minted + i
<1>1. FreshCards \in [1 .. Copies -> 1 .. minted + Copies]
  BY CardsAssumption DEF FreshCards
<1>2. QED  BY <1>1, CardsAssumption DEF FreshCards

\* What DrawCards looks at: the pool, with a refill if it is too small.
LEMMA FullPool ==
  ASSUME TypeOK, PoolIsLatest, NEW n \in Nat, n <= Copies, TakeFromPool(n),
         NEW full, full = IF Len(pool) < n THEN pool \o FreshCards ELSE pool
  PROVE  /\ minted' \in Nat /\ minted <= minted'
         /\ full \in Seq(1 .. minted')
         /\ n <= Len(full)
         /\ minted' - Len(full) = Gone
         /\ \A i \in 1 .. Len(full) : full[i] = Gone + i
<1>1. pool \in Seq(1 .. minted) /\ minted \in Nat /\ Len(pool) \in Nat
  BY LenProperties DEF TypeOK, Copy
<1>2. CASE Len(pool) < n
  <2>1. minted' = minted + Copies /\ full = pool \o FreshCards
    BY <1>2 DEF TakeFromPool
  <2>2. pool \in Seq(1 .. minted')
    BY <1>1, <2>1, CardsAssumption, SeqMonotonic, 1 .. minted \subseteq 1 .. minted'
  <2>3. /\ FreshCards \in Seq(1 .. minted') /\ Len(FreshCards) = Copies
        /\ \A i \in 1 .. Copies : FreshCards[i] = minted + i
    BY <1>1, <2>1, FreshCardsTyped
  <2> HIDE DEF FreshCards
  <2>4. /\ full \in Seq(1 .. minted') /\ Len(full) = Len(pool) + Len(FreshCards)
        /\ \A i \in 1 .. Len(pool) + Len(FreshCards) :
             full[i] = IF i <= Len(pool) THEN pool[i] ELSE FreshCards[i - Len(pool)]
    <3>1. /\ pool \o FreshCards \in Seq(1 .. minted')
          /\ Len(pool \o FreshCards) = Len(pool) + Len(FreshCards)
          /\ \A i \in 1 .. Len(pool) + Len(FreshCards) :
               (pool \o FreshCards)[i] =
                 IF i <= Len(pool) THEN pool[i] ELSE FreshCards[i - Len(pool)]
      BY <2>2, <2>3, ConcatProperties, Zenon
    <3>2. QED  BY <2>1, <3>1, Zenon
  <2>5. Len(full) = Len(pool) + Copies
    BY <2>3, <2>4
  <2>6. \A i \in 1 .. Len(full) : full[i] = Gone + i
    <3> SUFFICES ASSUME NEW i \in 1 .. Len(full) PROVE full[i] = Gone + i
      OBVIOUS
    <3>1. full[i] = IF i <= Len(pool) THEN pool[i] ELSE FreshCards[i - Len(pool)]
      BY <2>3, <2>4, <2>5
    <3>2. CASE i <= Len(pool)
      BY <1>1, <2>5, <3>1, <3>2, CardsAssumption DEF PoolIsLatest
    <3>3. CASE ~(i <= Len(pool))
      <4>1. i - Len(pool) \in 1 .. Copies
        BY <1>1, <2>5, <3>3, CardsAssumption
      <4>2. full[i] = minted + (i - Len(pool))
        BY <2>3, <3>1, <3>3, <4>1
      <4>3. QED  BY <1>1, <2>5, <4>2, CardsAssumption DEF Gone
    <3>4. QED  BY <3>2, <3>3
  <2>7. minted' \in Nat /\ minted <= minted'
    BY <1>1, <2>1, CardsAssumption
  <2>8. n <= Len(full)
    BY <1>1, <2>5, CardsAssumption
  <2>9. minted' - Len(full) = Gone
    <3>1. minted' = minted + Copies /\ Len(pool) \in Nat /\ minted \in Nat /\ Copies \in Nat
      BY <1>1, <2>1, CardsAssumption
    <3>2. minted' - (Len(pool) + Copies) = minted - Len(pool)
      BY <3>1
    <3>3. QED  BY <2>5, <3>2 DEF Gone
  <2>10. QED  BY <2>4, <2>6, <2>7, <2>8, <2>9
<1>3. CASE ~(Len(pool) < n)
  BY <1>1, <1>3 DEF TakeFromPool, PoolIsLatest, Gone
<1>4. QED  BY <1>2, <1>3

\* A draw hands out the next n copies, which nobody has got before, and leaves the copies
\* after them in the pool.
LEMMA Drawn ==
  ASSUME TypeOK, PoolIsLatest, NEW n \in Nat, n <= Copies, TakeFromPool(n)
  PROVE  /\ DrawCards(n).ok
         /\ DrawCards(n).cards \in Seq(1 .. minted')
         /\ Range(DrawCards(n).cards) = Gone + 1 .. Gone + n
         /\ minted' \in Nat /\ minted <= minted'
         /\ pool' \in Seq(1 .. minted')
         /\ Gone \in Nat /\ Gone' = Gone + n
         /\ PoolIsLatest'
<1> DEFINE full == IF Len(pool) < n THEN pool \o FreshCards ELSE pool
<1>1. /\ minted' \in Nat /\ minted <= minted'
      /\ full \in Seq(1 .. minted')
      /\ n <= Len(full)
      /\ minted' - Len(full) = Gone
      /\ \A i \in 1 .. Len(full) : full[i] = Gone + i
  BY FullPool
<1>2. DrawCards(n) = IF Len(full) < n
        THEN [ok |-> FALSE, cards |-> <<>>, left |-> full]
        ELSE [ok |-> TRUE, cards |-> SubSeq(full, 1, n), left |-> SubSeq(full, n + 1, Len(full))]
  BY DEF DrawCards
<1> HIDE DEF full
<1>3. Len(full) \in Nat /\ Gone \in Nat
  <2>1. Len(full) \in Nat /\ Len(pool) \in Nat /\ minted \in Nat
    BY <1>1, LenProperties DEF TypeOK, Copy
  <2>2. QED  BY <2>1 DEF PoolIsLatest, Gone
<1>4. /\ DrawCards(n).ok
      /\ DrawCards(n).cards = SubSeq(full, 1, n)
      /\ pool' = SubSeq(full, n + 1, Len(full))
  <2>1. ~(Len(full) < n)
    BY <1>1, <1>3
  <2>2. DrawCards(n) = [ok |-> TRUE, cards |-> SubSeq(full, 1, n),
                        left |-> SubSeq(full, n + 1, Len(full))]
    BY <1>2, <2>1, Zenon
  <2>3. pool' = DrawCards(n).left
    BY DEF TakeFromPool
  <2> HIDE DEF DrawCards
  <2>4. QED  BY <2>2, <2>3
<1>5. \A i \in 1 .. Len(full) : full[i] \in 1 .. minted'
  BY <1>1, ElementOfSeq
<1>6. /\ SubSeq(full, 1, n) \in Seq(1 .. minted')
      /\ Len(SubSeq(full, 1, n)) = n
      /\ \A i \in 1 .. n : SubSeq(full, 1, n)[i] = full[i]
  BY <1>1, <1>3, <1>5, SubSeqProperties
<1>7. /\ SubSeq(full, n + 1, Len(full)) \in Seq(1 .. minted')
      /\ Len(SubSeq(full, n + 1, Len(full))) = Len(full) - n
      /\ \A i \in 1 .. Len(full) - n : SubSeq(full, n + 1, Len(full))[i] = full[n + i]
  BY <1>1, SubSeqTail
<1>8. Range(SubSeq(full, 1, n)) = Gone + 1 .. Gone + n
  <2>1. DOMAIN SubSeq(full, 1, n) = 1 .. n
    BY <1>6, LenProperties
  <2>2. \A i \in 1 .. n : SubSeq(full, 1, n)[i] = Gone + i
    BY <1>1, <1>3, <1>6
  <2>3. \A c \in Gone + 1 .. Gone + n : c - Gone \in 1 .. n /\ c = Gone + (c - Gone)
    BY <1>3
  <2> DEFINE cards == SubSeq(full, 1, n)
  <2>4. DOMAIN cards = 1 .. n /\ \A i \in 1 .. n : cards[i] = Gone + i
    BY <2>1, <2>2
  <2> HIDE DEF cards
  <2>5. \A c \in Gone + 1 .. Gone + n : c \in Range(cards)
    BY <2>3, <2>4 DEF Range
  <2>6. \A c \in Range(cards) : c \in Gone + 1 .. Gone + n
    BY <1>3, <2>4 DEF Range
  <2>7. QED  BY <2>5, <2>6 DEF cards
<1>9. Len(pool') = Len(full) - n /\ Gone' = Gone + n
  BY <1>1, <1>3, <1>4, <1>7 DEF Gone
<1>10. PoolIsLatest'
  BY <1>1, <1>3, <1>4, <1>7, <1>9 DEF PoolIsLatest
<1>11. QED  BY <1>1, <1>3, <1>4, <1>6, <1>7, <1>8, <1>9, <1>10

----------------------------------------------------------------------------
(* The inductive invariant.                                                 *)

IInv ==
  /\ TypeOK
  /\ PoolIsLatest
  /\ IssuedAreGone
  /\ NoCardTwice
  /\ QueuedOnce
  /\ FullPacks

LEMMA InitInv == Init => IInv
<1> SUFFICES ASSUME Init PROVE IInv
  OBVIOUS
<1>1. minted = 0 /\ pool = <<>> /\ hands = <<>> /\ Range(<<>>) = {} /\ IsInjective(<<>>)
  BY EmptyRange DEF Init
<1>2. TypeOK
  BY BoundsAssumption DEF Init, TypeOK, NoReply, Answer, Copy, Nowhere
<1>3. PoolIsLatest
  BY <1>1 DEF PoolIsLatest
<1>4. \A r \in Requests : reply[r] = NoReply /\ Range(reply[r].cards) = {}
  BY <1>1 DEF Init, NoReply, Answer
<1>5. DOMAIN hands = {}
  BY <1>1
<1>6. Issued = {}
  BY <1>4, <1>5 DEF Issued
<1>7. IssuedAreGone
  BY <1>6 DEF IssuedAreGone
<1>8. NoCardTwice
  BY <1>4, <1>5 DEF NoCardTwice
<1>9. QueuedOnce
  BY <1>1 DEF Init, QueuedOnce, Pending
<1>10. FullPacks
  BY <1>4 DEF FullPacks, Init
<1>11. QED  BY <1>2, <1>3, <1>7, <1>8, <1>9, <1>10 DEF IInv

\* The parts about the cards hold on when neither the cards in anybody's hands nor the
\* pool change.
LEMMA CardsKept ==
  ASSUME IInv, UNCHANGED <<reply, hands, pool, minted>>
  PROVE  PoolIsLatest' /\ IssuedAreGone' /\ NoCardTwice'
<1>1. PoolIsLatest'
  BY DEF IInv, PoolIsLatest, Gone
<1>2. IssuedAreGone'
  BY DEF IInv, IssuedAreGone, Issued, Gone, Copy
<1>3. NoCardTwice'
  BY DEF IInv, NoCardTwice
<1>4. QED  BY <1>1, <1>2, <1>3

LEMMA PendingAreRequests ==
  ASSUME TypeOK
  PROVE  \A s \in Servers : Pending(s) \subseteq Requests
<1>1. ASSUME NEW q \in Seq(Requests) PROVE Range(q) \subseteq Requests
  BY LenProperties, ElementOfSeq DEF Range
<1>2. QED  BY <1>1 DEF TypeOK, Pending

\* The part about the queues does when the queues, the batches and the phases do not
\* change and no request becomes new.
LEMMA QueuesKept ==
  ASSUME IInv, UNCHANGED <<reply, queue, batch>>,
         \A s \in Servers : phase'[s] = "packs" \/ phase'[s] = phase[s] \/ batch[s] = <<>>,
         \A r \in Requests : handler[r] # "new" => handler'[r] # "new"
  PROVE  QueuedOnce'
<1>1. \A s \in Servers : Pending(s) \subseteq Requests
  BY PendingAreRequests DEF IInv
<1>2. QED  BY <1>1 DEF IInv, QueuedOnce, Pending

\* Copies that are typed stay so when more are minted.
LEMMA TypedStill ==
  ASSUME TypeOK, minted' \in Nat, minted <= minted'
  PROVE  /\ reply \in [Requests -> [kind : {"none", "cards", "sold out"},
                                    cards : Seq(1 .. minted')]]
         /\ hands \in Seq(Seq(1 .. minted'))
         /\ pool \in Seq(1 .. minted')
<1>1. 1 .. minted \subseteq 1 .. minted'
  <2>1. minted \in Nat
    BY DEF TypeOK
  <2>2. QED  BY <2>1
<1>2. \A q \in Seq(1 .. minted) : q \in Seq(1 .. minted')
  BY <1>1, SeqMonotonic
<1>3. Seq(1 .. minted) \subseteq Seq(1 .. minted')
  BY <1>2
<1>4. hands \in Seq(Seq(1 .. minted'))
  BY <1>3, SeqMonotonic DEF TypeOK, Copy
<1>5. QED  BY <1>2, <1>4 DEF TypeOK, Copy

LEMMA OpenPackInv ==
  ASSUME IInv, NEW r \in Requests, OpenPack(r)
  PROVE  IInv'
<1>1. Home[r] \in Servers
  BY HomeAssumption
<1>2. r \notin Pending(Home[r])
  BY <1>1 DEF IInv, QueuedOnce, OpenPack
<1>3. queue[Home[r]] \in Seq(Requests)
  BY <1>1 DEF IInv, TypeOK
<1>4. /\ Append(queue[Home[r]], r) \in Seq(Requests)
      /\ Range(Append(queue[Home[r]], r)) = Range(queue[Home[r]]) \cup {r}
      /\ IsInjective(Append(queue[Home[r]], r))
  BY <1>1, <1>2, <1>3, AppendRange, AppendProperties DEF IInv, QueuedOnce, Pending
<1>5. queue' = [queue EXCEPT ![Home[r]] = Append(queue[Home[r]], r)]
  BY DEF OpenPack
<1>6. TypeOK'
  BY <1>4, <1>5 DEF IInv, TypeOK, OpenPack, token, Copy, matches
<1>7. QueuedOnce'
  <2> SUFFICES ASSUME NEW s \in Servers
               PROVE  /\ \A q \in Pending(s)' : Home[q] = s /\ handler'[q] # "new" /\ reply'[q] = NoReply
                      /\ IsInjective(queue'[s]) /\ IsInjective(batch'[s])
                      /\ Range(queue'[s]) \cap Range(batch'[s]) = {}
                      /\ phase'[s] # "packs" => batch'[s] = <<>>
    BY DEF QueuedOnce
  <2>1. /\ batch' = batch /\ phase' = phase /\ reply' = reply /\ reply[r] = NoReply
        /\ handler' = [handler EXCEPT ![r] = "waiting"]
    BY DEF IInv, FullPacks, OpenPack
  <2>2. \A q \in Requests : handler[q] # "new" => handler'[q] # "new"
    BY <2>1 DEF IInv, TypeOK
  <2>3. \A q \in Pending(s) : q \in Requests
    BY PendingAreRequests DEF IInv
  <2>4. CASE s = Home[r]
    <3>1. queue'[s] = Append(queue[s], r)
      BY <1>1, <1>5, <2>4 DEF IInv, TypeOK
    <3>2. handler'[r] = "waiting"
      BY <2>1 DEF IInv, TypeOK
    <3>3. \A q \in Pending(s)' : q = r \/ q \in Pending(s)
      BY <1>4, <2>1, <2>4, <3>1 DEF Pending
    <3>4. \A q \in Pending(s)' : Home[q] = s /\ handler'[q] # "new" /\ reply'[q] = NoReply
      BY <2>1, <2>2, <2>3, <2>4, <3>2, <3>3 DEF IInv, QueuedOnce
    <3>5. Range(queue'[s]) \cap Range(batch'[s]) = {}
      <4>1. Range(queue[s]) \cap Range(batch[s]) = {} /\ r \notin Range(batch[s])
        BY <1>2, <2>4 DEF IInv, QueuedOnce, Pending
      <4>2. Range(queue'[s]) = Range(queue[s]) \cup {r} /\ batch'[s] = batch[s]
        BY <1>4, <2>1, <2>4, <3>1
      <4>3. QED  BY <4>1, <4>2
    <3>6. QED  BY <1>4, <2>1, <2>4, <3>1, <3>4, <3>5 DEF IInv, QueuedOnce
  <2>5. CASE s # Home[r]
    <3>1. queue'[s] = queue[s]
      BY <1>1, <1>5, <2>5 DEF IInv, TypeOK
    <3>2. QED  BY <2>1, <2>2, <2>3, <3>1 DEF IInv, QueuedOnce, Pending
  <2>6. QED  BY <2>4, <2>5
<1>8. FullPacks'
  BY DEF IInv, TypeOK, FullPacks, OpenPack
<1>9. QED  BY <1>6, <1>7, <1>8, CardsKept DEF IInv, OpenPack, token, matches

LEMMA ClientInv ==
  ASSUME IInv, NEW r \in Requests, Client(r)
  PROVE  IInv'
<1>1. UNCHANGED <<reply, queue, phase, batch, token, matches, losses, nils>>
  BY DEF Client, ReceiveReply, TimeOut
<1>2. /\ handler' \in [Requests -> {"new", "waiting", "opened", "rejected", "timed out"}]
      /\ \A q \in Requests : handler[q] # "new" => handler'[q] # "new"
  BY DEF IInv, TypeOK, Client, ReceiveReply, TimeOut
<1>3. TypeOK'
  BY <1>1, <1>2 DEF IInv, TypeOK, Copy, token, matches
<1>4. QueuedOnce'
  BY <1>1, <1>2, QueuesKept
<1>5. FullPacks'
  <2>1. \A q \in Requests : handler'[q] # "rejected"
    BY DEF IInv, TypeOK, FullPacks, Client, ReceiveReply, TimeOut
  <2>2. QED  BY <1>1, <1>2, <2>1 DEF IInv, FullPacks
<1>6. QED  BY <1>1, <1>3, <1>4, <1>5, CardsKept DEF IInv, token, matches

LEMMA ReceiveTokenInv ==
  ASSUME IInv, NEW s \in Servers, ReceiveToken(s)
  PROVE  IInv'
<1>1. UNCHANGED <<players, token, matches, losses, nils>>
  BY DEF ReceiveToken
<1>2. /\ phase' = [phase EXCEPT ![s] = "packs"]
      /\ batch' = [batch EXCEPT ![s] = queue[s]]
      /\ queue' = [queue EXCEPT ![s] = <<>>]
  BY DEF ReceiveToken, DequeueAll
<1>3. TypeOK'
  <2>1. /\ phase' \in [Servers -> {"idle", "packs", "matches", "host", "pass"}]
        /\ batch' \in [Servers -> Seq(Requests)]
        /\ queue' \in [Servers -> Seq(Requests)]
    BY <1>2, EmptySeq DEF IInv, TypeOK
  <2>2. QED  BY <1>1, <2>1 DEF IInv, TypeOK, Copy, token, players, matches
<1>4. QueuedOnce'
  <2> SUFFICES ASSUME NEW t \in Servers
               PROVE  /\ \A q \in Pending(t)' : Home[q] = t /\ handler'[q] # "new" /\ reply'[q] = NoReply
                      /\ IsInjective(queue'[t]) /\ IsInjective(batch'[t])
                      /\ Range(queue'[t]) \cap Range(batch'[t]) = {}
                      /\ phase'[t] # "packs" => batch'[t] = <<>>
    BY DEF QueuedOnce
  <2>1. CASE t = s
    <3>1. queue'[t] = <<>> /\ batch'[t] = queue[t] /\ phase'[t] = "packs"
      BY <1>2, <2>1 DEF IInv, TypeOK
    <3>2. QED  BY <1>1, <2>1, <3>1, EmptyRange DEF IInv, QueuedOnce, Pending, players
  <2>2. CASE t # s
    <3>1. queue'[t] = queue[t] /\ batch'[t] = batch[t] /\ phase'[t] = phase[t]
      BY <1>2, <2>2 DEF IInv, TypeOK
    <3>2. QED  BY <1>1, <3>1 DEF IInv, QueuedOnce, Pending, players
  <2>3. QED  BY <2>1, <2>2
<1>5. FullPacks'
  BY <1>1 DEF IInv, FullPacks, players
<1>6. QED  BY <1>1, <1>3, <1>4, <1>5, CardsKept DEF IInv, token, players, matches

\* Everything in hands is a copy that has been made.
LEMMA HandedOut ==
  ASSUME TypeOK
  PROVE  /\ \A r \in Requests : Range(reply[r].cards) \subseteq Copy
         /\ \A m \in DOMAIN hands : Range(hands[m]) \subseteq Copy
<1>1. ASSUME NEW q \in Seq(Copy) PROVE Range(q) \subseteq Copy
  BY LenProperties, ElementOfSeq DEF Range
<1>2. \A r \in Requests : reply[r].cards \in Seq(Copy)
  BY DEF TypeOK
<1>3. \A m \in DOMAIN hands : hands[m] \in Seq(Copy)
  BY LenProperties, ElementOfSeq DEF TypeOK
<1>4. QED  BY <1>1, <1>2, <1>3

\* The part about the cards in hands when a draw has been given to somebody: the cards are
\* later ones than everybody else's.
LEMMA StillNoCardTwice ==
  ASSUME IInv, NEW n \in Nat, n <= Copies, TakeFromPool(n),
         \/ /\ hands' = hands
            /\ \E r \in Requests :
                 /\ Range(reply'[r].cards) = Gone + 1 .. Gone + n
                 /\ \A q \in Requests \ {r} : reply'[q] = reply[q]
         \/ /\ reply' = reply /\ DOMAIN hands' = DOMAIN hands \cup {Len(hands) + 1}
            /\ \A m \in DOMAIN hands : hands'[m] = hands[m] /\ m # Len(hands) + 1
            /\ Range(hands'[Len(hands) + 1]) = Gone + 1 .. Gone + n
  PROVE  /\ PoolIsLatest' /\ IssuedAreGone' /\ NoCardTwice'
<1>1. /\ Gone \in Nat /\ Gone' = Gone + n /\ PoolIsLatest'
      /\ pool' \in Seq(1 .. minted') /\ minted' \in Nat
  BY Drawn DEF IInv
<1> DEFINE new == Gone + 1 .. Gone + n
           old == 1 .. Gone
<1>2. /\ new \cap old = {} /\ new \subseteq 1 .. Gone' /\ old \subseteq 1 .. Gone'
  BY <1>1
<1>3. Range(pool') \cap 1 .. Gone' = {}
  <2>1. DOMAIN pool' = 1 .. Len(pool') /\ Len(pool') \in Nat
    BY <1>1, LenProperties
  <2>2. \A i \in DOMAIN pool' : pool'[i] = Gone' + i
    BY <1>1, <2>1 DEF PoolIsLatest
  <2>3. QED  BY <1>1, <2>1, <2>2 DEF Range
<1>4. /\ \A q \in Requests : Range(reply[q].cards) \subseteq old
      /\ \A m \in DOMAIN hands : Range(hands[m]) \subseteq old
  <2>1. \A q \in Requests : \A c \in Range(reply[q].cards) : c \in Issued
    BY HandedOut DEF IInv, Issued
  <2>2. \A m \in DOMAIN hands : \A c \in Range(hands[m]) : c \in Issued
    BY HandedOut DEF IInv, Issued
  <2>3. Issued \subseteq old
    BY DEF IInv, IssuedAreGone
  <2> HIDE DEF old
  <2>4. QED  BY <2>1, <2>2, <2>3
<1> HIDE DEF new, old
<1>5. CASE /\ hands' = hands
           /\ \E r \in Requests :
                /\ Range(reply'[r].cards) = new
                /\ \A q \in Requests \ {r} : reply'[q] = reply[q]
  <2>1. PICK r \in Requests : /\ Range(reply'[r].cards) = new
                              /\ \A q \in Requests \ {r} : reply'[q] = reply[q]
    BY <1>5
  <2>2. \A q \in Requests : q = r \/ Range(reply'[q].cards) = Range(reply[q].cards)
    BY <2>1
  <2>3. \A q \in Requests : Range(reply'[q].cards) \subseteq 1 .. Gone'
    BY <1>2, <1>4, <2>1, <2>2
  <2>4. NoCardTwice'
    <3>1. \A p, q \in Requests : p # q => Range(reply'[p].cards) \cap Range(reply'[q].cards) = {}
      BY <1>2, <1>4, <2>1, <2>2 DEF IInv, NoCardTwice
    <3>2. \A m, k \in DOMAIN hands' : m # k => Range(hands'[m]) \cap Range(hands'[k]) = {}
      BY <1>5 DEF IInv, NoCardTwice
    <3>3. \A q \in Requests, m \in DOMAIN hands' :
            Range(reply'[q].cards) \cap Range(hands'[m]) = {}
      BY <1>2, <1>4, <1>5, <2>1, <2>2 DEF IInv, NoCardTwice
    <3>4. \A q \in Requests : Range(reply'[q].cards) \cap Range(pool') = {}
      BY <1>3, <2>3
    <3>5. \A m \in DOMAIN hands' : Range(hands'[m]) \cap Range(pool') = {}
      BY <1>2, <1>3, <1>4, <1>5
    <3>6. QED  BY <3>1, <3>2, <3>3, <3>4, <3>5 DEF NoCardTwice
  <2>5. IssuedAreGone'
    <3>1. \A m \in DOMAIN hands' : Range(hands'[m]) \subseteq 1 .. Gone'
      BY <1>2, <1>4, <1>5
    <3> SUFFICES ASSUME NEW c \in Issued' PROVE c \in 1 .. Gone'
      BY DEF IssuedAreGone
    <3>2. \/ \E q \in Requests : c \in Range(reply'[q].cards)
          \/ \E m \in DOMAIN hands' : c \in Range(hands'[m])
      BY DEF Issued
    <3>3. QED  BY <2>3, <3>1, <3>2
  <2>6. QED  BY <1>1, <2>4, <2>5
<1>6. CASE /\ reply' = reply /\ DOMAIN hands' = DOMAIN hands \cup {Len(hands) + 1}
           /\ \A m \in DOMAIN hands : hands'[m] = hands[m] /\ m # Len(hands) + 1
           /\ Range(hands'[Len(hands) + 1]) = new
  <2> DEFINE l == Len(hands) + 1
  <2>1. /\ DOMAIN hands' = DOMAIN hands \cup {l} /\ Range(hands'[l]) = new
        /\ \A m \in DOMAIN hands : Range(hands'[m]) = Range(hands[m]) /\ m # l
    BY <1>6
  <2> HIDE DEF l
  <2>2. \A m \in DOMAIN hands' : Range(hands'[m]) \subseteq 1 .. Gone'
    BY <1>2, <1>4, <2>1
  <2>3. \A q \in Requests : Range(reply'[q].cards) \subseteq 1 .. Gone'
    BY <1>2, <1>4, <1>6
  <2>4. NoCardTwice'
    <3>1. \A p, q \in Requests : p # q => Range(reply'[p].cards) \cap Range(reply'[q].cards) = {}
      BY <1>6 DEF IInv, NoCardTwice
    <3>2. \A m, k \in DOMAIN hands' : m # k => Range(hands'[m]) \cap Range(hands'[k]) = {}
      BY <1>2, <1>4, <2>1 DEF IInv, NoCardTwice
    <3>3. \A q \in Requests, m \in DOMAIN hands' :
            Range(reply'[q].cards) \cap Range(hands'[m]) = {}
      BY <1>2, <1>4, <1>6, <2>1 DEF IInv, NoCardTwice
    <3>4. \A q \in Requests : Range(reply'[q].cards) \cap Range(pool') = {}
      BY <1>3, <2>3
    <3>5. \A m \in DOMAIN hands' : Range(hands'[m]) \cap Range(pool') = {}
      BY <1>3, <2>2
    <3>6. QED  BY <3>1, <3>2, <3>3, <3>4, <3>5 DEF NoCardTwice
  <2>5. IssuedAreGone'
    <3> SUFFICES ASSUME NEW c \in Issued' PROVE c \in 1 .. Gone'
      BY DEF IssuedAreGone
    <3>1. \/ \E q \in Requests : c \in Range(reply'[q].cards)
          \/ \E m \in DOMAIN hands' : c \in Range(hands'[m])
      BY DEF Issued
    <3>2. QED  BY <2>2, <2>3, <3>1
  <2>6. QED  BY <1>1, <2>4, <2>5
<1>7. QED  BY <1>5, <1>6 DEF new

LEMMA ServePackInv ==
  ASSUME IInv, NEW s \in Servers, ServePack(s)
  PROVE  /\ IInv'
         /\ Range(reply'[Head(batch[s])].cards) = Gone + 1 .. Gone + PackSize
<1> DEFINE r == Head(batch[s])
           drawn == DrawCards(PackSize).cards
<1>1. /\ drawn \in Seq(1 .. minted') /\ Range(drawn) = Gone + 1 .. Gone + PackSize
      /\ DrawCards(PackSize).ok /\ Gone \in Nat
      /\ minted' \in Nat /\ minted <= minted' /\ pool' \in Seq(1 .. minted')
  BY Drawn, CardsAssumption DEF IInv, ServePack
<1>2. batch[s] \in Seq(Requests) /\ batch[s] # <<>> /\ IsInjective(batch[s])
  BY DEF IInv, TypeOK, QueuedOnce, ServePack
<1>3. /\ Tail(batch[s]) \in Seq(Requests) /\ IsInjective(Tail(batch[s]))
      /\ r \in Range(batch[s]) /\ r \in Requests
      /\ Range(Tail(batch[s])) = Range(batch[s]) \ {r}
  BY <1>2, TailRange
<1>4. /\ reply' = [reply EXCEPT ![r] = Answer("cards", drawn)]
      /\ batch' = [batch EXCEPT ![s] = Tail(batch[s])]
      /\ UNCHANGED <<handler, queue, phase, tokenAt, matches, losses, nils>>
      /\ TakeFromPool(PackSize) /\ phase[s] = "packs"
  BY <1>1 DEF ServePack
<1> HIDE DEF r, drawn
<1>5. /\ reply'[r] = Answer("cards", drawn)
      /\ \A q \in Requests \ {r} : reply'[q] = reply[q]
  BY <1>3, <1>4 DEF IInv, TypeOK
<1>6. reply'[r].cards = drawn /\ reply'[r].kind = "cards" /\ reply'[r] # NoReply
  BY <1>5 DEF Answer, NoReply
<1>7. PoolIsLatest' /\ IssuedAreGone' /\ NoCardTwice'
  BY <1>1, <1>3, <1>4, <1>5, <1>6, CardsAssumption, StillNoCardTwice DEF matches
<1>8. TypeOK'
  <2>1. reply' \in [Requests -> [kind : {"none", "cards", "sold out"}, cards : Seq(Copy)]]'
    BY <1>1, <1>3, <1>4, TypedStill DEF IInv, Answer, Copy
  <2>2. batch' \in [Servers -> Seq(Requests)]
    BY <1>3, <1>4 DEF IInv, TypeOK
  <2>3. hands' \in Seq(Seq(Copy))'
    BY <1>1, <1>4, TypedStill DEF IInv, Copy, matches
  <2>4. QED  BY <1>1, <1>4, <2>1, <2>2, <2>3 DEF IInv, TypeOK, Copy, matches
<1>9. QueuedOnce'
  <2> SUFFICES ASSUME NEW t \in Servers
               PROVE  /\ \A q \in Pending(t)' : Home[q] = t /\ handler'[q] # "new" /\ reply'[q] = NoReply
                      /\ IsInjective(queue'[t]) /\ IsInjective(batch'[t])
                      /\ Range(queue'[t]) \cap Range(batch'[t]) = {}
                      /\ phase'[t] # "packs" => batch'[t] = <<>>
    BY DEF QueuedOnce
  <2>1. \A q \in Pending(t) : q \in Requests
    BY PendingAreRequests DEF IInv
  <2>2. CASE t = s
    <3>1. batch'[t] = Tail(batch[s]) /\ queue'[t] = queue[s] /\ phase'[t] = "packs"
      BY <1>4, <2>2 DEF IInv, TypeOK
    <3>2. Pending(t)' = Pending(s) \ {r} /\ r \notin Range(queue[s])
      BY <1>3, <2>2, <3>1 DEF IInv, QueuedOnce, Pending
    <3>3. \A q \in Pending(t)' : Home[q] = t /\ handler'[q] # "new" /\ reply'[q] = NoReply
      BY <1>4, <1>5, <2>1, <2>2, <3>2 DEF IInv, QueuedOnce
    <3>4. QED  BY <1>3, <2>2, <3>1, <3>3 DEF IInv, QueuedOnce
  <2>3. CASE t # s
    <3>1. batch'[t] = batch[t] /\ queue'[t] = queue[t] /\ phase'[t] = phase[t]
      BY <1>4, <2>3 DEF IInv, TypeOK
    <3>2. r \notin Pending(t)
      BY <1>3, <2>3 DEF IInv, QueuedOnce, Pending
    <3>3. Pending(t)' = Pending(t)
      BY <3>1 DEF Pending
    <3>4. \A q \in Pending(t)' : Home[q] = t /\ handler'[q] # "new" /\ reply'[q] = NoReply
      BY <1>4, <1>5, <2>1, <3>2, <3>3 DEF IInv, QueuedOnce
    <3>5. QED  BY <3>1, <3>4 DEF IInv, QueuedOnce
  <2>4. QED  BY <2>2, <2>3
<1>10. FullPacks'
  <2>1. handler[r] # "new"
    BY <1>3 DEF IInv, QueuedOnce, Pending
  <2>2. Cardinality(Range(drawn)) = PackSize
    BY <1>1, CardsAssumption, FS_Interval, Gone + 1 \in Int, Gone + PackSize \in Int
  <2>3. QED  BY <1>4, <1>5, <1>6, <2>1, <2>2 DEF IInv, FullPacks
<1>11. Range(reply'[Head(batch[s])].cards) = Gone + 1 .. Gone + PackSize
  BY <1>1, <1>6 DEF r
<1>12. QED  BY <1>7, <1>8, <1>9, <1>10, <1>11 DEF IInv

\* What the three actions that draw cards for a match leave alone.
MatchStep(s, n) ==
  /\ phase[s] # "packs" /\ \E p \in {"host", "pass"} : GoTo(s, p)
  /\ TakeFromPool(n)
  /\ UNCHANGED <<players, queue, batch, tokenAt, losses, nils>>

LEMMA MatchKeepsQueues ==
  ASSUME IInv, NEW s \in Servers, NEW n, MatchStep(s, n)
  PROVE  /\ phase' \in [Servers -> {"idle", "packs", "matches", "host", "pass"}]
         /\ QueuedOnce' /\ FullPacks'
<1>1. phase' \in [Servers -> {"idle", "packs", "matches", "host", "pass"}]
  BY DEF IInv, TypeOK, MatchStep, GoTo
<1>2. batch[s] = <<>>
  BY DEF IInv, QueuedOnce, MatchStep
<1>3. \A t \in Servers : phase'[t] = phase[t] \/ batch[t] = <<>>
  BY <1>2 DEF IInv, TypeOK, MatchStep, GoTo
<1>4. QueuedOnce'
  BY <1>3, QueuesKept DEF players, MatchStep
<1>5. FullPacks'
  BY DEF IInv, FullPacks, players, MatchStep
<1>6. QED  BY <1>1, <1>4, <1>5

\* A match gets the next cards of the pool.
LEMMA DealInv ==
  ASSUME IInv, NEW s \in Servers, NEW n \in Nat, n <= Copies, MatchStep(s, n), Deal(n)
  PROVE  /\ IInv'
         /\ DOMAIN hands' = DOMAIN hands \cup {Len(hands) + 1}
         /\ \A m \in DOMAIN hands : hands'[m] = hands[m] /\ m # Len(hands) + 1
         /\ Range(hands'[Len(hands) + 1]) = Gone + 1 .. Gone + n
<1> DEFINE drawn == DrawCards(n).cards
<1>1. /\ drawn \in Seq(1 .. minted') /\ Range(drawn) = Gone + 1 .. Gone + n
      /\ minted' \in Nat /\ minted <= minted' /\ pool' \in Seq(1 .. minted')
  BY Drawn DEF IInv, MatchStep
<1>2. /\ hands' = Append(hands, drawn) /\ TakeFromPool(n)
      /\ UNCHANGED <<players, queue, batch, tokenAt, discarded, losses, nils>>
  BY DEF MatchStep, Deal
<1> HIDE DEF drawn
<1>3. hands \in Seq(Seq(1 .. minted'))
  BY <1>1, TypedStill DEF IInv
<1>4. /\ hands' \in Seq(Seq(1 .. minted')) /\ Len(hands') = Len(hands) + 1 /\ Len(hands) \in Nat
      /\ \A i \in 1 .. Len(hands) : hands'[i] = hands[i]
      /\ hands'[Len(hands) + 1] = drawn
  BY <1>1, <1>2, <1>3, AppendProperties, LenProperties
<1>5. DOMAIN hands = 1 .. Len(hands) /\ DOMAIN hands' = 1 .. Len(hands) + 1
  BY <1>3, <1>4, LenProperties
<1>6. /\ DOMAIN hands' = DOMAIN hands \cup {Len(hands) + 1}
      /\ \A m \in DOMAIN hands : hands'[m] = hands[m] /\ m # Len(hands) + 1
      /\ Range(hands'[Len(hands) + 1]) = Gone + 1 .. Gone + n
  <2>1. DOMAIN hands' = DOMAIN hands \cup {Len(hands) + 1}
    BY <1>4, <1>5
  <2>2. \A m \in DOMAIN hands : hands'[m] = hands[m] /\ m # Len(hands) + 1
    BY <1>4, <1>5
  <2>3. QED  BY <1>1, <1>4, <2>1, <2>2
<1>7. reply' = reply
  BY <1>2 DEF players
<1>8. PoolIsLatest' /\ IssuedAreGone' /\ NoCardTwice'
  BY <1>2, <1>6, <1>7, StillNoCardTwice
<1>9. phase' \in [Servers -> {"idle", "packs", "matches", "host", "pass"}] /\ QueuedOnce' /\ FullPacks'
  BY MatchKeepsQueues
<1>10. TypeOK'
  BY <1>1, <1>2, <1>4, <1>9, TypedStill DEF IInv, TypeOK, Copy, players
<1>11. QED  BY <1>6, <1>8, <1>9, <1>10 DEF IInv

\* A hand drawn for nobody leaves the pool, and nobody has it.
LEMMA DiscardInv ==
  ASSUME IInv, NEW s \in Servers, NEW n \in Nat, n <= Copies, MatchStep(s, n), Discard(n)
  PROVE  IInv' /\ Issued' = Issued /\ UNCHANGED <<reply, handler, hands>>
<1>1. /\ minted' \in Nat /\ minted <= minted' /\ pool' \in Seq(1 .. minted')
      /\ Gone \in Nat /\ Gone' = Gone + n /\ PoolIsLatest'
  BY Drawn DEF IInv, MatchStep
<1>2. /\ discarded' = discarded + 1
      /\ UNCHANGED <<hands, handler, reply, queue, batch, tokenAt, losses, nils>>
  BY DEF MatchStep, Discard, players
<1>3. \A c \in Copy : c \in Copy'
  <2>1. minted \in Nat
    BY DEF IInv, TypeOK
  <2>2. QED  BY <1>1, <2>1 DEF Copy
<1>4. Issued' = Issued
  BY <1>2, <1>3, HandedOut DEF IInv, Issued
<1>5. \A c \in Issued : c \in 1 .. Gone'
  BY <1>1 DEF IInv, IssuedAreGone
<1>6. Range(pool') \cap 1 .. Gone' = {}
  <2>1. DOMAIN pool' = 1 .. Len(pool') /\ Len(pool') \in Nat
    BY <1>1, LenProperties
  <2>2. \A i \in DOMAIN pool' : pool'[i] = Gone' + i
    BY <1>1, <2>1 DEF PoolIsLatest
  <2>3. QED  BY <1>1, <2>1, <2>2 DEF Range
<1>7. NoCardTwice'
  <2>1. /\ \A q \in Requests : \A c \in Range(reply[q].cards) : c \in Issued
        /\ \A m \in DOMAIN hands : \A c \in Range(hands[m]) : c \in Issued
    BY HandedOut DEF IInv, Issued
  <2>2. /\ \A q \in Requests : Range(reply'[q].cards) \cap Range(pool') = {}
        /\ \A m \in DOMAIN hands' : Range(hands'[m]) \cap Range(pool') = {}
    BY <1>2, <1>5, <1>6, <2>1
  <2>3. QED  BY <1>2, <2>2 DEF IInv, NoCardTwice
<1>8. phase' \in [Servers -> {"idle", "packs", "matches", "host", "pass"}] /\ QueuedOnce' /\ FullPacks'
  BY MatchKeepsQueues
<1>9. TypeOK'
  <2>1. /\ reply' \in [Requests -> [kind : {"none", "cards", "sold out"}, cards : Seq(Copy')]]
        /\ hands' \in Seq(Seq(Copy'))
    BY <1>1, <1>2, TypedStill DEF IInv, Copy
  <2>2. discarded \in Nat
    BY DEF IInv, TypeOK
  <2>3. discarded' \in Nat
    BY <1>2, <2>2
  <2>4. QED  BY <1>1, <1>2, <1>8, <2>1, <2>3 DEF IInv, TypeOK, Copy
<1>10. QED  BY <1>1, <1>2, <1>4, <1>5, <1>7, <1>8, <1>9 DEF IInv, IssuedAreGone

\* What the actions that draw cards for a match do.
LEMMA MatchSteps ==
  ASSUME NEW s \in Servers, LocalMatch(s) \/ OfferMatch(s) \/ HostMatch(s)
  PROVE  \/ MatchStep(s, 2 * HandSize) /\ Deal(2 * HandSize)
         \/ MatchStep(s, HandSize) /\ Deal(HandSize)
         \/ MatchStep(s, HandSize) /\ Discard(HandSize)
<1>1. CASE LocalMatch(s)
  BY <1>1 DEF LocalMatch, MatchStep
<1>2. CASE OfferMatch(s)
  BY <1>2 DEF OfferMatch, MatchStep
<1>3. CASE HostMatch(s)
  BY <1>3 DEF HostMatch, MatchStep
<1>4. QED  BY <1>1, <1>2, <1>3

LEMMA HandsAreDrawn == /\ HandSize \in Nat /\ 2 * HandSize \in Nat
                       /\ HandSize <= Copies /\ 2 * HandSize <= Copies
BY CardsAssumption

LEMMA MatchInv ==
  ASSUME IInv, NEW s \in Servers, LocalMatch(s) \/ OfferMatch(s) \/ HostMatch(s)
  PROVE  IInv'
BY MatchSteps, HandsAreDrawn, DealInv, DiscardInv

LEMMA PassTokenInv ==
  ASSUME IInv, NEW s \in Servers, PacksServed(s) \/ PassToken(s)
  PROVE  IInv'
<1>1. UNCHANGED <<players, queue, batch, pool, minted, matches, nils>>
  BY DEF PacksServed, PassToken, token
<1>2. phase[s] = "packs" => batch[s] = <<>>
  BY DEF PacksServed, PassToken
<1>3. phase' \in [Servers -> {"idle", "packs", "matches", "host", "pass"}]
  BY DEF IInv, TypeOK, PacksServed, PassToken
<1>4. tokenAt' \in Servers \cup {Nowhere} /\ losses' \in 0 .. MaxLosses
  <2>1. Succ(s) \in Servers
    BY NAssumption DEF Servers, Succ
  <2>2. losses \in 0 .. MaxLosses /\ tokenAt \in Servers \cup {Nowhere}
    BY DEF IInv, TypeOK
  <2>3. CASE PacksServed(s)
    BY <2>2, <2>3 DEF PacksServed, token
  <2>4. CASE PassToken(s)
    <3>1. \/ tokenAt' = Succ(s) /\ losses' = losses
          \/ tokenAt' = Nowhere /\ losses < MaxLosses /\ losses' = losses + 1
      BY <2>4 DEF PassToken
    <3>2. QED  BY <2>1, <2>2, <3>1, BoundsAssumption
  <2>5. QED  BY <2>3, <2>4
<1>5. TypeOK'
  BY <1>1, <1>3, <1>4 DEF IInv, TypeOK, Copy, players, matches
<1>6. QueuedOnce'
  <2>1. batch[s] = <<>>
    BY <1>2 DEF IInv, QueuedOnce
  <2>2. \A t \in Servers : phase'[t] = phase[t] \/ batch[t] = <<>>
    BY <2>1 DEF IInv, TypeOK, PacksServed, PassToken
  <2>3. QED  BY <1>1, <2>2, QueuesKept DEF players
<1>7. FullPacks'
  BY <1>1 DEF IInv, FullPacks, players
<1>8. QED  BY <1>1, <1>5, <1>6, <1>7, CardsKept DEF IInv, players, matches

\* A new token has new copies only; what the lost one carried is gone.
LEMMA RegenerateTokenInv ==
  ASSUME IInv, RegenerateToken
  PROVE  IInv'
<1>1. /\ pool' = FreshCards /\ minted' = minted + Copies
      /\ UNCHANGED <<players, queue, phase, batch, matches, losses, nils>>
      /\ tokenAt' \in Servers
  BY NAssumption DEF RegenerateToken, Leader, Servers
<1>2. /\ minted \in Nat /\ minted' \in Nat /\ minted <= minted'
      /\ Len(pool) \in Nat /\ Len(pool) <= minted
  <2>1. minted \in Nat /\ pool \in Seq(Copy) /\ Len(pool) <= minted
    BY DEF IInv, TypeOK, PoolIsLatest
  <2>2. Len(pool) \in Nat
    BY <2>1, LenProperties
  <2>3. QED  BY <1>1, <2>1, <2>2, CardsAssumption
<1>3. /\ pool' \in Seq(1 .. minted') /\ Len(pool') = Copies
      /\ \A i \in 1 .. Copies : pool'[i] = minted + i
  BY <1>1, <1>2, FreshCardsTyped
<1>4. Gone' = minted /\ Gone \in Nat /\ Gone <= minted
  BY <1>1, <1>2, <1>3, CardsAssumption DEF Gone
<1>5. PoolIsLatest'
  BY <1>1, <1>2, <1>3, <1>4, CardsAssumption DEF PoolIsLatest
<1>6. \A c \in Issued : c \in 1 .. Gone' /\ c \in 1 .. Gone
  BY <1>2, <1>4 DEF IInv, IssuedAreGone
<1>7. Issued' = Issued
  <2>1. \A c \in 1 .. minted : c \in 1 .. minted'
    BY <1>2
  <2>2. ASSUME NEW c \in Issued' PROVE c \in Issued
    BY <1>1, HandedOut DEF IInv, Issued, players, matches
  <2>3. ASSUME NEW c \in Issued PROVE c \in Issued'
    BY <1>1, <2>1 DEF Issued, Copy, players, matches
  <2>4. QED  BY <2>2, <2>3
<1>8. IssuedAreGone'
  BY <1>6, <1>7 DEF IssuedAreGone
<1>9. NoCardTwice'
  <2>1. DOMAIN pool' = 1 .. Copies
    BY <1>3, LenProperties
  <2>2. \A c \in Range(pool') : c \notin Copy
    BY <1>2, <1>3, <2>1, CardsAssumption DEF Range, Copy
  <2>3. /\ \A r \in Requests : Range(reply'[r].cards) \cap Range(pool') = {}
        /\ \A m \in DOMAIN hands' : Range(hands'[m]) \cap Range(pool') = {}
    BY <1>1, <2>2, HandedOut DEF IInv, players, matches
  <2>4. QED  BY <1>1, <2>3 DEF IInv, NoCardTwice, players, matches
<1>10. TypeOK'
  BY <1>1, <1>2, <1>3, TypedStill DEF IInv, TypeOK, Copy, players, matches
<1>11. QueuedOnce'
  BY <1>1, QueuesKept DEF players
<1>12. FullPacks'
  BY <1>1 DEF IInv, FullPacks, players
<1>13. QED  BY <1>5, <1>8, <1>9, <1>10, <1>11, <1>12 DEF IInv
LEMMA ServeWithoutTokenInv ==
  ASSUME IInv, ServeWithoutToken
  PROVE  IInv'
<1>1. /\ queue' = [queue EXCEPT ![Leader] = <<>>]
      /\ nils' = nils + 1 /\ nils < MaxNils
      /\ UNCHANGED <<players, phase, batch, token, matches, losses>>
  BY DEF ServeWithoutToken
<1>2. TypeOK'
  <2>1. queue' \in [Servers -> Seq(Requests)]
    BY <1>1, EmptySeq DEF IInv, TypeOK
  <2>2. nils' \in 0 .. MaxNils
    <3>1. nils \in 0 .. MaxNils
      BY DEF IInv, TypeOK
    <3>2. QED  BY <1>1, <3>1, BoundsAssumption
  <2>3. QED  BY <1>1, <2>1, <2>2 DEF IInv, TypeOK, Copy, token, players, matches
<1>3. QueuedOnce'
  <2>1. \A s \in Servers : queue'[s] = queue[s] \/ queue'[s] = <<>>
    BY <1>1 DEF IInv, TypeOK
  <2>2. QED  BY <1>1, <2>1, EmptyRange DEF IInv, QueuedOnce, Pending, players
<1>4. FullPacks'
  BY <1>1 DEF IInv, FullPacks, players
<1>5. QED  BY <1>1, <1>2, <1>3, <1>4, CardsKept DEF IInv, token, players, matches

LEMMA StepInv == IInv /\ [Next]_vars => IInv'
<1> SUFFICES ASSUME IInv, [Next]_vars PROVE IInv'
  OBVIOUS
<1>1. ASSUME NEW r \in Requests, OpenPack(r) PROVE IInv'
  BY <1>1, OpenPackInv
<1>2. ASSUME NEW r \in Requests, Client(r) PROVE IInv'
  BY <1>2, ClientInv
<1>3. ASSUME NEW s \in Servers, ReceiveToken(s) PROVE IInv'
  BY <1>3, ReceiveTokenInv
<1>4. ASSUME NEW s \in Servers, ServePack(s) PROVE IInv'
  BY <1>4, ServePackInv
<1>5. ASSUME NEW s \in Servers, PacksServed(s) \/ PassToken(s) PROVE IInv'
  BY <1>5, PassTokenInv
<1>6. ASSUME NEW s \in Servers, LocalMatch(s) \/ OfferMatch(s) \/ HostMatch(s) PROVE IInv'
  BY <1>6, MatchInv
<1>7. CASE RegenerateToken
  BY <1>7, RegenerateTokenInv
<1>8. CASE ServeWithoutToken
  BY <1>8, ServeWithoutTokenInv
<1>9. CASE UNCHANGED vars
  <2>1. TypeOK'
    BY <1>9 DEF IInv, TypeOK, vars, players, token, Copy, matches
  <2>2. QueuedOnce'
    BY <1>9 DEF IInv, QueuedOnce, Pending, vars, players, token
  <2>3. FullPacks'
    BY <1>9 DEF IInv, FullPacks, vars, players, token
  <2>4. QED  BY <1>9, <2>1, <2>2, <2>3, CardsKept DEF IInv, vars, players, token, matches
<1>10. QED  BY <1>1, <1>2, <1>3, <1>4, <1>5, <1>6, <1>7, <1>8, <1>9 DEF Next, Serve

\* The invariant the results below rest on: what is drawn is new, requests are queued once.
THEOREM Invariance == Spec => []IInv
BY InitInv, StepInv, PTL DEF Spec

\* The values stay in the sets the code's types and the ring allow.
THEOREM TypeCorrect == Spec => []TypeOK
<1>1. IInv => TypeOK
  BY DEF IInv
<1>2. QED  BY <1>1, Invariance, PTL

\* No send to a ReplyChan ever blocks the loop that has the token.
THEOREM NeverBlocks == Spec => []ReplyNeverBlocks
<1>1. ASSUME IInv PROVE ReplyNeverBlocks
  <2> SUFFICES ASSUME NEW s \in Servers PROVE IsInjective(queue[s] \o batch[s])
    BY <1>1 DEF IInv, ReplyNeverBlocks, QueuedOnce
  <2>1. queue[s] \in Seq(Requests) /\ batch[s] \in Seq(Requests)
    BY <1>1 DEF IInv, TypeOK
  <2>2. /\ IsInjective(queue[s]) /\ IsInjective(batch[s])
        /\ Range(queue[s]) \cap Range(batch[s]) = {}
    BY <1>1 DEF IInv, QueuedOnce
  <2>3. QED  BY <2>1, <2>2, ConcatInjective
<1>2. QED  BY <1>1, Invariance, PTL

\* No copy of a card is handed out twice, whatever tokens get lost.
THEOREM HandedOutOnce == Spec => []NoCardTwice
<1>1. IInv => NoCardTwice
  BY DEF IInv
<1>2. QED  BY <1>1, Invariance, PTL

----------------------------------------------------------------------------
(* The packs implement the card stock.                                      *)

\* What has been issued grows by the cards that an answer or a match hands out.
LEMMA IssuedGrows ==
  ASSUME TypeOK, TypeOK', minted <= minted', NEW new,
         \/ /\ hands' = hands
            /\ \E r \in Requests : /\ Range(reply[r].cards) = {} /\ Range(reply'[r].cards) = new
                                   /\ \A q \in Requests \ {r} : reply'[q] = reply[q]
         \/ /\ reply' = reply /\ DOMAIN hands' = DOMAIN hands \cup {Len(hands) + 1}
            /\ \A m \in DOMAIN hands : hands'[m] = hands[m] /\ m # Len(hands) + 1
            /\ Range(hands'[Len(hands) + 1]) = new
  PROVE  Issued' = Issued \cup new
<1>1. /\ \A r \in Requests : Range(reply'[r].cards) \subseteq Copy'
      /\ \A m \in DOMAIN hands' : Range(hands'[m]) \subseteq Copy'
  <2>1. ASSUME NEW q \in Seq(Copy') PROVE Range(q) \subseteq Copy'
    BY LenProperties, ElementOfSeq DEF Range
  <2>2. \A r \in Requests : reply'[r].cards \in Seq(Copy')
    BY DEF TypeOK
  <2>3. \A m \in DOMAIN hands' : hands'[m] \in Seq(Copy')
    <3>1. hands' \in Seq(Seq(Copy'))
      BY DEF TypeOK
    <3>2. DOMAIN hands' = 1 .. Len(hands')
      BY <3>1, LenProperties
    <3>3. QED  BY <3>1, <3>2, ElementOfSeq
  <2>4. QED  BY <2>1, <2>2, <2>3
<1>2. Copy \subseteq Copy'
  <2>1. minted \in Nat /\ minted' \in Nat
    BY DEF TypeOK
  <2>2. QED  BY <2>1 DEF Copy
<1>3. ASSUME NEW c \in Issued' PROVE c \in Issued \cup new
  BY <1>3, HandedOut DEF Issued
<1>4. ASSUME NEW c \in Issued PROVE c \in Issued'
  BY <1>2 DEF Issued
<1>5. ASSUME NEW c \in new PROVE c \in Issued'
  BY <1>1 DEF Issued
<1>6. QED  BY <1>3, <1>4, <1>5

\* The next n copies: nobody has them yet.
LEMMA NextCopies ==
  ASSUME IInv, NEW n \in Nat, n <= Copies, TakeFromPool(n)
  PROVE  /\ Cardinality(Gone + 1 .. Gone + n) = n
         /\ (Gone + 1 .. Gone + n) \cap Issued = {}
         /\ Gone \in Nat /\ Gone' = Gone + n /\ minted <= minted'
<1>1. Gone \in Nat /\ Gone' = Gone + n /\ minted <= minted'
  BY Drawn DEF IInv
<1>2. Cardinality(Gone + 1 .. Gone + n) = n
  BY <1>1, FS_Interval, Gone + 1 \in Int, Gone + n \in Int
<1>3. (Gone + 1 .. Gone + n) \cap (1 .. Gone) = {}
  BY <1>1
<1>4. QED  BY <1>1, <1>2, <1>3 DEF IInv, IssuedAreGone

\* ServePack and the deals of a match issue the next copies.
LEMMA ServePackIssues ==
  ASSUME IInv, NEW s \in Servers, ServePack(s)
  PROVE  LET new == Gone + 1 .. Gone + PackSize
         IN  Issued' = Issued \cup new /\ Cardinality(new) = PackSize /\ new \cap Issued = {}
<1> DEFINE r == Head(batch[s])
           new == Gone + 1 .. Gone + PackSize
<1>1. batch[s] \in Seq(Requests) /\ batch[s] # <<>> /\ IsInjective(batch[s])
  BY DEF IInv, TypeOK, QueuedOnce, ServePack
<1>2. r \in Requests /\ r \in Pending(s)
  BY <1>1, TailRange DEF Pending
<1>3. Range(reply[r].cards) = {}
  BY <1>2, EmptyRange DEF IInv, QueuedOnce, NoReply, Answer
<1>4. Range(reply'[r].cards) = new /\ TypeOK'
  BY ServePackInv DEF IInv
<1>5. (\A q \in Requests \ {r} : reply'[q] = reply[q]) /\ hands' = hands
  BY DEF IInv, TypeOK, ServePack, matches
<1>6. Cardinality(new) = PackSize /\ new \cap Issued = {} /\ minted <= minted'
  BY NextCopies, CardsAssumption DEF ServePack
<1> HIDE DEF r, new
<1>7. Issued' = Issued \cup new
  BY <1>2, <1>3, <1>4, <1>5, <1>6, IssuedGrows DEF IInv
<1>8. QED  BY <1>6, <1>7 DEF new

LEMMA DealIssues ==
  ASSUME IInv, NEW s \in Servers, NEW n \in Nat, n <= Copies, MatchStep(s, n), Deal(n)
  PROVE  LET new == Gone + 1 .. Gone + n
         IN  Issued' = Issued \cup new /\ Cardinality(new) = n /\ new \cap Issued = {}
<1> DEFINE new == Gone + 1 .. Gone + n
<1>1. /\ DOMAIN hands' = DOMAIN hands \cup {Len(hands) + 1}
      /\ \A m \in DOMAIN hands : hands'[m] = hands[m] /\ m # Len(hands) + 1
      /\ Range(hands'[Len(hands) + 1]) = new /\ TypeOK'
  BY DealInv DEF IInv
<1>2. reply' = reply
  BY DEF MatchStep, players
<1>3. Cardinality(new) = n /\ new \cap Issued = {} /\ minted <= minted'
  BY NextCopies DEF MatchStep
<1> HIDE DEF new
<1>4. Issued' = Issued \cup new
  BY <1>1, <1>2, <1>3, IssuedGrows DEF IInv
<1>5. QED  BY <1>3, <1>4 DEF new

LEMMA SameCardinality == \A S : Stock!Cardinality(S) = Cardinality(S)
BY Zenon DEF Stock!Cardinality, Cardinality

LEMMA StockInit == Init => Stock!Init
<1> SUFFICES ASSUME Init PROVE Stock!Init
  OBVIOUS
<1>1. {r \in Requests : handler[r] # "new"} = {}
  BY DEF Init
<1>2. \A r \in Requests : Range(reply[r].cards) = {}
  BY EmptyRange DEF Init, NoReply, Answer
<1>3. Issued = {}
  BY DEF Init, Issued, Copy
<1>4. QED  BY <1>1, <1>2, <1>3 DEF Stock!Init

\* OpenPack asks, ServePack answers, a draw for a match deals; nothing else can be seen.
LEMMA StockStep == IInv /\ IInv' /\ [Next]_vars => [Stock!Next]_(Stock!vars)
<1> SUFFICES ASSUME IInv, IInv', [Next]_vars PROVE Stock!Next \/ UNCHANGED Stock!vars
  OBVIOUS
<1> DEFINE asked  == {r \in Requests : handler[r] # "new"}
           answer == [r \in Requests |-> Range(reply[r].cards)]
<1>1. ASSUME UNCHANGED <<reply, hands, minted>>
      PROVE  answer' = answer /\ Issued' = Issued
  BY <1>1 DEF Issued, Copy
<1>2. ASSUME NEW r \in Requests, OpenPack(r) PROVE Stock!Ask(r)
  <2>1. UNCHANGED <<reply, hands, minted>> /\ handler[r] = "new"
        /\ handler' = [handler EXCEPT ![r] = "waiting"]
    BY <1>2 DEF OpenPack, token, matches
  <2>2. r \notin asked /\ asked' = asked \cup {r}
    <3>1. DOMAIN handler = Requests
      BY DEF IInv, TypeOK
    <3>2. \A q \in Requests : handler'[q] = IF q = r THEN "waiting" ELSE handler[q]
      BY <2>1, <3>1
    <3>3. QED  BY <2>1, <3>2
  <2>3. QED  BY <1>1, <2>1, <2>2 DEF Stock!Ask
<1>3. ASSUME NEW r \in Requests, Client(r) PROVE UNCHANGED Stock!vars
  <2>1. UNCHANGED <<reply, hands, minted>>
    BY <1>3 DEF Client, ReceiveReply, TimeOut, token, matches
  <2>2. \A q \in Requests : handler'[q] # "new" <=> handler[q] # "new"
    BY <1>3 DEF IInv, TypeOK, Client, ReceiveReply, TimeOut
  <2>3. QED  BY <1>1, <2>1, <2>2 DEF Stock!vars
<1>4. ASSUME UNCHANGED <<players, hands, minted>> PROVE UNCHANGED Stock!vars
  BY <1>1, <1>4 DEF players, Stock!vars
<1>5. ASSUME NEW s \in Servers, ServePack(s) PROVE Stock!Answer(Head(batch[s]))
  <2> DEFINE r == Head(batch[s])
             new == Gone + 1 .. Gone + PackSize
  <2>1. batch[s] \in Seq(Requests) /\ batch[s] # <<>> /\ IsInjective(batch[s])
    BY <1>5 DEF IInv, TypeOK, QueuedOnce, ServePack
  <2>2. r \in Requests /\ r \in Pending(s)
    BY <2>1, TailRange DEF Pending
  <2>3. handler[r] # "new" /\ reply[r] = NoReply
    BY <2>2 DEF IInv, QueuedOnce
  <2>4. Range(reply[r].cards) = {}
    BY <2>3, EmptyRange DEF NoReply, Answer
  <2>5. Range(reply'[r].cards) = new
    BY <1>5, ServePackInv
  <2>6. /\ \A q \in Requests \ {r} : reply'[q] = reply[q]
        /\ hands' = hands /\ handler' = handler
    BY <1>5 DEF IInv, TypeOK, ServePack, matches
  <2>9. Issued' = Issued \cup new /\ Cardinality(new) = PackSize /\ new \cap Issued = {}
    BY <1>5, ServePackIssues
  <2> HIDE DEF r, new
  <2>10. /\ answer[r] = {} /\ answer'[r] = new
         /\ answer' = [answer EXCEPT ![r] = answer'[r]]
    BY <2>2, <2>4, <2>5, <2>6
  <2>11. r \in asked /\ asked' = asked
    BY <2>2, <2>3, <2>6
  <2> HIDE DEF asked, answer
  <2>12. Stock!Answer(r)
    BY <2>9, <2>10, <2>11, SameCardinality DEF Stock!Answer, Stock!Issue, asked, answer
  <2>13. QED  BY <2>12 DEF r
<1>6. ASSUME NEW s \in Servers, LocalMatch(s) \/ OfferMatch(s) \/ HostMatch(s)
      PROVE  Stock!Deal \/ UNCHANGED Stock!vars
  <2>1. ASSUME NEW k \in {1, 2}, MatchStep(s, k * HandSize), Deal(k * HandSize)
        PROVE  Stock!Deal
    <3> DEFINE new == Gone + 1 .. Gone + k * HandSize
    <3>1. k * HandSize \in Nat /\ k * HandSize <= Copies
      BY HandsAreDrawn
    <3>2. Issued' = Issued \cup new /\ Cardinality(new) = k * HandSize /\ new \cap Issued = {}
      BY <2>1, <3>1, DealIssues
    <3> HIDE DEF new
    <3>3. Issued' \ Issued = new /\ Issued' = Issued \cup new
      BY <3>2
    <3>4. reply' = reply /\ handler' = handler
      BY <2>1 DEF MatchStep, players
    <3>5. asked' = asked /\ answer' = answer
      BY <3>4
    <3>6. Stock!Issue(new, k * HandSize)
      BY <3>2, SameCardinality DEF Stock!Issue
    <3>7. QED  BY <3>3, <3>5, <3>6 DEF Stock!Deal
  <2>2. ASSUME MatchStep(s, HandSize), Discard(HandSize)
        PROVE  UNCHANGED Stock!vars
    BY <2>2, DiscardInv, HandsAreDrawn DEF Stock!vars
  <2>3. 1 * HandSize = HandSize
    BY HandsAreDrawn
  <2>4. QED  BY <1>6, <2>1, <2>2, <2>3, MatchSteps
<1>7. CASE RegenerateToken
  <2>1. UNCHANGED players /\ hands' = hands
    BY <1>7 DEF RegenerateToken, matches
  <2>2. \A c \in Copy : c \in Copy'
    <3>1. minted \in Nat /\ minted' = minted + Copies
      BY <1>7 DEF IInv, TypeOK, RegenerateToken
    <3>2. QED  BY <3>1, CardsAssumption DEF Copy
  <2>3. Issued' = Issued
    BY <2>1, <2>2, HandedOut DEF IInv, Issued, players
  <2>4. QED  BY <2>1, <2>3 DEF players, Stock!vars
<1>8. CASE UNCHANGED vars
  BY <1>4, <1>8 DEF vars, token, matches
<1>9. ASSUME NEW s \in Servers, ReceiveToken(s) \/ PacksServed(s) \/ PassToken(s)
      PROVE  UNCHANGED Stock!vars
  BY <1>4, <1>9 DEF ReceiveToken, PacksServed, PassToken, token, matches
<1>10. CASE ServeWithoutToken
  BY <1>4, <1>10 DEF ServeWithoutToken, token, matches
<1>11. QED
  <2>1. CASE \E r \in Requests : OpenPack(r) \/ Client(r)
    BY <1>2, <1>3, <2>1 DEF Stock!Next
  <2>2. CASE \E s \in Servers : Serve(s) \/ LocalMatch(s) \/ OfferMatch(s) \/ PassToken(s)
    <3>1. PICK s \in Servers : Serve(s) \/ LocalMatch(s) \/ OfferMatch(s) \/ PassToken(s)
      BY <2>2
    <3>2. CASE ServePack(s)
      <4>1. Head(batch[s]) \in Requests
        <5>1. batch[s] \in Seq(Requests) /\ batch[s] # <<>>
          BY <3>2 DEF IInv, TypeOK, ServePack
        <5>2. QED  BY <5>1, HeadTailProperties
      <4>2. QED  BY <1>5, <3>2, <4>1 DEF Stock!Next
    <3>3. QED  BY <1>6, <1>9, <3>1, <3>2 DEF Serve, Stock!Next
  <2>3. QED  BY <1>7, <1>8, <1>10, <2>1, <2>2 DEF Next

\* Requests, ring and pool implement the abstract stock of cards.
THEOREM Implements == Spec => IssuesFreshPacks
BY StockInit, StockStep, Invariance, PTL DEF Spec, IssuesFreshPacks, Stock!Spec

----------------------------------------------------------------------------
(* No copy is lost with the token and the players in good order.             *)

LEMMA SuccIsServer == \A s \in Servers : Succ(s) \in Servers
BY NAssumption DEF Servers, Succ

LEMMA LossesTyped ==
  ASSUME TypeOK
  PROVE  losses \in Nat /\ discarded \in Nat
<1>1. losses \in 0 .. MaxLosses /\ discarded \in Nat
  BY DEF TypeOK
<1>2. QED  BY <1>1, BoundsAssumption

\* Whoever serves queues has the token, and the first token is new.
LEMMA HolderStep ==
  ASSUME TypeOK, HolderServes, [Next]_vars
  PROVE  HolderServes'
<1>1. Nowhere \notin Servers /\ Leader \in Servers
  BY NAssumption DEF Nowhere, Leader, Servers
<1>0. losses' = losses + 1 => losses' # 0
  BY LossesTyped
<1> USE DEF HolderServes, TypeOK, token, matches, GoTo
<1>2. ASSUME NEW r \in Requests, OpenPack(r) \/ Client(r) PROVE HolderServes'
  BY <1>2 DEF OpenPack, Client, ReceiveReply, TimeOut
<1>3. ASSUME NEW s \in Servers, ReceiveToken(s) PROVE HolderServes'
  BY <1>3 DEF ReceiveToken
<1>4. ASSUME NEW s \in Servers, ServePack(s) \/ PacksServed(s) PROVE HolderServes'
  BY <1>1, <1>4 DEF ServePack, PacksServed
<1>5. ASSUME NEW s \in Servers, LocalMatch(s) \/ OfferMatch(s) \/ HostMatch(s)
      PROVE  HolderServes'
  BY <1>1, <1>5 DEF LocalMatch, OfferMatch, HostMatch
<1>6. ASSUME NEW s \in Servers, PassToken(s) PROVE HolderServes'
  <2>1. tokenAt = s /\ phase' = [phase EXCEPT ![s] = "idle"]
    BY <1>6 DEF PassToken
  <2>2. \A t \in Servers : phase'[t] = "idle"
    BY <2>1
  <2>3. tokenAt' = Nowhere => losses' # 0
    <3>1. CASE tokenAt' = Succ(s)
      <4>1. Succ(s) \in 0 .. N - 1
        BY NAssumption, SuccIsServer DEF Servers
      <4>2. QED  BY <1>1, <3>1, <4>1 DEF Servers
    <3>2. CASE losses' = losses + 1
      BY <1>0, <3>2
    <3>3. QED  BY <1>6, <3>1, <3>2 DEF PassToken
  <2>4. QED  BY <2>2, <2>3
<1>7. CASE RegenerateToken
  <2>1. \A t \in Servers : phase'[t] = "idle"
    BY <1>1, <1>7 DEF RegenerateToken
  <2>2. QED  BY <1>1, <1>7, <2>1 DEF RegenerateToken
<1>8. CASE ServeWithoutToken
  BY <1>8 DEF ServeWithoutToken
<1>9. CASE UNCHANGED vars
  BY <1>9 DEF vars
<1>10. QED  BY <1>2, <1>3, <1>4, <1>5, <1>6, <1>7, <1>8, <1>9 DEF Next, Serve

\* What leaves the pool goes to somebody.
LEMMA GoneStep ==
  ASSUME IInv, IInv', HolderServes, GoneAreIssued, [Next]_vars
  PROVE  GoneAreIssued'
<1>1. ASSUME NEW n \in Nat, n <= Copies, TakeFromPool(n), UNCHANGED <<losses, discarded>>,
             Issued' = Issued \cup (Gone + 1 .. Gone + n)
      PROVE  GoneAreIssued'
  <2>1. Gone \in Nat /\ Gone' = Gone + n
    BY <1>1, NextCopies
  <2>2. \A c \in 1 .. Gone' : c \in 1 .. Gone \/ c \in Gone + 1 .. Gone + n
    BY <2>1
  <2>3. QED  BY <1>1, <2>2 DEF GoneAreIssued
<1>2. ASSUME UNCHANGED <<reply, hands, pool, minted, discarded>>, losses' = 0 => losses = 0
      PROVE  GoneAreIssued'
  BY <1>2 DEF GoneAreIssued, Issued, Gone, Copy
<1> USE DEF token, matches, players
<1>3. ASSUME NEW r \in Requests, OpenPack(r) \/ Client(r) PROVE GoneAreIssued'
  BY <1>2, <1>3 DEF OpenPack, Client, ReceiveReply, TimeOut
<1>4. ASSUME NEW s \in Servers, ServePack(s) PROVE GoneAreIssued'
  BY <1>1, <1>4, ServePackIssues, CardsAssumption DEF ServePack
<1>5. ASSUME NEW s \in Servers, NEW n \in Nat, n <= Copies, MatchStep(s, n), Deal(n)
      PROVE  GoneAreIssued'
  BY <1>1, <1>5, DealIssues DEF MatchStep, Deal
<1>6. ASSUME NEW s \in Servers, NEW n, Discard(n) PROVE GoneAreIssued'
  <2>1. discarded' # 0
    BY <1>6, LossesTyped DEF IInv, Discard
  <2>2. QED  BY <2>1 DEF GoneAreIssued
<1>7. ASSUME NEW s \in Servers, LocalMatch(s) \/ OfferMatch(s) \/ HostMatch(s)
      PROVE  GoneAreIssued'
  BY <1>5, <1>6, <1>7, MatchSteps, HandsAreDrawn
<1>8. ASSUME NEW s \in Servers, ReceiveToken(s) \/ PacksServed(s) \/ PassToken(s)
      PROVE  GoneAreIssued'
  <2>1. losses \in Nat
    BY LossesTyped DEF IInv
  <2>2. QED  BY <1>2, <1>8, <2>1 DEF ReceiveToken, PacksServed, PassToken
<1>9. CASE RegenerateToken
  <2>1. ASSUME losses' = 0 PROVE Gone' = 0
    <3>1. minted = 0 /\ pool' = FreshCards /\ minted' = minted + Copies
      BY <1>9, <2>1 DEF RegenerateToken, HolderServes
    <3>2. Len(FreshCards) = Copies
      BY <3>1, FreshCardsTyped
    <3>3. QED  BY <3>1, <3>2, CardsAssumption DEF Gone
  <2>2. QED  BY <2>1 DEF GoneAreIssued
<1>10. CASE ServeWithoutToken
  BY <1>2, <1>10 DEF ServeWithoutToken
<1>11. CASE UNCHANGED vars
  BY <1>2, <1>11 DEF vars
<1>12. QED  BY <1>3, <1>4, <1>7, <1>8, <1>9, <1>10, <1>11 DEF Next, Serve

\* For every number of servers, requests and cards: while no token gets lost and no hand
\* is drawn for nobody, every copy is in the pool, in a pack or in a match.
THEOREM NothingLost == Spec => []NoCardLost
<1>1. Init => HolderServes /\ GoneAreIssued
  BY DEF Init, HolderServes, GoneAreIssued, Gone
<1>2. IInv => TypeOK
  BY DEF IInv
<1>3. ASSUME IInv, GoneAreIssued PROVE NoCardLost
  <2> SUFFICES ASSUME losses = 0, discarded = 0 PROVE Copy = Issued \cup Range(pool)
    BY DEF NoCardLost
  <2>1. minted \in Nat /\ pool \in Seq(Copy) /\ Len(pool) \in Nat /\ Len(pool) <= minted
    BY <1>3, LenProperties DEF IInv, TypeOK, PoolIsLatest
  <2>2. DOMAIN pool = 1 .. Len(pool)
    BY <2>1, LenProperties
  <2>3. \A c \in Issued \cup Range(pool) : c \in Copy
    BY <2>1, <2>2, ElementOfSeq DEF Issued, Range
  <2>4. ASSUME NEW c \in Copy PROVE c \in Issued \cup Range(pool)
    <3>1. c \in 1 .. Gone \/ c - Gone \in 1 .. Len(pool)
      BY <2>1 DEF Copy, Gone
    <3>2. CASE c \in 1 .. Gone
      BY <1>3, <3>2 DEF GoneAreIssued
    <3>3. CASE c - Gone \in 1 .. Len(pool)
      <4>1. pool[c - Gone] = Gone + (c - Gone)
        BY <1>3, <3>3 DEF IInv, PoolIsLatest
      <4>2. Gone \in Int /\ c \in Int
        BY <2>1 DEF Gone, Copy
      <4>3. pool[c - Gone] = c
        BY <4>1, <4>2
      <4>4. QED  BY <2>2, <3>3, <4>3 DEF Range
    <3>4. QED  BY <3>1, <3>2, <3>3
  <2>5. QED  BY <2>3, <2>4
<1>4. IInv /\ IInv' /\ HolderServes /\ GoneAreIssued /\ [Next]_vars
        => HolderServes' /\ GoneAreIssued'
  BY <1>2, HolderStep, GoneStep
<1>5. QED  BY <1>1, <1>3, <1>4, Invariance, PTL DEF Spec
=============================================================================
