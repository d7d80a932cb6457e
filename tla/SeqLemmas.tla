---------------------------- MODULE SeqLemmas ------------------------------
(***************************************************************************)
(* Facts about sequences that the proofs about hands, pools and queues use. *)
(***************************************************************************)
EXTENDS Integers, SequencesExt, TLAPS, SequenceTheorems, WellFoundedInduction

\* The elements of a sequence with one more.
LEMMA AppendRange ==
  ASSUME NEW S, NEW q \in Seq(S), NEW r \in S
  PROVE  /\ Range(Append(q, r)) = Range(q) \cup {r}
         /\ IsInjective(q) /\ r \notin Range(q) => IsInjective(Append(q, r))
<1>1. /\ Append(q, r) \in Seq(S) /\ Len(Append(q, r)) = Len(q) + 1 /\ Len(q) \in Nat
      /\ \A i \in 1 .. Len(q) : Append(q, r)[i] = q[i]
      /\ Append(q, r)[Len(q) + 1] = r
  BY AppendProperties, LenProperties
<1>2. DOMAIN q = 1 .. Len(q) /\ DOMAIN Append(q, r) = 1 .. Len(q) + 1
  BY <1>1, LenProperties
<1> DEFINE p == Append(q, r)
<1> HIDE DEF p
<1>3. /\ DOMAIN p = 1 .. Len(q) + 1 /\ p[Len(q) + 1] = r
      /\ \A i \in 1 .. Len(q) : p[i] = q[i]
  BY <1>1, <1>2 DEF p
<1>4. Range(p) = Range(q) \cup {r}
  BY <1>1, <1>2, <1>3 DEF Range
<1>5. ASSUME IsInjective(q), r \notin Range(q) PROVE IsInjective(p)
  BY <1>1, <1>2, <1>3, <1>5 DEF IsInjective, Range
<1>6. QED  BY <1>4, <1>5 DEF p

\* The elements of a sequence without its head, if no element is in it twice.
LEMMA TailRange ==
  ASSUME NEW S, NEW q \in Seq(S), q # <<>>, IsInjective(q)
  PROVE  /\ Tail(q) \in Seq(S) /\ IsInjective(Tail(q))
         /\ Head(q) \in Range(q) /\ Head(q) \in S
         /\ Range(Tail(q)) = Range(q) \ {Head(q)}
<1>1. /\ Tail(q) \in Seq(S) /\ Len(Tail(q)) = Len(q) - 1 /\ Len(q) \in Nat \ {0}
      /\ Head(q) \in S /\ Head(q) = q[1]
      /\ \A i \in 1 .. Len(q) - 1 : Tail(q)[i] = q[i + 1]
  BY HeadTailProperties, EmptySeq, SMT
<1>2. DOMAIN q = 1 .. Len(q) /\ DOMAIN Tail(q) = 1 .. Len(q) - 1
  BY <1>1, LenProperties
<1> DEFINE t == Tail(q)
<1> HIDE DEF t
<1>3. DOMAIN t = 1 .. Len(q) - 1 /\ \A i \in 1 .. Len(q) - 1 : t[i] = q[i + 1]
  BY <1>1, <1>2 DEF t
<1>4. IsInjective(t)
  <2> SUFFICES ASSUME NEW i \in 1 .. Len(q) - 1, NEW j \in 1 .. Len(q) - 1, t[i] = t[j]
               PROVE  i = j
    BY <1>3 DEF IsInjective
  <2>1. /\ i + 1 \in DOMAIN q /\ j + 1 \in DOMAIN q
        /\ q[i + 1] = q[j + 1]
    BY <1>1, <1>2, <1>3
  <2>2. i + 1 = j + 1
    BY <2>1 DEF IsInjective
  <2>3. QED  BY <2>2
<1>5. Range(t) \subseteq Range(q) \ {q[1]}
  BY <1>1, <1>2, <1>3 DEF IsInjective, Range
<1>6. Range(q) \ {q[1]} \subseteq Range(t)
  <2> SUFFICES ASSUME NEW i \in 1 .. Len(q), q[i] # q[1] PROVE q[i] \in Range(t)
    BY <1>2 DEF Range
  <2>1. i - 1 \in 1 .. Len(q) - 1 /\ t[i - 1] = q[i]
    BY <1>1, <1>3
  <2>2. QED  BY <1>3, <2>1 DEF Range
<1>7. q[1] \in Range(q)
  BY <1>1, <1>2 DEF Range
<1>8. QED  BY <1>1, <1>4, <1>5, <1>6, <1>7, Zenon DEF t

\* The empty sequence has no elements.
LEMMA EmptyRange == Range(<<>>) = {} /\ IsInjective(<<>>)
BY DEF Range, IsInjective

\* Two injective sequences without a common element make one.
LEMMA ConcatInjective ==
  ASSUME NEW S, NEW q \in Seq(S), NEW b \in Seq(S),
         IsInjective(q), IsInjective(b), Range(q) \cap Range(b) = {}
  PROVE  IsInjective(q \o b)
<1>1. /\ q \o b \in Seq(S) /\ Len(q \o b) = Len(q) + Len(b)
      /\ \A i \in 1 .. Len(q) + Len(b) : (q \o b)[i] = IF i <= Len(q) THEN q[i] ELSE b[i - Len(q)]
      /\ Len(q) \in Nat /\ Len(b) \in Nat
  BY ConcatProperties, LenProperties
<1>2. DOMAIN q = 1 .. Len(q) /\ DOMAIN b = 1 .. Len(b) /\ DOMAIN (q \o b) = 1 .. Len(q) + Len(b)
  BY <1>1, LenProperties
<1> DEFINE c == q \o b
<1> HIDE DEF c
<1>3. /\ DOMAIN c = 1 .. Len(q) + Len(b)
      /\ \A i \in 1 .. Len(q) + Len(b) : c[i] = IF i <= Len(q) THEN q[i] ELSE b[i - Len(q)]
  BY <1>1, <1>2 DEF c
<1>4. ASSUME NEW i \in DOMAIN c, NEW j \in DOMAIN c, c[i] = c[j] PROVE i = j
  <2>1. CASE i <= Len(q) /\ j <= Len(q)
    BY <1>1, <1>2, <1>3, <1>4, <2>1 DEF IsInjective
  <2>2. CASE i > Len(q) /\ j > Len(q)
    <3>1. i - Len(q) \in 1 .. Len(b) /\ j - Len(q) \in 1 .. Len(b)
      BY <1>1, <1>3, <2>2
    <3>2. b[i - Len(q)] = b[j - Len(q)]
      BY <1>1, <1>3, <1>4, <2>2
    <3>3. i - Len(q) = j - Len(q)
      BY <1>2, <3>1, <3>2 DEF IsInjective
    <3>4. QED  BY <1>1, <1>3, <3>3
  <2>3. ASSUME NEW k \in 1 .. Len(q), NEW m \in 1 .. Len(b) PROVE q[k] # b[m]
    BY <1>2 DEF Range
  <2>4. CASE i <= Len(q) /\ j > Len(q)
    BY <1>1, <1>3, <1>4, <2>4, <2>3
  <2>5. CASE i > Len(q) /\ j <= Len(q)
    BY <1>1, <1>3, <1>4, <2>5, <2>3
  <2>6. QED  BY <1>1, <1>3, <2>1, <2>2, <2>4, <2>5
<1>5. QED  BY <1>4 DEF IsInjective, c

\* What is left of a sequence when its first n places are taken.
LEMMA SubSeqTail ==
  ASSUME NEW S, NEW q \in Seq(S), NEW n \in Nat, n <= Len(q)
  PROVE  /\ SubSeq(q, n + 1, Len(q)) \in Seq(S)
         /\ Len(SubSeq(q, n + 1, Len(q))) = Len(q) - n
         /\ \A i \in 1 .. Len(q) - n : SubSeq(q, n + 1, Len(q))[i] = q[n + i]
<1> DEFINE first == n + 1
           last == Len(q)
<1>1. first \in Int /\ last \in Nat /\ last \in Int /\ first = n + 1 /\ last = Len(q) /\ n <= last
  BY LenProperties
<1>2. \A i \in first .. last : q[i] \in S
  <2> SUFFICES ASSUME NEW i \in first .. last PROVE q[i] \in S
    OBVIOUS
  <2>1. i \in 1 .. Len(q)
    BY <1>1
  <2>2. QED  BY <2>1, ElementOfSeq
<1> HIDE DEF first, last
<1>3. /\ SubSeq(q, first, last) \in Seq(S)
      /\ Len(SubSeq(q, first, last)) = IF first <= last THEN last - first + 1 ELSE 0
      /\ \A i \in 1 .. last - first + 1 : SubSeq(q, first, last)[i] = q[first + i - 1]
  BY <1>1, <1>2, SubSeqProperties
<1>4. Len(SubSeq(q, first, last)) = last - n
  BY <1>1, <1>3
<1>5. ASSUME NEW i \in 1 .. last - n PROVE SubSeq(q, first, last)[i] = q[n + i]
  <2>1. i \in 1 .. last - first + 1 /\ first + i - 1 = n + i
    BY <1>1
  <2>2. QED  BY <1>3, <2>1, Zenon
<1>6. QED  BY <1>1, <1>3, <1>4, <1>5, Zenon

\* The numbers 1 .. n have a least element in every nonempty subset.
LEMMA LeastIndex ==
  ASSUME NEW n \in Nat, NEW I \in SUBSET (1 .. n), I # {}
  PROVE  Min(I) \in 1 .. n /\ Min(I) \in I
<1>1. PICK k \in I : \A m \in I : <<m, k>> \notin OpToRel(<, Nat)
  BY I \subseteq Nat, NatLessThanWellFounded, WFMin, Zenon
<1>2. k \in I /\ \A m \in I : k <= m
  <2> SUFFICES ASSUME NEW m \in I, m < k PROVE FALSE
    BY SMT
  <2>1. <<m, k>> \in Nat \X Nat
    BY SMT
  <2>2. <<m, k>> \in OpToRel(<, Nat)
    BY <2>1 DEF OpToRel
  <2>3. QED  BY <1>1, <2>2
<1>3. QED  BY <1>2 DEF Min

\* Removing a card that is in the hand shortens the hand by one; removing another card
\* leaves it alone.
LEMMA RemoveFirstLen ==
  ASSUME NEW S, NEW h \in Seq(S), NEW c
  PROVE  /\ RemoveFirst(h, c) \in Seq(S)
         /\ Len(RemoveFirst(h, c)) <= Len(h)
<1> DEFINE I == {i \in 1 .. Len(h) : h[i] = c}
<1> DEFINE k == Min(I)
<1>1. CASE \E i \in 1 .. Len(h) : h[i] = c
  <2>1. k \in 1 .. Len(h)
    BY <1>1, LeastIndex, Len(h) \in Nat
  <2>2. I # {}
    BY <1>1
  <2>3. RemoveFirst(h, c) = SubSeq(h, 1, k - 1) \o SubSeq(h, k + 1, Len(h))
    BY <1>1, <2>2 DEF RemoveFirst, RemoveAt, SelectInSeq
  <2> DEFINE a == SubSeq(h, 1, k - 1)
  <2> DEFINE b == SubSeq(h, k + 1, Len(h))
  <2> HIDE DEF k
  <2>4. a \in Seq(S) /\ Len(a) = k - 1
    BY <2>1, SMT
  <2>5. b \in Seq(S) /\ Len(b) = Len(h) - k
    BY <2>1, SMT
  <2> HIDE DEF a, b
  <2>6. RemoveFirst(h, c) = a \o b
    BY <2>3 DEF a, b
  <2>7. a \o b \in Seq(S) /\ Len(a \o b) = Len(a) + Len(b)
    BY <2>4, <2>5, ConcatProperties
  <2>8. QED  BY <2>1, <2>4, <2>5, <2>6, <2>7, Len(h) \in Nat
<1>2. CASE ~ \E i \in 1 .. Len(h) : h[i] = c
  BY <1>2, Len(h) \in Nat DEF RemoveFirst
<1>3. QED  BY <1>1, <1>2

\* Removing an element from a sequence that has it once at most leaves all the others.
LEMMA RemoveFirstRange ==
  ASSUME NEW S, NEW q \in Seq(S), IsInjective(q), NEW c
  PROVE  /\ RemoveFirst(q, c) \in Seq(S) /\ IsInjective(RemoveFirst(q, c))
         /\ Range(RemoveFirst(q, c)) = Range(q) \ {c}
<1>1. Len(q) \in Nat /\ DOMAIN q = 1 .. Len(q)
  BY LenProperties
<1>2. CASE \E i \in 1 .. Len(q) : q[i] = c
  <2> DEFINE I == {i \in 1 .. Len(q) : q[i] = c}
  <2> DEFINE k == Min(I)
  <2>1. k \in 1 .. Len(q) /\ k \in I
    BY <1>1, <1>2, LeastIndex
  <2>2. q[k] = c
    BY <2>1
  <2>3. RemoveFirst(q, c) = SubSeq(q, 1, k - 1) \o SubSeq(q, k + 1, Len(q))
    BY <1>2 DEF RemoveFirst, RemoveAt, SelectInSeq
  <2> HIDE DEF k, I
  <2> DEFINE a == SubSeq(q, 1, k - 1)
             b == SubSeq(q, k + 1, Len(q))
             r == a \o b
  <2>4. k \in Nat /\ k <= Len(q) /\ k >= 1
    BY <1>1, <2>1
  <2>5. \A i \in 1 .. Len(q) : q[i] \in S
    BY ElementOfSeq
  <2>6. a \in Seq(S) /\ Len(a) = k - 1 /\ \A i \in 1 .. k - 1 : a[i] = q[i]
    <3>1. 1 \in Int /\ k - 1 \in Int /\ \A i \in 1 .. k - 1 : q[i] \in S
      BY <1>1, <2>4, <2>5
    <3> HIDE DEF a
    <3>2. /\ a \in Seq(S) /\ Len(a) = IF 1 <= k - 1 THEN k - 1 - 1 + 1 ELSE 0
          /\ \A i \in 1 .. k - 1 - 1 + 1 : a[i] = q[1 + i - 1]
      BY <3>1, SubSeqProperties DEF a
    <3>3. QED  BY <2>4, <3>2
  <2>7. b \in Seq(S) /\ Len(b) = Len(q) - k /\ \A i \in 1 .. Len(q) - k : b[i] = q[k + i]
    BY <2>4, SubSeqTail
  <2> HIDE DEF a, b
  <2>8. /\ r \in Seq(S) /\ Len(r) = Len(a) + Len(b)
        /\ \A i \in 1 .. Len(a) + Len(b) : r[i] = IF i <= Len(a) THEN a[i] ELSE b[i - Len(a)]
    BY <2>6, <2>7, ConcatProperties, Zenon
  <2> HIDE DEF r
  <2>9. DOMAIN r = 1 .. Len(q) - 1
    BY <1>1, <2>4, <2>6, <2>7, <2>8, LenProperties
  <2>10. ASSUME NEW i \in 1 .. Len(q) - 1 PROVE r[i] = IF i < k THEN q[i] ELSE q[i + 1]
    <3>1. r[i] = IF i <= k - 1 THEN a[i] ELSE b[i - (k - 1)]
      BY <1>1, <2>4, <2>6, <2>7, <2>8
    <3>2. CASE i < k
      BY <1>1, <2>4, <2>6, <3>1, <3>2
    <3>3. CASE ~(i < k)
      <4>1. i - (k - 1) \in 1 .. Len(q) - k /\ k + (i - (k - 1)) = i + 1 /\ ~(i <= k - 1)
        BY <1>1, <2>4, <3>3
      <4>2. r[i] = b[i - (k - 1)]
        BY <3>1, <4>1, Zenon
      <4>3. b[i - (k - 1)] = q[k + (i - (k - 1))]
        BY <2>7, <4>1, Zenon
      <4>4. QED  BY <3>3, <4>1, <4>2, <4>3, Zenon
    <3>4. QED  BY <3>2, <3>3
  <2>11. IsInjective(r)
    <3> SUFFICES ASSUME NEW i \in 1 .. Len(q) - 1, NEW j \in 1 .. Len(q) - 1, r[i] = r[j]
                 PROVE  i = j
      BY <2>9 DEF IsInjective
    <3>1. PICK m \in 1 .. Len(q) : m = (IF i < k THEN i ELSE i + 1) /\ r[i] = q[m]
      BY <1>1, <2>4, <2>10
    <3>2. PICK n \in 1 .. Len(q) : n = (IF j < k THEN j ELSE j + 1) /\ r[j] = q[n]
      BY <1>1, <2>4, <2>10
    <3>3. m = n
      BY <1>1, <3>1, <3>2 DEF IsInjective
    <3>4. QED  BY <1>1, <2>4, <3>1, <3>2, <3>3
  <2>12. ASSUME NEW x \in Range(r) PROVE x \in Range(q) \ {c}
    <3>1. PICK i \in 1 .. Len(q) - 1 : x = r[i]
      BY <2>9 DEF Range
    <3>2. PICK m \in 1 .. Len(q) : m # k /\ r[i] = q[m]
      BY <1>1, <2>4, <2>10
    <3>3. q[m] # c
      BY <1>1, <2>1, <2>2, <3>2 DEF IsInjective
    <3>4. QED  BY <1>1, <3>1, <3>2, <3>3 DEF Range
  <2>13. ASSUME NEW x \in Range(q) \ {c} PROVE x \in Range(r)
    <3>1. PICK m \in 1 .. Len(q) : x = q[m]
      BY <1>1 DEF Range
    <3>2. m # k
      BY <2>2, <3>1
    <3>3. PICK i \in 1 .. Len(q) - 1 : i = (IF m < k THEN m ELSE m - 1)
      BY <1>1, <2>4, <3>2
    <3>4. r[i] = q[m]
      BY <1>1, <2>4, <2>10, <3>2, <3>3
    <3>5. QED  BY <2>9, <3>1, <3>4 DEF Range
  <2>14. RemoveFirst(q, c) = r
    BY <2>3 DEF r, a, b
  <2>15. QED  BY <2>8, <2>11, <2>12, <2>13, <2>14
<1>3. CASE ~ \E i \in 1 .. Len(q) : q[i] = c
  <2>1. RemoveFirst(q, c) = q
    BY <1>3 DEF RemoveFirst
  <2>2. c \notin Range(q)
    BY <1>1, <1>3 DEF Range
  <2>3. QED  BY <2>1, <2>2
<1>4. QED  BY <1>2, <1>3
=============================================================================
