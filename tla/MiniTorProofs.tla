--------------------------- MODULE MiniTorProofs ---------------------------
(***************************************************************************)
(* Lemmas about the operators of MiniTor.                                  *)
(***************************************************************************)
EXTENDS MiniTor, SequenceTheorems, TLAPS

\* Intervals as inequalities, which the provers handle better.
LEMMA InWord ==
  \A n : n \in Word <=> n \in Int /\ 0 <= n /\ n <= 65535
<1> DEFINE b == 65535
<1>1. b \in Int /\ Word = 0 .. b
  BY DEF Word
<1> HIDE DEF b
<1>2. \A n : n \in Word <=> n \in Int /\ 0 <= n /\ n <= b
  BY <1>1
<1> QED
  BY <1>2 DEF b

\* The bytes of an identifier, and the identifier of two bytes.  Kept unexpanded,
\* these names spare the provers the numerals.
Byte       == 0 .. 255
High(x)    == x \div 256
Low(x)     == x % 256
Pair(m, q) == 256 * m + q

LEMMA InByte ==
  \A n : n \in Byte <=> n \in Int /\ 0 <= n /\ n <= 255
BY DEF Byte

LEMMA Bytes ==
  ASSUME NEW x \in Word
  PROVE  High(x) \in Byte /\ Low(x) \in Byte /\ x = Pair(High(x), Low(x))
<1>1. x \in Int /\ 0 <= x /\ x <= 65535
  BY InWord
<1>2. High(x) \in Int /\ 0 <= High(x) /\ High(x) <= 255
  BY <1>1 DEF High
<1>3. Low(x) \in Int /\ 0 <= Low(x) /\ Low(x) <= 255
  BY <1>1 DEF Low
<1>4. x = Pair(High(x), Low(x))
  BY <1>1 DEF High, Low, Pair
<1> QED
  BY <1>2, <1>3, <1>4, InByte

LEMMA TwoBytes ==
  ASSUME NEW m \in Byte, NEW q \in Byte
  PROVE  /\ Pair(m, q) \in Word
         /\ High(Pair(m, q)) = m
         /\ Low(Pair(m, q)) = q
<1>1. m \in Int /\ 0 <= m /\ m <= 255 /\ q \in Int /\ 0 <= q /\ q <= 255
  BY InByte
<1>2. Pair(m, q) \in Int /\ 0 <= Pair(m, q) /\ Pair(m, q) <= 65535
  BY <1>1 DEF Pair
<1>3. Low(Pair(m, q)) = q
  BY <1>1 DEF Pair, Low
<1>4. High(Pair(m, q)) = m
  BY <1>1 DEF Pair, High
<1> QED
  BY <1>2, <1>3, <1>4, InWord

LEMMA HtonsSwaps ==
  \A x : htons(x) = Pair(Low(x), High(x))
BY DEF htons, Pair, Low, High

\* Swapping bytes keeps the width of an identifier.
LEMMA HtonsType ==
  ASSUME NEW x \in Word
  PROVE  htons(x) \in Word
BY Bytes, TwoBytes, HtonsSwaps

\* Swapping twice gives the identifier back: what htons writes, ntohs reads.
LEMMA HtonsInvolution ==
  ASSUME NEW x \in Word
  PROVE  htons(htons(x)) = x
<1>1. High(x) \in Byte /\ Low(x) \in Byte /\ x = Pair(High(x), Low(x))
  BY Bytes
<1>2. htons(x) = Pair(Low(x), High(x))
  BY HtonsSwaps
<1>3. High(htons(x)) = Low(x) /\ Low(htons(x)) = High(x)
  BY <1>1, <1>2, TwoBytes
<1> QED
  BY <1>1, <1>3, HtonsSwaps

LEMMA MyCircuitIDType ==
  ASSUME NEW given \in Word, NEW r \in Router
  PROVE  MyCircuitID(given, r) \in Word
<1>1. r \in Nat
  BY RoutersAssumption DEF RoutersAssumption, Router
<1>2. given + 256 * r + 1 \in Nat
  BY <1>1, InWord
<1>3. \A n \in Nat : n % 65536 \in Int /\ 0 <= n % 65536 /\ n % 65536 <= 65535
  OBVIOUS
<1> DEFINE n == given + 256 * r + 1
           w == n % 65536
<1>4. MyCircuitID(given, r) = w
  BY DEF MyCircuitID
<1>5. n \in Nat
  BY <1>2
<1> HIDE DEF n
<1>6. w \in Int /\ 0 <= w /\ w <= 65535
  BY <1>3, <1>5
<1> HIDE DEF w
<1> QED
  BY <1>4, <1>6, InWord

\* The selected hops are routers, followed by the exit marker.
LEMMA HopsType ==
  ASSUME NEW i \in 0 .. noOfRouters - 1
  PROVE  /\ RandomlySelectHops2(i) \in Seq(Router \cup {LAST_HOP_PortNumber})
         /\ DOMAIN RandomlySelectHops2(i) = 1 .. noOfHops + 1
         /\ \A j \in 1 .. noOfHops : RandomlySelectHops2(i)[j] \in Router
         /\ RandomlySelectHops2(i)[noOfHops + 1] = LAST_HOP_PortNumber
<1>1. noOfRouters \in 1 .. 6 /\ noOfHops \in Nat \ {0}
  BY RoutersAssumption, HopsAssumption DEF RoutersAssumption, HopsAssumption
<1>2. \A m \in Nat, n \in 1 .. 6 : m % n \in 0 .. n - 1
  OBVIOUS
<1>3. \A j \in 1 .. noOfHops : ((i + j) % noOfRouters) + 1 \in Router
  BY <1>1, <1>2 DEF Router
<1> DEFINE h == RandomlySelectHops2(i)
<1>4. DOMAIN h = 1 .. noOfHops + 1
  BY DEF RandomlySelectHops2
<1>5. \A j \in 1 .. noOfHops : h[j] \in Router
  BY <1>1, <1>3 DEF RandomlySelectHops2
<1>6. h[noOfHops + 1] = LAST_HOP_PortNumber
  BY <1>1 DEF RandomlySelectHops2
<1>7. h \in [1 .. noOfHops + 1 -> Router \cup {LAST_HOP_PortNumber}]
  <2>1. h = [j \in 1 .. noOfHops + 1 |-> h[j]]
    BY DEF RandomlySelectHops2
  <2>2. \A j \in 1 .. noOfHops + 1 : h[j] \in Router \cup {LAST_HOP_PortNumber}
    BY <1>1, <1>5, <1>6
  <2> QED
    BY <2>1, <2>2
<1>8. noOfHops + 1 \in Nat
  BY <1>1
<1> HIDE DEF h
<1>9. h \in Seq(Router \cup {LAST_HOP_PortNumber})
  BY <1>7, <1>8
<1> QED
  BY <1>4, <1>5, <1>6, <1>9 DEF h

\* noOfHops <= noOfRouters makes them different routers (proxy.cc:578).
LEMMA HopsDistinct ==
  ASSUME NEW i \in 0 .. noOfRouters - 1,
         NEW j \in 1 .. noOfHops, NEW k \in 1 .. noOfHops,
         RandomlySelectHops2(i)[j] = RandomlySelectHops2(i)[k]
  PROVE  j = k
<1>1. noOfRouters \in 1 .. 6 /\ noOfHops \in Nat /\ noOfHops <= noOfRouters
  BY RoutersAssumption, HopsAssumption DEF RoutersAssumption, HopsAssumption
<1>2. \A m \in Nat, n \in 1 .. 6 : m % n \in 0 .. n - 1
  OBVIOUS
<1>3. (i + j) % noOfRouters \in Int /\ (i + k) % noOfRouters \in Int
  BY <1>1, <1>2
<1>4. ((i + j) % noOfRouters) + 1 = ((i + k) % noOfRouters) + 1
  BY <1>1 DEF RandomlySelectHops2
<1>5. (i + j) % noOfRouters = (i + k) % noOfRouters
  BY <1>3, <1>4
<1>6. \A n \in 1 .. 6 : \A a, b \in Nat :
        a % n = b % n /\ a - b < n /\ b - a < n => a = b
  OBVIOUS
<1>7. i + j = i + k
  BY <1>1, <1>5, <1>6
<1> QED
  BY <1>1, <1>7

\* What is known of the hops once they are chosen, without the formula that
\* chose them.
HopsAre(h) ==
  /\ h \in Seq(Router \cup {LAST_HOP_PortNumber})
  /\ DOMAIN h = 1 .. noOfHops + 1
  /\ \A j \in 1 .. noOfHops : h[j] \in Router
  /\ h[noOfHops + 1] = LAST_HOP_PortNumber
  /\ \A j, k \in 1 .. noOfHops : h[j] = h[k] => j = k

LEMMA SelectedHops ==
  ASSUME NEW i \in 0 .. noOfRouters - 1
  PROVE  HopsAre(RandomlySelectHops2(i)) /\ RandomlySelectHops2(i) # << >>
<1> DEFINE h == RandomlySelectHops2(i)
<1>1. /\ h \in Seq(Router \cup {LAST_HOP_PortNumber})
      /\ DOMAIN h = 1 .. noOfHops + 1
      /\ \A j \in 1 .. noOfHops : h[j] \in Router
      /\ h[noOfHops + 1] = LAST_HOP_PortNumber
  BY HopsType
<1>2. \A j, k \in 1 .. noOfHops : h[j] = h[k] => j = k
  BY HopsDistinct
<1> HIDE DEF h
<1>3. h # << >>
  <2>1. 1 \in 1 .. noOfHops + 1 /\ DOMAIN << >> = {}
    BY HopsAssumption DEF HopsAssumption
  <2> QED
    BY <1>1, <2>1
<1> QED
  BY <1>1, <1>2, <1>3 DEF HopsAre, h

\* Pieces of a path: from hop i to hop j.
LEMMA PathPieces ==
  ASSUME NEW h, HopsAre(h), NEW i \in 1 .. noOfHops + 1, NEW j \in 0 .. noOfHops
  PROVE  /\ SubSeq(h, i, j) \in Seq(Router)
         /\ j < i => SubSeq(h, i, j) = << >>
         /\ i <= j => /\ SubSeq(h, i, j) # << >> /\ Head(SubSeq(h, i, j)) = h[i]
                      /\ Tail(SubSeq(h, i, j)) = SubSeq(h, i + 1, j)
                      /\ <<h[i]>> \o SubSeq(h, i + 1, j) = SubSeq(h, i, j)
<1>1. /\ noOfHops \in Nat /\ i \in Int /\ j \in Int /\ 1 <= i /\ i <= noOfHops + 1
      /\ 0 <= j /\ j <= noOfHops
  BY HopsAssumption DEF HopsAssumption
<1>2. /\ SubSeq(h, i, j) \in Seq(Router)
      /\ Len(SubSeq(h, i, j)) = IF i <= j THEN j - i + 1 ELSE 0
  <2>1. \A k \in i .. j : h[k] \in Router
    BY <1>1 DEF HopsAre
  <2> QED
    BY <1>1, <2>1, SubSeqProperties
<1>3. j < i => SubSeq(h, i, j) = << >>
  BY <1>1, SubSeqEmpty
<1>4. ASSUME i <= j
      PROVE  /\ SubSeq(h, i, j) # << >> /\ Head(SubSeq(h, i, j)) = h[i]
             /\ Tail(SubSeq(h, i, j)) = SubSeq(h, i + 1, j)
             /\ <<h[i]>> \o SubSeq(h, i + 1, j) = SubSeq(h, i, j)
  <2>1. h \in Seq(Router \cup {LAST_HOP_PortNumber}) /\ Len(h) = noOfHops + 1
    <3>1. Len(h) \in Nat /\ 1 .. Len(h) = 1 .. noOfHops + 1
      BY LenProperties DEF HopsAre
    <3> QED
      BY <1>1, <3>1 DEF HopsAre
  <2>2. i \in 1 .. Len(h) /\ j \in i .. Len(h)
    BY <1>1, <1>4, <2>1
  <2>3. Len(SubSeq(h, i, j)) # 0 /\ Len(<< >>) = 0
    BY <1>1, <1>2, <1>4
  <2> QED
    BY <2>1, <2>2, <2>3, HeadTailOfSubSeq, SubSeqRecursiveFirst
<1> QED
  BY <1>2, <1>3, <1>4

\* The first hops as a sequence: how long it is, and that it grows by the next hop.
LEMMA PathGrows ==
  ASSUME NEW h, HopsAre(h), NEW v \in 0 .. noOfHops
  PROVE  /\ Len(SubSeq(h, 1, v)) = v /\ DOMAIN SubSeq(h, 1, v) = 1 .. v
         /\ \A j \in 1 .. v : SubSeq(h, 1, v)[j] = h[j]
         /\ v < noOfHops => /\ SubSeq(h, 1, v + 1) = Append(SubSeq(h, 1, v), h[v + 1])
                            /\ h[v + 1] \in Router
                            /\ \A j \in 1 .. v : h[j] # h[v + 1]
<1>1. v \in Int /\ 0 <= v /\ v <= noOfHops /\ noOfHops \in Int
  BY HopsAssumption DEF HopsAssumption
<1>2. \A w \in Nat : /\ Len(SubSeq(h, 1, w)) = w /\ DOMAIN SubSeq(h, 1, w) = 1 .. w
                     /\ \A j \in 1 .. w : SubSeq(h, 1, w)[j] = h[j]
  OBVIOUS
<1>3. /\ Len(SubSeq(h, 1, v)) = v /\ DOMAIN SubSeq(h, 1, v) = 1 .. v
      /\ \A j \in 1 .. v : SubSeq(h, 1, v)[j] = h[j]
  BY <1>1, <1>2
<1>4. ASSUME v < noOfHops
      PROVE  /\ SubSeq(h, 1, v + 1) = Append(SubSeq(h, 1, v), h[v + 1])
             /\ h[v + 1] \in Router
             /\ \A j \in 1 .. v : h[j] # h[v + 1]
  <2>1. PICK k : k = v + 1
    OBVIOUS
  <2>2. k \in 1 .. noOfHops /\ \A j \in 1 .. v : j \in 1 .. noOfHops /\ j # k
    BY <1>1, <1>4, <2>1
  <2>3. h[k] \in Router /\ \A j \in 1 .. v : h[j] # h[k]
    BY <2>2 DEF HopsAre
  <2>4. SubSeq(h, 1, k) = Append(SubSeq(h, 1, v), h[k])
    <3>1. SubSeq(h, 1, k) \in Seq(Router) /\ SubSeq(h, 1, v) \in Seq(Router)
      <4>1. 1 \in 1 .. noOfHops + 1 /\ k \in 0 .. noOfHops
        BY <1>1, <2>2
      <4> QED
        BY <4>1, PathPieces
    <3>2. PICK a, b : a = SubSeq(h, 1, k) /\ b = SubSeq(h, 1, v)
      OBVIOUS
    <3>3. PICK x : x = h[k]
      OBVIOUS
    <3>4. /\ a \in Seq(Router) /\ b \in Seq(Router) /\ Len(a) = k /\ Len(b) = v
          /\ \A j \in 1 .. k : a[j] = h[j]
          /\ \A j \in 1 .. v : b[j] = h[j]
      BY <1>1, <1>2, <1>3, <2>1, <3>1, <3>2
    <3>5. a[k] = x /\ \A j \in 1 .. v : a[j] = b[j]
      BY <1>1, <2>1, <3>3, <3>4
    <3>6. a = Append(b, x)
      BY <1>1, <2>1, <2>3, <3>3, <3>4, <3>5
    <3> QED
      BY <3>2, <3>3, <3>6
  <2> QED
    BY <2>1, <2>3, <2>4
<1> QED
  BY <1>3, <1>4

\* Delivery appends to the queue of a live receiver or changes nothing.
LEMMA DeliverType ==
  ASSUME NEW M, NEW q \in [Node -> Seq(M)], NEW live \in SUBSET Node, NEW b, NEW d,
         NEW m \in M
  PROVE  Deliver(q, live, b, d, m) \in [Node -> Seq(M)]
<1>1. CASE d \in live /\ Len(q[d]) < b
  <2>1. d \in Node /\ Append(q[d], m) \in Seq(M)
    BY <1>1
  <2> QED
    BY <1>1, <2>1 DEF Deliver
<1>2. CASE ~ (d \in live /\ Len(q[d]) < b)
  BY <1>2 DEF Deliver
<1> QED
  BY <1>1, <1>2

\* Sequences over a set.
LEMMA SeqElements ==
  ASSUME NEW S, NEW q \in Seq(S)
  PROVE  /\ \A x \in S : Append(q, x) \in Seq(S)
         /\ q # << >> => Head(q) \in S /\ Tail(q) \in Seq(S)
         /\ \A n \in DOMAIN q : q[n] \in S
OBVIOUS

LEMMA SeqWidened ==
  ASSUME NEW S, NEW T, S \subseteq T, NEW q \in Seq(S)
  PROVE  q \in Seq(T)
OBVIOUS

\* When A[n] is what queue n may hold, delivering what the receiver may hold and
\* consuming keep every queue within its bounds.
Within(q, A) == q = [n \in Node |-> q[n]] /\ \A n \in Node : q[n] \in Seq(A[n])

LEMMA DeliverWithin ==
  ASSUME NEW A, NEW q, Within(q, A), NEW live, NEW b, NEW d \in Node, NEW m \in A[d]
  PROVE  Within(Deliver(q, live, b, d, m), A)
<1>1. CASE d \in live /\ Len(q[d]) < b
  <2>1. Deliver(q, live, b, d, m) = [q EXCEPT ![d] = Append(q[d], m)]
    BY <1>1 DEF Deliver
  <2>2. Append(q[d], m) \in Seq(A[d])
    BY SeqElements DEF Within
  <2>3. PICK z : z = Append(q[d], m)
    OBVIOUS
  <2> QED
    BY <2>1, <2>2, <2>3 DEF Within
<1>2. CASE ~ (d \in live /\ Len(q[d]) < b)
  BY <1>2 DEF Deliver
<1> QED
  BY <1>1, <1>2

LEMMA ConsumeWithin ==
  ASSUME NEW A, NEW q, Within(q, A), NEW d \in Node, q[d] # << >>
  PROVE  Head(q[d]) \in A[d] /\ Within(Consume(q, d), A)
<1>1. Head(q[d]) \in A[d] /\ Tail(q[d]) \in Seq(A[d])
  BY SeqElements DEF Within
<1>2. PICK z : z = Tail(q[d])
  OBVIOUS
<1>3. Consume(q, d) = [q EXCEPT ![d] = z]
  BY <1>2 DEF Consume
<1> QED
  BY <1>1, <1>2, <1>3 DEF Within

-----------------------------------------------------------------------------
(* Where pings are.  The numbers of the packets in a place, and that none is *)
(* there twice.                                                            *)

Ids(f)  == {f[i].id : i \in DOMAIN f}
Once(f) == \A i, j \in DOMAIN f : f[i].id = f[j].id => i = j

Unique(L) ==
  /\ \A x \in Places : Once(L[x])
  /\ \A x, y \in Places : x # y => Ids(L[x]) \cap Ids(L[y]) = {}
Absent(n, L) == \A x \in Places : n \notin Ids(L[x])

LEMMA UniqueIsOnePlace ==
  ASSUME NEW L, Unique(L), NEW n
  PROVE  OnePlace(n, L)
BY DEF Unique, Once, Ids, OnePlace

\* Places that hold no more than before, each packet number once.
LEMMA FewerPings ==
  ASSUME NEW L, NEW M, Unique(L),
         \A x \in Places : Once(M[x]) /\ Ids(M[x]) \subseteq Ids(L[x])
  PROVE  /\ Unique(M)
         /\ \A n : Absent(n, L) => Absent(n, M)
         /\ \A n : (\E x \in Places : n \in Ids(L[x]) /\ n \notin Ids(M[x])) => Absent(n, M)
BY DEF Unique, Absent

\* One place has a ping more, which was nowhere.
LEMMA OnePingMore ==
  ASSUME NEW L, NEW M, Unique(L), NEW n, Absent(n, L), NEW b \in Places,
         \A x \in Places : x # b => M[x] = L[x],
         Once(M[b]), Ids(M[b]) \subseteq Ids(L[b]) \cup {n}
  PROVE  Unique(M)
<1>1. \A x \in Places : Once(M[x])
  BY DEF Unique
<1>2. \A x \in Places : x # b => Ids(M[x]) \cap Ids(M[b]) = {}
  BY DEF Unique, Absent
<1> QED
  BY <1>1, <1>2 DEF Unique

\* A queue that is read and one that is added to.
LEMMA QueueRead ==
  ASSUME NEW S, NEW q \in Seq(S), q # << >>, Once(q)
  PROVE  /\ Once(Tail(q)) /\ Head(q).id \in Ids(q)
         /\ Ids(Tail(q)) \subseteq Ids(q) /\ Head(q).id \notin Ids(Tail(q))
<1>1. /\ Head(q) = q[1] /\ 1 \in DOMAIN q
      /\ \A k \in DOMAIN Tail(q) : /\ Tail(q)[k] = q[k + 1] /\ k + 1 \in DOMAIN q
                                   /\ k \in Int /\ k + 1 # 1
  OBVIOUS
<1>2. \A k, l \in DOMAIN Tail(q) : k + 1 = l + 1 => k = l
  BY <1>1
<1>3. Once(Tail(q))
  BY <1>1, <1>2 DEF Once
<1>4. Ids(Tail(q)) \subseteq Ids(q) /\ Head(q).id \in Ids(q)
  BY <1>1 DEF Ids
<1>5. Head(q).id \notin Ids(Tail(q))
  BY <1>1 DEF Ids, Once
<1> QED
  BY <1>3, <1>4, <1>5

LEMMA QueueAdded ==
  ASSUME NEW S, NEW q \in Seq(S), NEW p \in S, Once(q), p.id \notin Ids(q)
  PROVE  Once(Append(q, p)) /\ Ids(Append(q, p)) \subseteq Ids(q) \cup {p.id}
<1>1. PICK a : a = Append(q, p)
  OBVIOUS
<1>2. PICK l \in DOMAIN a : /\ a[l] = p
                            /\ \A k \in DOMAIN a : k # l => k \in DOMAIN q /\ a[k] = q[k]
  <2>1. /\ Len(q) + 1 \in DOMAIN Append(q, p) /\ Append(q, p)[Len(q) + 1] = p
        /\ \A k \in DOMAIN Append(q, p) :
             k # Len(q) + 1 => k \in DOMAIN q /\ Append(q, p)[k] = q[k]
    OBVIOUS
  <2> QED
    BY <1>1, <2>1
<1>3. Once(a)
  BY <1>2 DEF Once, Ids
<1>4. Ids(a) \subseteq Ids(q) \cup {p.id}
  BY <1>2 DEF Ids
<1> QED
  BY <1>1, <1>3, <1>4

\* The places by name.
TunAt       == <<"tun", Proxy>>
DeliveredAt == <<"delivered", Proxy>>
WorldAt     == <<"world", Proxy>>
Each(w)     == [q \in w |-> q]
InboxAt(n)  == <<"inbox", n>>
RawAt(r)    == <<"raw", r>>

LEMMA PlaceNames ==
  /\ TunAt \in Places /\ DeliveredAt \in Places /\ WorldAt \in Places
  /\ \A n \in Node : InboxAt(n) \in Places
  /\ \A r \in Router : RawAt(r) \in Places
  /\ \A x \in Places : \/ x = TunAt \/ x = DeliveredAt \/ x = WorldAt
                       \/ \E n \in Node : x = InboxAt(n)
                       \/ \E r \in Router : x = RawAt(r)
BY DEF Places, TunAt, DeliveredAt, WorldAt, InboxAt, RawAt

LEMMA PlacesDiffer ==
  /\ TunAt # DeliveredAt /\ TunAt # WorldAt /\ DeliveredAt # WorldAt
  /\ \A n : InboxAt(n) # TunAt /\ InboxAt(n) # DeliveredAt /\ InboxAt(n) # WorldAt
  /\ \A n : RawAt(n) # TunAt /\ RawAt(n) # DeliveredAt /\ RawAt(n) # WorldAt
  /\ \A n, r : InboxAt(n) # RawAt(r)
  /\ \A n, r : InboxAt(n) = InboxAt(r) => n = r
  /\ \A n, r : RawAt(n) = RawAt(r) => n = r
BY DEF TunAt, DeliveredAt, WorldAt, InboxAt, RawAt

Shows(L, t, d, i, a, w) ==
  /\ L[TunAt] = t /\ L[DeliveredAt] = d /\ L[WorldAt] = Each(w)
  /\ \A n \in Node : L[InboxAt(n)] = i[n]
  /\ \A r \in Router : L[RawAt(r)] = a[r]

LEMMA WhatIsWhere ==
  ASSUME NEW t, NEW d, NEW i, NEW a, NEW w
  PROVE  Shows(PingsIn(t, d, i, a, w), t, d, i, a, w)
<1>1. PICK L : L = PingsIn(t, d, i, a, w)
  OBVIOUS
<1>2. /\ \A x \in Places : x[1] = "tun" => L[x] = t
      /\ \A x \in Places : x[1] = "delivered" => L[x] = d
      /\ \A x \in Places : x[1] = "inbox" => L[x] = i[x[2]]
      /\ \A x \in Places : x[1] = "raw" => L[x] = a[x[2]]
      /\ \A x \in Places : x[1] = "world" => L[x] = Each(w)
  BY <1>1 DEF PingsIn, Each
<1>3. /\ TunAt[1] = "tun" /\ DeliveredAt[1] = "delivered" /\ WorldAt[1] = "world"
      /\ \A n : InboxAt(n)[1] = "inbox" /\ InboxAt(n)[2] = n
      /\ \A n : RawAt(n)[1] = "raw" /\ RawAt(n)[2] = n
  BY DEF TunAt, DeliveredAt, WorldAt, InboxAt, RawAt
<1>4. Shows(L, t, d, i, a, w)
  BY <1>2, <1>3, PlaceNames DEF Shows
<1> QED
  BY <1>1, <1>4

\* Places that show the same but for one.
LEMMA Elsewhere ==
  ASSUME NEW L, NEW t, NEW d, NEW i, NEW a, NEW w, Shows(L, t, d, i, a, w),
         NEW M, NEW u, NEW e, NEW j, NEW c, NEW v, Shows(M, u, e, j, c, v), NEW b,
         b # TunAt => u = t, b # DeliveredAt => e = d, b # WorldAt => v = w,
         \A n \in Node : b # InboxAt(n) => j[n] = i[n],
         \A r \in Router : b # RawAt(r) => c[r] = a[r],
         NEW x \in Places, x # b
  PROVE  M[x] = L[x]
<1>1. CASE x = TunAt \/ x = DeliveredAt \/ x = WorldAt
  BY <1>1 DEF Shows
<1>2. ASSUME NEW n \in Node, x = InboxAt(n)
      PROVE  M[x] = L[x]
  BY <1>2 DEF Shows
<1>3. ASSUME NEW r \in Router, x = RawAt(r)
      PROVE  M[x] = L[x]
  BY <1>3 DEF Shows
<1> QED
  BY <1>1, <1>2, <1>3, PlaceNames

\* Packets of S, none twice.
Tracked(S, t, d, i, a, w) ==
  /\ t \in Seq(S) /\ d \in Seq(S) /\ w \subseteq S
  /\ i \in [Node -> Seq(S)] /\ a \in [Router -> Seq(S)]
  /\ Unique(PingsIn(t, d, i, a, w))

\* One place changes: a queue is read, added to or cleared.
LEMMA PlaceRead ==
  ASSUME NEW L, NEW M, Unique(L), NEW b \in Places, \A x \in Places : x # b => M[x] = L[x],
         NEW S, L[b] \in Seq(S), L[b] # << >>, M[b] = Tail(L[b])
  PROVE  Unique(M) /\ Absent(Head(L[b]).id, M)
<1>1. \A x \in Places : Once(L[x])
  BY DEF Unique
<1>2. /\ Once(M[b]) /\ Head(L[b]).id \in Ids(L[b])
      /\ Ids(M[b]) \subseteq Ids(L[b]) /\ Head(L[b]).id \notin Ids(M[b])
  BY <1>1, QueueRead
<1>3. \A x \in Places : Once(M[x]) /\ Ids(M[x]) \subseteq Ids(L[x])
  BY <1>1, <1>2
<1> QED
  BY <1>2, <1>3, FewerPings

LEMMA PlaceAdded ==
  ASSUME NEW L, NEW M, Unique(L), NEW b \in Places, \A x \in Places : x # b => M[x] = L[x],
         NEW S, L[b] \in Seq(S), NEW p \in S, M[b] = Append(L[b], p), Absent(p.id, L)
  PROVE  Unique(M)
<1>1. Once(M[b]) /\ Ids(M[b]) \subseteq Ids(L[b]) \cup {p.id}
  BY QueueAdded DEF Unique, Absent
<1> QED
  BY <1>1, OnePingMore

LEMMA PlacesCleared ==
  ASSUME NEW L, NEW M, Unique(L), \A x \in Places : M[x] = L[x] \/ M[x] = << >>
  PROVE  Unique(M)
<1>1. Once(<< >>) /\ Ids(<< >>) = {}
  BY DEF Once, Ids
<1>2. \A x \in Places : Once(M[x]) /\ Ids(M[x]) \subseteq Ids(L[x])
  BY <1>1 DEF Unique
<1> QED
  BY <1>2, FewerPings

\* The same for each of the places of the tracked packets.
LEMMA TakeTun ==
  ASSUME NEW S, NEW t, NEW d, NEW i, NEW a, NEW w, Tracked(S, t, d, i, a, w),
         t # << >>
  PROVE  /\ Head(t) \in S
         /\ Tracked(S, Tail(t), d, i, a, w)
         /\ Absent(Head(t).id, PingsIn(Tail(t), d, i, a, w))
<1>1. PICK u : u = Tail(t)
  OBVIOUS
<1>2. PICK L : L = PingsIn(t, d, i, a, w)
  OBVIOUS
<1>3. PICK M : M = PingsIn(u, d, i, a, w)
  OBVIOUS
<1>4. Unique(L) /\ t \in Seq(S)
  BY <1>2 DEF Tracked
<1>5. Head(t) \in S /\ Tail(t) \in Seq(S)
  BY <1>4, SeqElements
<1>6. u = Tail(t) /\ u \in Seq(S)
  BY <1>1, <1>5
<1>7. Shows(L, t, d, i, a, w)
  BY <1>2, WhatIsWhere
<1>8. Shows(M, u, d, i, a, w)
  BY <1>3, WhatIsWhere
<1>9. \A x \in Places : x # TunAt => M[x] = L[x]
  BY <1>7, <1>8, Elsewhere, PlacesDiffer
<1>10. Unique(M) /\ Absent(Head(t).id, M)
  <2>1. /\ TunAt \in Places /\ M[TunAt] = Tail(L[TunAt])
      /\ L[TunAt] = t
    BY <1>6, <1>7, <1>8, PlaceNames DEF Shows
  <2> QED
    BY <1>4, <1>9, <2>1, PlaceRead
<1>11. Tracked(S, u, d, i, a, w) /\ Absent(Head(t).id, PingsIn(u, d, i, a, w))
  BY <1>3, <1>6, <1>10 DEF Tracked
<1> QED
  BY <1>1, <1>5, <1>11

LEMMA PutTun ==
  ASSUME NEW S, NEW t, NEW d, NEW i, NEW a, NEW w, Tracked(S, t, d, i, a, w),
         NEW p \in S, Absent(p.id, PingsIn(t, d, i, a, w))
  PROVE  Tracked(S, Append(t, p), d, i, a, w)
<1>1. PICK u : u = Append(t, p)
  OBVIOUS
<1>2. PICK L : L = PingsIn(t, d, i, a, w)
  OBVIOUS
<1>3. PICK M : M = PingsIn(u, d, i, a, w)
  OBVIOUS
<1>4. Unique(L) /\ t \in Seq(S)
  BY <1>2 DEF Tracked
<1>5. Append(t, p) \in Seq(S)
  BY <1>4, SeqElements
<1>6. u = Append(t, p) /\ u \in Seq(S)
  BY <1>1, <1>5
<1>7. Shows(L, t, d, i, a, w)
  BY <1>2, WhatIsWhere
<1>8. Shows(M, u, d, i, a, w)
  BY <1>3, WhatIsWhere
<1>9. \A x \in Places : x # TunAt => M[x] = L[x]
  BY <1>7, <1>8, Elsewhere, PlacesDiffer
<1>10. Unique(M)
  <2>1. /\ TunAt \in Places /\ M[TunAt] = Append(L[TunAt], p)
      /\ L[TunAt] = t
    BY <1>6, <1>7, <1>8, PlaceNames DEF Shows
  <2> QED
    BY <1>2, <1>4, <1>9, <2>1, PlaceAdded
<1>11. Tracked(S, u, d, i, a, w)
  BY <1>3, <1>6, <1>10 DEF Tracked
<1> QED
  BY <1>1, <1>11

LEMMA PutDelivered ==
  ASSUME NEW S, NEW t, NEW d, NEW i, NEW a, NEW w, Tracked(S, t, d, i, a, w),
         NEW p \in S, Absent(p.id, PingsIn(t, d, i, a, w))
  PROVE  Tracked(S, t, Append(d, p), i, a, w)
<1>1. PICK e : e = Append(d, p)
  OBVIOUS
<1>2. PICK L : L = PingsIn(t, d, i, a, w)
  OBVIOUS
<1>3. PICK M : M = PingsIn(t, e, i, a, w)
  OBVIOUS
<1>4. Unique(L) /\ d \in Seq(S)
  BY <1>2 DEF Tracked
<1>5. Append(d, p) \in Seq(S)
  BY <1>4, SeqElements
<1>6. e = Append(d, p) /\ e \in Seq(S)
  BY <1>1, <1>5
<1>7. Shows(L, t, d, i, a, w)
  BY <1>2, WhatIsWhere
<1>8. Shows(M, t, e, i, a, w)
  BY <1>3, WhatIsWhere
<1>9. \A x \in Places : x # DeliveredAt => M[x] = L[x]
  BY <1>7, <1>8, Elsewhere, PlacesDiffer
<1>10. Unique(M)
  <2>1. /\ DeliveredAt \in Places /\ M[DeliveredAt] = Append(L[DeliveredAt], p)
      /\ L[DeliveredAt] = d
    BY <1>6, <1>7, <1>8, PlaceNames DEF Shows
  <2> QED
    BY <1>2, <1>4, <1>9, <2>1, PlaceAdded
<1>11. Tracked(S, t, e, i, a, w)
  BY <1>3, <1>6, <1>10 DEF Tracked
<1> QED
  BY <1>1, <1>11

LEMMA TakeInbox ==
  ASSUME NEW S, NEW t, NEW d, NEW i, NEW a, NEW w, Tracked(S, t, d, i, a, w),
         NEW n \in Node, i[n] # << >>
  PROVE  /\ Head(i[n]) \in S
         /\ Tracked(S, t, d, [i EXCEPT ![n] = Tail(@)], a, w)
         /\ Absent(Head(i[n]).id, PingsIn(t, d, [i EXCEPT ![n] = Tail(@)], a, w))
<1>1. PICK j : j = [i EXCEPT ![n] = Tail(@)]
  OBVIOUS
<1>2. PICK L : L = PingsIn(t, d, i, a, w)
  OBVIOUS
<1>3. PICK M : M = PingsIn(t, d, j, a, w)
  OBVIOUS
<1>4. Unique(L) /\ i[n] \in Seq(S) /\ i \in [Node -> Seq(S)]
  BY <1>2 DEF Tracked
<1>5. Head(i[n]) \in S /\ Tail(i[n]) \in Seq(S)
  BY <1>4, SeqElements
<1>6. /\ j[n] = Tail(i[n]) /\ j \in [Node -> Seq(S)]
      /\ \A o \in Node : o # n => j[o] = i[o]
  BY <1>1, <1>4, <1>5
<1>7. Shows(L, t, d, i, a, w)
  BY <1>2, WhatIsWhere
<1>8. Shows(M, t, d, j, a, w)
  BY <1>3, WhatIsWhere
<1>9. \A x \in Places : x # InboxAt(n) => M[x] = L[x]
  <2>1. \A o \in Node : InboxAt(n) # InboxAt(o) => j[o] = i[o]
    BY <1>6
  <2>2. InboxAt(n) # TunAt /\ InboxAt(n) # DeliveredAt /\ InboxAt(n) # WorldAt
    BY PlacesDiffer
  <2> QED
    BY <1>7, <1>8, <2>1, <2>2, Elsewhere
<1>10. Unique(M) /\ Absent(Head(i[n]).id, M)
  <2>1. /\ InboxAt(n) \in Places /\ M[InboxAt(n)] = Tail(L[InboxAt(n)])
      /\ L[InboxAt(n)] = i[n]
    BY <1>6, <1>7, <1>8, PlaceNames DEF Shows
  <2> QED
    BY <1>4, <1>9, <2>1, PlaceRead
<1>11. Tracked(S, t, d, j, a, w) /\ Absent(Head(i[n]).id, PingsIn(t, d, j, a, w))
  BY <1>3, <1>6, <1>10 DEF Tracked
<1> QED
  BY <1>1, <1>5, <1>11

LEMMA PutInbox ==
  ASSUME NEW S, NEW t, NEW d, NEW i, NEW a, NEW w, Tracked(S, t, d, i, a, w),
         NEW n \in Node, NEW p \in S, Absent(p.id, PingsIn(t, d, i, a, w))
  PROVE  Tracked(S, t, d, [i EXCEPT ![n] = Append(@, p)], a, w)
<1>1. PICK j : j = [i EXCEPT ![n] = Append(@, p)]
  OBVIOUS
<1>2. PICK L : L = PingsIn(t, d, i, a, w)
  OBVIOUS
<1>3. PICK M : M = PingsIn(t, d, j, a, w)
  OBVIOUS
<1>4. Unique(L) /\ i[n] \in Seq(S) /\ i \in [Node -> Seq(S)]
  BY <1>2 DEF Tracked
<1>5. Append(i[n], p) \in Seq(S)
  BY <1>4, SeqElements
<1>6. /\ j[n] = Append(i[n], p) /\ j \in [Node -> Seq(S)]
      /\ \A o \in Node : o # n => j[o] = i[o]
  BY <1>1, <1>4, <1>5
<1>7. Shows(L, t, d, i, a, w)
  BY <1>2, WhatIsWhere
<1>8. Shows(M, t, d, j, a, w)
  BY <1>3, WhatIsWhere
<1>9. \A x \in Places : x # InboxAt(n) => M[x] = L[x]
  <2>1. \A o \in Node : InboxAt(n) # InboxAt(o) => j[o] = i[o]
    BY <1>6
  <2>2. InboxAt(n) # TunAt /\ InboxAt(n) # DeliveredAt /\ InboxAt(n) # WorldAt
    BY PlacesDiffer
  <2> QED
    BY <1>7, <1>8, <2>1, <2>2, Elsewhere
<1>10. Unique(M)
  <2>1. /\ InboxAt(n) \in Places /\ M[InboxAt(n)] = Append(L[InboxAt(n)], p)
      /\ L[InboxAt(n)] = i[n]
    BY <1>6, <1>7, <1>8, PlaceNames DEF Shows
  <2> QED
    BY <1>2, <1>4, <1>9, <2>1, PlaceAdded
<1>11. Tracked(S, t, d, j, a, w)
  BY <1>3, <1>6, <1>10 DEF Tracked
<1> QED
  BY <1>1, <1>11

LEMMA TakeRaw ==
  ASSUME NEW S, NEW t, NEW d, NEW i, NEW a, NEW w, Tracked(S, t, d, i, a, w),
         NEW n \in Router, a[n] # << >>
  PROVE  /\ Head(a[n]) \in S
         /\ Tracked(S, t, d, i, [a EXCEPT ![n] = Tail(@)], w)
         /\ Absent(Head(a[n]).id, PingsIn(t, d, i, [a EXCEPT ![n] = Tail(@)], w))
<1>1. PICK c : c = [a EXCEPT ![n] = Tail(@)]
  OBVIOUS
<1>2. PICK L : L = PingsIn(t, d, i, a, w)
  OBVIOUS
<1>3. PICK M : M = PingsIn(t, d, i, c, w)
  OBVIOUS
<1>4. Unique(L) /\ a[n] \in Seq(S) /\ a \in [Router -> Seq(S)]
  BY <1>2 DEF Tracked
<1>5. Head(a[n]) \in S /\ Tail(a[n]) \in Seq(S)
  BY <1>4, SeqElements
<1>6. /\ c[n] = Tail(a[n]) /\ c \in [Router -> Seq(S)]
      /\ \A o \in Router : o # n => c[o] = a[o]
  BY <1>1, <1>4, <1>5
<1>7. Shows(L, t, d, i, a, w)
  BY <1>2, WhatIsWhere
<1>8. Shows(M, t, d, i, c, w)
  BY <1>3, WhatIsWhere
<1>9. \A x \in Places : x # RawAt(n) => M[x] = L[x]
  <2>1. \A o \in Router : RawAt(n) # RawAt(o) => c[o] = a[o]
    BY <1>6
  <2>2. RawAt(n) # TunAt /\ RawAt(n) # DeliveredAt /\ RawAt(n) # WorldAt
    BY PlacesDiffer
  <2> QED
    BY <1>7, <1>8, <2>1, <2>2, Elsewhere
<1>10. Unique(M) /\ Absent(Head(a[n]).id, M)
  <2>1. /\ RawAt(n) \in Places /\ M[RawAt(n)] = Tail(L[RawAt(n)])
      /\ L[RawAt(n)] = a[n]
    BY <1>6, <1>7, <1>8, PlaceNames DEF Shows
  <2> QED
    BY <1>4, <1>9, <2>1, PlaceRead
<1>11. Tracked(S, t, d, i, c, w) /\ Absent(Head(a[n]).id, PingsIn(t, d, i, c, w))
  BY <1>3, <1>6, <1>10 DEF Tracked
<1> QED
  BY <1>1, <1>5, <1>11

LEMMA PutRaw ==
  ASSUME NEW S, NEW t, NEW d, NEW i, NEW a, NEW w, Tracked(S, t, d, i, a, w),
         NEW n \in Router, NEW p \in S, Absent(p.id, PingsIn(t, d, i, a, w))
  PROVE  Tracked(S, t, d, i, [a EXCEPT ![n] = Append(@, p)], w)
<1>1. PICK c : c = [a EXCEPT ![n] = Append(@, p)]
  OBVIOUS
<1>2. PICK L : L = PingsIn(t, d, i, a, w)
  OBVIOUS
<1>3. PICK M : M = PingsIn(t, d, i, c, w)
  OBVIOUS
<1>4. Unique(L) /\ a[n] \in Seq(S) /\ a \in [Router -> Seq(S)]
  BY <1>2 DEF Tracked
<1>5. Append(a[n], p) \in Seq(S)
  BY <1>4, SeqElements
<1>6. /\ c[n] = Append(a[n], p) /\ c \in [Router -> Seq(S)]
      /\ \A o \in Router : o # n => c[o] = a[o]
  BY <1>1, <1>4, <1>5
<1>7. Shows(L, t, d, i, a, w)
  BY <1>2, WhatIsWhere
<1>8. Shows(M, t, d, i, c, w)
  BY <1>3, WhatIsWhere
<1>9. \A x \in Places : x # RawAt(n) => M[x] = L[x]
  <2>1. \A o \in Router : RawAt(n) # RawAt(o) => c[o] = a[o]
    BY <1>6
  <2>2. RawAt(n) # TunAt /\ RawAt(n) # DeliveredAt /\ RawAt(n) # WorldAt
    BY PlacesDiffer
  <2> QED
    BY <1>7, <1>8, <2>1, <2>2, Elsewhere
<1>10. Unique(M)
  <2>1. /\ RawAt(n) \in Places /\ M[RawAt(n)] = Append(L[RawAt(n)], p)
      /\ L[RawAt(n)] = a[n]
    BY <1>6, <1>7, <1>8, PlaceNames DEF Shows
  <2> QED
    BY <1>2, <1>4, <1>9, <2>1, PlaceAdded
<1>11. Tracked(S, t, d, i, c, w)
  BY <1>3, <1>6, <1>10 DEF Tracked
<1> QED
  BY <1>1, <1>11

LEMMA TakeWorld ==
  ASSUME NEW S, NEW t, NEW d, NEW i, NEW a, NEW w, Tracked(S, t, d, i, a, w), NEW q \in w
  PROVE  /\ q \in S /\ Tracked(S, t, d, i, a, w \ {q})
         /\ Absent(q.id, PingsIn(t, d, i, a, w \ {q}))
<1>1. PICK v : v = w \ {q}
  OBVIOUS
<1>2. PICK L : L = PingsIn(t, d, i, a, w)
  OBVIOUS
<1>3. PICK M : M = PingsIn(t, d, i, a, v)
  OBVIOUS
<1>4. Unique(L) /\ w \subseteq S /\ v \subseteq S /\ q \in S
  BY <1>1, <1>2 DEF Tracked
<1>5. Shows(L, t, d, i, a, w)
  BY <1>2, WhatIsWhere
<1>6. Shows(M, t, d, i, a, v)
  BY <1>3, WhatIsWhere
<1>7. \A x \in Places : x # WorldAt => M[x] = L[x]
  BY <1>5, <1>6, Elsewhere
<1>8. WorldAt \in Places /\ L[WorldAt] = Each(w) /\ M[WorldAt] = Each(v)
  BY <1>5, <1>6, PlaceNames DEF Shows
<1>9. \A x \in Places : Once(L[x])
  BY <1>4 DEF Unique
<1>10. /\ Once(Each(v)) /\ Ids(Each(v)) \subseteq Ids(Each(w))
       /\ q.id \in Ids(Each(w)) /\ q.id \notin Ids(Each(v))
  <2>1. Once(Each(w))
    BY <1>8, <1>9
  <2> QED
    BY <1>1, <2>1 DEF Once, Ids, Each
<1>11. \A x \in Places : Once(M[x]) /\ Ids(M[x]) \subseteq Ids(L[x])
  BY <1>7, <1>8, <1>9, <1>10
<1>12. Unique(M) /\ Absent(q.id, M)
  BY <1>4, <1>8, <1>10, <1>11, FewerPings
<1>13. Tracked(S, t, d, i, a, v) /\ Absent(q.id, PingsIn(t, d, i, a, v))
  BY <1>3, <1>4, <1>12 DEF Tracked
<1> QED
  BY <1>1, <1>4, <1>13

LEMMA PutWorld ==
  ASSUME NEW S, NEW t, NEW d, NEW i, NEW a, NEW w, Tracked(S, t, d, i, a, w), NEW p \in S,
         Absent(p.id, PingsIn(t, d, i, a, w))
  PROVE  Tracked(S, t, d, i, a, w \cup {p})
<1>1. PICK v : v = w \cup {p}
  OBVIOUS
<1>2. PICK L : L = PingsIn(t, d, i, a, w)
  OBVIOUS
<1>3. PICK M : M = PingsIn(t, d, i, a, v)
  OBVIOUS
<1>4. Unique(L) /\ w \subseteq S /\ v \subseteq S
  BY <1>1, <1>2 DEF Tracked
<1>5. Shows(L, t, d, i, a, w)
  BY <1>2, WhatIsWhere
<1>6. Shows(M, t, d, i, a, v)
  BY <1>3, WhatIsWhere
<1>7. \A x \in Places : x # WorldAt => M[x] = L[x]
  BY <1>5, <1>6, Elsewhere
<1>8. WorldAt \in Places /\ L[WorldAt] = Each(w) /\ M[WorldAt] = Each(v)
  BY <1>5, <1>6, PlaceNames DEF Shows
<1>9. Once(Each(v)) /\ Ids(Each(v)) \subseteq Ids(Each(w)) \cup {p.id}
  <2>1. Once(Each(w)) /\ p.id \notin Ids(Each(w))
    BY <1>2, <1>4, <1>8 DEF Unique, Absent
  <2>2. \A x \in v : x \in w \/ x = p
    BY <1>1
  <2>3. \A x, y \in w : x.id = y.id => x = y
    BY <2>1 DEF Once, Each
  <2>4. \A x \in w : x.id # p.id
    BY <2>1 DEF Ids, Each
  <2>5. \A x, y \in v : x.id = y.id => x = y
    BY <2>2, <2>3, <2>4
  <2> QED
    BY <2>2, <2>5 DEF Once, Ids, Each
<1>10. Unique(M)
  BY <1>2, <1>4, <1>7, <1>8, <1>9, OnePingMore
<1>11. Tracked(S, t, d, i, a, v)
  BY <1>3, <1>4, <1>10 DEF Tracked
<1> QED
  BY <1>1, <1>11

\* The queues of a router that ends.
LEMMA QueuesCleared ==
  ASSUME NEW S, NEW t, NEW d, NEW i, NEW a, NEW w, Tracked(S, t, d, i, a, w),
         NEW r \in Router
  PROVE  Tracked(S, t, d, [i EXCEPT ![r] = << >>], [a EXCEPT ![r] = << >>], w)
<1>1. PICK j : j = [i EXCEPT ![r] = << >>]
  OBVIOUS
<1>2. PICK c : c = [a EXCEPT ![r] = << >>]
  OBVIOUS
<1>3. PICK L : L = PingsIn(t, d, i, a, w)
  OBVIOUS
<1>4. PICK M : M = PingsIn(t, d, j, c, w)
  OBVIOUS
<1>5. Unique(L) /\ i \in [Node -> Seq(S)] /\ a \in [Router -> Seq(S)] /\ << >> \in Seq(S)
  BY <1>3 DEF Tracked
<1>6. /\ j \in [Node -> Seq(S)] /\ \A n \in Node : j[n] = i[n] \/ j[n] = << >>
      /\ c \in [Router -> Seq(S)] /\ \A n \in Router : c[n] = a[n] \/ c[n] = << >>
  BY <1>1, <1>2, <1>5
<1>7. Shows(L, t, d, i, a, w)
  BY <1>3, WhatIsWhere
<1>8. Shows(M, t, d, j, c, w)
  BY <1>4, WhatIsWhere
<1>9. ASSUME NEW x \in Places
      PROVE  M[x] = L[x] \/ M[x] = << >>
  <2>1. CASE x = TunAt \/ x = DeliveredAt \/ x = WorldAt
    BY <1>7, <1>8, <2>1 DEF Shows
  <2>2. ASSUME NEW n \in Node, x = InboxAt(n)
        PROVE  M[x] = L[x] \/ M[x] = << >>
    BY <1>6, <1>7, <1>8, <2>2 DEF Shows
  <2>3. ASSUME NEW n \in Router, x = RawAt(n)
        PROVE  M[x] = L[x] \/ M[x] = << >>
    BY <1>6, <1>7, <1>8, <2>3 DEF Shows
  <2> QED
    BY <2>1, <2>2, <2>3, PlaceNames
<1>10. Unique(M)
  BY <1>5, <1>9, PlacesCleared
<1>11. Tracked(S, t, d, j, c, w)
  BY <1>4, <1>5, <1>6, <1>10 DEF Tracked
<1> QED
  BY <1>1, <1>2, <1>11

\* Tracking of more packets, of a number no place has, and from the start.
LEMMA TrackedWidened ==
  ASSUME NEW S, NEW T, S \subseteq T, NEW t, NEW d, NEW i, NEW a, NEW w,
         Tracked(S, t, d, i, a, w)
  PROVE  Tracked(T, t, d, i, a, w)
BY SeqWidened DEF Tracked

LEMMA FreshNumber ==
  ASSUME NEW S, NEW t, NEW d, NEW i, NEW a, NEW w, Tracked(S, t, d, i, a, w),
         NEW n, \A p \in S : p.id # n
  PROVE  Absent(n, PingsIn(t, d, i, a, w))
<1>1. PICK L : L = PingsIn(t, d, i, a, w)
  OBVIOUS
<1>2. Shows(L, t, d, i, a, w)
  BY <1>1, WhatIsWhere
<1>3. \A q \in Seq(S) : n \notin Ids(q)
  BY SeqElements DEF Ids
<1>4. n \notin Ids(Each(w))
  BY DEF Tracked, Ids, Each
<1>5. /\ t \in Seq(S) /\ d \in Seq(S)
      /\ \A o \in Node : i[o] \in Seq(S)
      /\ \A r \in Router : a[r] \in Seq(S)
  BY DEF Tracked
<1>6. ASSUME NEW x \in Places
      PROVE  n \notin Ids(L[x])
  <2>1. CASE x = TunAt \/ x = DeliveredAt \/ x = WorldAt
    BY <1>2, <1>3, <1>4, <1>5, <2>1 DEF Shows
  <2>2. ASSUME NEW o \in Node, x = InboxAt(o)
        PROVE  n \notin Ids(L[x])
    BY <1>2, <1>3, <1>5, <2>2 DEF Shows
  <2>3. ASSUME NEW r \in Router, x = RawAt(r)
        PROVE  n \notin Ids(L[x])
    BY <1>2, <1>3, <1>5, <2>3 DEF Shows
  <2> QED
    BY <2>1, <2>2, <2>3, PlaceNames
<1> QED
  BY <1>1, <1>6 DEF Absent

LEMMA NothingTracked ==
  ASSUME NEW S
  PROVE  Tracked(S, << >>, << >>, [n \in Node |-> << >>], [r \in Router |-> << >>], {})
<1>1. PICK i : i = [n \in Node |-> << >>]
  OBVIOUS
<1>2. PICK a : a = [r \in Router |-> << >>]
  OBVIOUS
<1>3. PICK o : o = << >>
  OBVIOUS
<1>4. PICK L : L = PingsIn(o, o, i, a, {})
  OBVIOUS
<1>5. Shows(L, o, o, i, a, {})
  BY <1>4, WhatIsWhere
<1>6. DOMAIN o = {} /\ DOMAIN Each({}) = {} /\ o \in Seq(S)
  BY <1>3 DEF Each
<1>7. i \in [Node -> Seq(S)] /\ a \in [Router -> Seq(S)]
  BY <1>1, <1>2
<1>8. /\ \A n \in Node : i[n] = o
      /\ \A r \in Router : a[r] = o
  BY <1>1, <1>2, <1>3
<1>9. \A x \in Places : DOMAIN L[x] = {}
  BY <1>5, <1>6, <1>8, PlaceNames DEF Shows
<1>10. Unique(L)
  BY <1>9 DEF Unique, Once, Ids
<1>11. Tracked(S, o, o, i, a, {})
  BY <1>4, <1>6, <1>7, <1>10 DEF Tracked
<1> QED
  BY <1>1, <1>2, <1>3, <1>11

\* Queues of datagrams that carry packets.
LEMMA PktsSeq ==
  ASSUME NEW M, NEW q \in Seq(M)
  PROVE  /\ Len(Pkts(q)) = Len(q) /\ DOMAIN Pkts(q) = 1 .. Len(q)
         /\ \A S : (\A m \in M : m.pkt \in S) => Pkts(q) \in Seq(S)
<1>1. Len(q) \in Nat /\ DOMAIN q = 1 .. Len(q)
  OBVIOUS
<1>2. DOMAIN Pkts(q) = 1 .. Len(q)
  BY <1>1 DEF Pkts
<1> QED
  BY <1>1, <1>2 DEF Pkts

LEMMA PktsRead ==
  ASSUME NEW M, NEW q \in Seq(M), q # << >>
  PROVE  /\ Pkts(q) # << >> /\ Head(Pkts(q)) = Head(q).pkt
         /\ Pkts(Tail(q)) = Tail(Pkts(q))
<1>1. PICK z : z = Tail(q)
  OBVIOUS
<1>2. /\ z \in Seq(M) /\ Len(z) = Len(q) - 1 /\ Len(q) \in Nat \ {0} /\ q[1] = Head(q)
      /\ \A k \in 1 .. Len(z) : z[k] = q[k + 1] /\ k + 1 \in 1 .. Len(q)
      /\ DOMAIN q = 1 .. Len(q)
  BY <1>1
<1>3. /\ Len(Pkts(q)) = Len(q) /\ DOMAIN Pkts(q) = 1 .. Len(q)
      /\ Len(Pkts(z)) = Len(z) /\ DOMAIN Pkts(z) = 1 .. Len(z)
  BY <1>2, PktsSeq
<1>4. PICK S : S = {m.pkt : m \in M}
  OBVIOUS
<1>5. Pkts(q) \in Seq(S) /\ Pkts(z) \in Seq(S)
  BY <1>2, <1>4, PktsSeq
<1>6. /\ \A k \in 1 .. Len(q) : Pkts(q)[k] = q[k].pkt
      /\ \A k \in 1 .. Len(z) : Pkts(z)[k] = z[k].pkt
      /\ 1 \in 1 .. Len(q)
  BY <1>2, <1>3 DEF Pkts
<1>7. PICK p : p = Pkts(q)
  OBVIOUS
<1>8. PICK y : y = Pkts(z)
  OBVIOUS
<1>9. p # << >> /\ Head(p) = Head(q).pkt
  BY <1>2, <1>3, <1>5, <1>6, <1>7
<1>10. y = Tail(p)
  <2>1. /\ p \in Seq(S) /\ y \in Seq(S) /\ Len(p) \in Nat \ {0} /\ Len(y) = Len(p) - 1
    BY <1>2, <1>3, <1>5, <1>7, <1>8
  <2>2. \A k \in 1 .. Len(y) : y[k] = p[k + 1]
    BY <1>2, <1>3, <1>6, <1>7, <1>8
  <2>3. /\ Tail(p) \in Seq(S) /\ Len(Tail(p)) = Len(y)
        /\ \A k \in 1 .. Len(y) : Tail(p)[k] = p[k + 1]
    BY <2>1
  <2> QED
    BY <2>1, <2>2, <2>3, SeqEqual
<1> QED
  BY <1>1, <1>7, <1>8, <1>9, <1>10

LEMMA PktsAdded ==
  ASSUME NEW M, NEW q \in Seq(M), NEW m \in M
  PROVE  Pkts(Append(q, m)) = Append(Pkts(q), m.pkt)
<1>1. PICK z : z = Append(q, m)
  OBVIOUS
<1>2. /\ z \in Seq(M) /\ Len(z) = Len(q) + 1 /\ Len(q) \in Nat /\ z[Len(z)] = m
      /\ \A k \in 1 .. Len(z) : k # Len(z) => z[k] = q[k] /\ k \in 1 .. Len(q)
      /\ DOMAIN q = 1 .. Len(q)
  BY <1>1
<1>3. /\ Len(Pkts(q)) = Len(q) /\ DOMAIN Pkts(q) = 1 .. Len(q)
      /\ Len(Pkts(z)) = Len(z) /\ DOMAIN Pkts(z) = 1 .. Len(z)
  BY <1>2, PktsSeq
<1>4. PICK S : S = {x.pkt : x \in M}
  OBVIOUS
<1>5. Pkts(q) \in Seq(S) /\ Pkts(z) \in Seq(S) /\ m.pkt \in S
  BY <1>2, <1>4, PktsSeq
<1>6. /\ \A k \in 1 .. Len(q) : Pkts(q)[k] = q[k].pkt
      /\ \A k \in 1 .. Len(z) : Pkts(z)[k] = z[k].pkt
  BY <1>2, <1>3 DEF Pkts
<1>7. PICK p : p = Pkts(q)
  OBVIOUS
<1>8. PICK y : y = Pkts(z)
  OBVIOUS
<1>9. /\ p \in Seq(S) /\ y \in Seq(S) /\ Len(y) = Len(p) + 1 /\ Len(p) \in Nat
      /\ Len(p) = Len(q)
  BY <1>2, <1>3, <1>5, <1>7, <1>8
<1>10. \A k \in 1 .. Len(y) : y[k] = IF k = Len(p) + 1 THEN m.pkt ELSE p[k]
  BY <1>2, <1>3, <1>6, <1>7, <1>8, <1>9
<1>11. /\ Append(p, m.pkt) \in Seq(S) /\ Len(Append(p, m.pkt)) = Len(y)
       /\ \A k \in 1 .. Len(y) : Append(p, m.pkt)[k] = IF k = Len(p) + 1 THEN m.pkt ELSE p[k]
  BY <1>5, <1>9
<1>12. y = Append(p, m.pkt)
  BY <1>9, <1>10, <1>11, SeqEqual
<1> QED
  BY <1>1, <1>7, <1>8, <1>12

\* A datagram is read from one of them, sent to one of them.
LEMMA TakeDatagram ==
  ASSUME NEW S, NEW t, NEW d, NEW q, NEW a, NEW w, Tracked(S, t, d, Carried(q), a, w),
         NEW M, q \in [Node -> Seq(M)], NEW n \in Node, q[n] # << >>
  PROVE  /\ Head(q[n]).pkt \in S
         /\ Tracked(S, t, d, Carried(Consume(q, n)), a, w)
         /\ Absent(Head(q[n]).pkt.id, PingsIn(t, d, Carried(Consume(q, n)), a, w))
<1>1. PICK i : i = Carried(q)
  OBVIOUS
<1>2. PICK x : x = Tail(q[n])
  OBVIOUS
<1>3. /\ Pkts(q[n]) # << >> /\ Head(Pkts(q[n])) = Head(q[n]).pkt
      /\ Pkts(x) = Tail(Pkts(q[n]))
  BY <1>2, PktsRead
<1>4. Consume(q, n) = [q EXCEPT ![n] = x]
  BY <1>2 DEF Consume
<1>5. PICK y : y = Tail(i[n])
  OBVIOUS
<1>6. y = Pkts(x) /\ i[n] # << >> /\ Head(i[n]) = Head(q[n]).pkt
  BY <1>1, <1>3, <1>5 DEF Carried
<1>7. Carried([q EXCEPT ![n] = x]) = [i EXCEPT ![n] = y]
  BY <1>1, <1>6 DEF Carried
<1>8. /\ Head(i[n]) \in S
      /\ Tracked(S, t, d, [i EXCEPT ![n] = Tail(@)], a, w)
      /\ Absent(Head(i[n]).id, PingsIn(t, d, [i EXCEPT ![n] = Tail(@)], a, w))
  BY <1>1, <1>6, TakeInbox
<1>9. [i EXCEPT ![n] = Tail(@)] = Carried(Consume(q, n))
  BY <1>4, <1>5, <1>7
<1> QED
  BY <1>6, <1>8, <1>9

LEMMA PutDatagram ==
  ASSUME NEW S, NEW t, NEW d, NEW q, NEW a, NEW w, Tracked(S, t, d, Carried(q), a, w),
         NEW M, q \in [Node -> Seq(M)], NEW live \in SUBSET Node, NEW b, NEW n,
         NEW m \in M, m.pkt \in S, Absent(m.pkt.id, PingsIn(t, d, Carried(q), a, w))
  PROVE  Tracked(S, t, d, Carried(Deliver(q, live, b, n, m)), a, w)
<1>1. CASE n \in live /\ Len(q[n]) < b
  <2>1. PICK i : i = Carried(q)
    OBVIOUS
  <2>2. PICK p : p = m.pkt
    OBVIOUS
  <2>3. PICK x : x = Append(q[n], m)
    OBVIOUS
  <2>4. Deliver(q, live, b, n, m) = [q EXCEPT ![n] = x]
    BY <1>1, <2>3 DEF Deliver
  <2>5. n \in Node
    BY <1>1
  <2>6. Pkts(x) = Append(i[n], p)
    BY <2>1, <2>2, <2>3, <2>5, PktsAdded DEF Carried
  <2>7. PICK y : y = Append(i[n], p)
    OBVIOUS
  <2>8. Carried([q EXCEPT ![n] = x]) = [i EXCEPT ![n] = y]
    BY <2>1, <2>5, <2>6, <2>7 DEF Carried
  <2>9. Tracked(S, t, d, [i EXCEPT ![n] = Append(@, p)], a, w)
    BY <2>1, <2>2, <2>5, PutInbox
  <2> QED
    BY <2>4, <2>7, <2>8, <2>9
<1>2. CASE ~ (n \in live /\ Len(q[n]) < b)
  BY <1>2 DEF Deliver
<1> QED
  BY <1>1, <1>2

LEMMA DatagramsCleared ==
  ASSUME NEW M, NEW q \in [Node -> Seq(M)], NEW n \in Node
  PROVE  Carried([q EXCEPT ![n] = << >>]) = [Carried(q) EXCEPT ![n] = << >>]
<1>1. Pkts(<< >>) = << >>
  BY DEF Pkts
<1>2. PICK o : o = << >>
  OBVIOUS
<1> QED
  BY <1>1, <1>2 DEF Carried

\* What is nowhere was not delivered.
LEMMA DeliveredBefore ==
  ASSUME NEW t, NEW d, NEW i, NEW a, NEW w, NEW n, Absent(n, PingsIn(t, d, i, a, w))
  PROVE  \A k \in DOMAIN d : d[k].id # n
<1>1. PICK L : L = PingsIn(t, d, i, a, w)
  OBVIOUS
<1>2. L[DeliveredAt] = d
  BY <1>1, WhatIsWhere DEF Shows
<1>3. n \notin Ids(d)
  BY <1>1, <1>2, PlaceNames DEF Absent
<1> QED
  BY <1>3 DEF Ids

\* What is written to the tunnel is one answer more.
LEMMA AnswersAppended ==
  ASSUME NEW M, NEW d \in Seq(M), NEW p \in M
  PROVE  AnswersOf(Append(d, p)) = Append(AnswersOf(d), [ping |-> p.id, by |-> p.saddr])
<1>1. PICK z : z = Append(d, p)
  OBVIOUS
<1>2. PICK a : a = [ping |-> p.id, by |-> p.saddr]
  OBVIOUS
<1>3. PICK S : S = {[ping |-> q.id, by |-> q.saddr] : q \in M}
  OBVIOUS
<1>4. PICK x : x = AnswersOf(d)
  OBVIOUS
<1>5. PICK y : y = AnswersOf(z)
  OBVIOUS
<1>6. /\ z \in Seq(M) /\ Len(z) = Len(d) + 1 /\ Len(d) \in Nat /\ z[Len(d) + 1] = p
      /\ \A k \in 1 .. Len(d) : z[k] = d[k]
      /\ DOMAIN d = 1 .. Len(d) /\ DOMAIN z = 1 .. Len(d) + 1
  BY <1>1
<1>7. /\ \A k \in DOMAIN d : d[k] \in M
      /\ \A k \in DOMAIN z : z[k] \in M
  BY <1>6
<1>8. /\ x \in Seq(S) /\ Len(x) = Len(d) /\ a \in S
      /\ \A k \in 1 .. Len(d) : x[k] = [ping |-> d[k].id, by |-> d[k].saddr]
  BY <1>2, <1>3, <1>4, <1>6, <1>7 DEF AnswersOf
<1>9. /\ y \in Seq(S) /\ Len(y) = Len(d) + 1
      /\ \A k \in 1 .. Len(d) + 1 : y[k] = [ping |-> z[k].id, by |-> z[k].saddr]
  BY <1>3, <1>5, <1>6, <1>7 DEF AnswersOf
<1>10. \A k \in 1 .. Len(y) : y[k] = IF k = Len(x) + 1 THEN a ELSE x[k]
  <2>1. y[Len(d) + 1] = a
    BY <1>2, <1>6, <1>9
  <2>2. \A k \in 1 .. Len(d) : k \in 1 .. Len(d) + 1 /\ y[k] = x[k]
    BY <1>6, <1>8, <1>9
  <2>3. \A k \in 1 .. Len(d) + 1 : k = Len(d) + 1 \/ k \in 1 .. Len(d)
    BY <1>6
  <2> QED
    BY <1>8, <1>9, <2>1, <2>2, <2>3
<1>11. /\ Append(x, a) \in Seq(S) /\ Len(Append(x, a)) = Len(y)
       /\ \A k \in 1 .. Len(y) : Append(x, a)[k] = IF k = Len(x) + 1 THEN a ELSE x[k]
  BY <1>6, <1>8, <1>9
<1>12. y = Append(x, a)
  BY <1>9, <1>10, <1>11, SeqEqual
<1> QED
  BY <1>1, <1>2, <1>4, <1>5, <1>12
=============================================================================
