------------------------- MODULE PlainCircuitProofs -------------------------
(***************************************************************************)
(* Proofs about PlainCircuit, for every number of routers and hops, and    *)
(* any number of hosts, pings, buffers and failures.  The inductive        *)
(* invariant is CircuitInv (module PlainCircuit).  To show that no ping is *)
(* duplicated and that stage 5 implements the circuit service, PingsOnce   *)
(* adds which ping each packet belongs to, and that no two packets belong  *)
(* to the same one.                                                        *)
(***************************************************************************)
EXTENDS PlainCircuit, MiniTorProofs

-----------------------------------------------------------------------------
(* The hops.                                                               *)

LEMMA Numbers ==
  /\ noOfRouters \in Nat /\ noOfHops \in Nat \ {0}
  /\ Proxy \in Node /\ Proxy \notin Router /\ NoAddress \notin Node
  /\ LAST_HOP_PortNumber \notin Node /\ NoAddress # LAST_HOP_PortNumber
  /\ \A n : n \in Node <=> n \in Router \/ n = Proxy
  /\ \A n \in Node : Eth(n) \in IP
  /\ NoIP \in IP /\ 0 \in Word
BY RoutersAssumption, HopsAssumption
   DEF RoutersAssumption, HopsAssumption, Proxy, Router, Node, NoAddress,
       LAST_HOP_PortNumber, Eth, IP, NoIP, Word

LEMMA Hops ==
  ASSUME TypeOK, HopsChosen, phase # "start"
  PROVE  HopsAre(myCctHops)
BY SelectedHops DEF TypeOK, HopsChosen

\* A router is on the path under one number or not at all.
LEMMA OnPathIsAHop ==
  ASSUME HopsAre(myCctHops), NEW r \in Router, OnPath(r)
  PROVE  \E i \in 1 .. noOfHops : r = myCctHops[i]
<1>1. PICK i \in DOMAIN myCctHops : myCctHops[i] = r
  BY DEF OnPath
<1>2. i \in 1 .. noOfHops + 1 /\ i # noOfHops + 1
  BY <1>1, Numbers DEF HopsAre
<1>3. i \in 1 .. noOfHops
  BY <1>2, Numbers
<1> QED
  BY <1>1, <1>3

-----------------------------------------------------------------------------
(* Messages and queues.                                                    *)

LEMMA MessageTypes ==
  \A from \in Node, cid \in Word :
    /\ \A next \in HopPort : ExtendMsg(from, cid, next) \in Message
    /\ DoneMsg(from, cid) \in Message
    /\ \A pkt \in Packet :
         /\ RelayMsg(from, "RELAY_THIS_DATA_FWD", cid, pkt) \in Message
         /\ RelayMsg(from, "RELAY_THIS_DATA_BACKWD", cid, pkt) \in Message
BY DEF Message, ExtendMsg, DoneMsg, RelayMsg, Commands, HopPort

\* An extend-done message has 23 bytes.
LEMMA DoneIsBare == \A from, cid : IsBare(DoneMsg(from, cid))
BY DEF IsBare, DoneMsg

\* An assertion that holds may be forgotten.
LEMMA Asserted ==
  ASSUME NEW r, NEW asserted, NEW d, NEW m, asserted, RouterSends(r, asserted, d, m)
  PROVE  RouterSends(r, TRUE, d, m)
BY DEF RouterSends

\* A request or a reply is a packet.
LEMMA PacketOf ==
  ASSUME NEW p \in Packet \cup {NoPacket}, p.type \in {"request", "reply"}
  PROVE  /\ p \in Packet
         /\ \A a \in IP : [p EXCEPT !.saddr = a] \in Packet /\ [p EXCEPT !.daddr = a] \in Packet
<1>1. p # NoPacket
  BY DEF NoPacket
<1> QED
  BY <1>1 DEF Packet

LEMMA Consumed ==
  ASSUME NEW q \in [Node -> Seq(Message)], NEW r \in Node, q[r] # << >>
  PROVE  /\ Consume(q, r) \in [Node -> Seq(Message)]
         /\ \A e \in Node : e # r => Consume(q, r)[e] = q[e]
         /\ \A n \in DOMAIN Consume(q, r)[r] :
              n + 1 \in DOMAIN q[r] /\ Consume(q, r)[r][n] = q[r][n + 1]
<1>1. /\ Tail(q[r]) \in Seq(Message)
      /\ \A n \in DOMAIN Tail(q[r]) : n + 1 \in DOMAIN q[r] /\ Tail(q[r])[n] = q[r][n + 1]
  <2> DEFINE z == q[r]
  <2>1. z \in Seq(Message) /\ z # << >>
    OBVIOUS
  <2> HIDE DEF z
  <2>2. Tail(z) \in Seq(Message) /\ \A n \in DOMAIN Tail(z) : n + 1 \in DOMAIN z /\ Tail(z)[n] = z[n + 1]
    BY <2>1
  <2> QED
    BY <2>2 DEF z
<1> QED
  BY <1>1 DEF Consume

LEMMA LiveNodesType ==
  ASSUME TypeOK
  PROVE  LiveNodes \in SUBSET Node /\ RcvBuf \in Nat /\ RcvBuf # 0
BY Numbers, PlainAssumption DEF TypeOK, LiveNodes, PlainAssumption

\* What is in a queue after a delivery was there before or was delivered.
LEMMA Arrives ==
  ASSUME TypeOK, NEW q \in [Node -> Seq(Message)], NEW d \in Node, NEW m \in Message
  PROVE  /\ Sent(q, d, m) \in [Node -> Seq(Message)]
         /\ \A e \in Node : e # d => Sent(q, d, m)[e] = q[e]
         /\ \A n \in DOMAIN Sent(q, d, m)[d] :
              \/ n \in DOMAIN q[d] /\ Sent(q, d, m)[d][n] = q[d][n]
              \/ Sent(q, d, m)[d][n] = m
<1>1. CASE d \in LiveNodes /\ Len(q[d]) < RcvBuf
  <2>1. Sent(q, d, m) = [q EXCEPT ![d] = Append(q[d], m)]
    BY <1>1 DEF Sent, Deliver
  <2> DEFINE z == q[d]
  <2>2. z \in Seq(Message)
    OBVIOUS
  <2> HIDE DEF z
  <2>3. /\ Append(z, m) \in Seq(Message)
        /\ \A n \in DOMAIN Append(z, m) :
             (n \in DOMAIN z /\ Append(z, m)[n] = z[n]) \/ Append(z, m)[n] = m
    BY <2>2
  <2>4. /\ Append(q[d], m) \in Seq(Message)
        /\ \A n \in DOMAIN Append(q[d], m) :
             (n \in DOMAIN q[d] /\ Append(q[d], m)[n] = q[d][n]) \/ Append(q[d], m)[n] = m
    BY <2>3 DEF z
  <2> QED
    BY <2>1, <2>4
<1>2. CASE ~ (d \in LiveNodes /\ Len(q[d]) < RcvBuf)
  <2>1. Sent(q, d, m) = q
    BY <1>2 DEF Sent, Deliver
  <2> QED
    BY <2>1
<1> QED
  BY <1>1, <1>2

\* A delivery when nothing else is on its way.
LEMMA ArrivesAlone ==
  ASSUME TypeOK, NEW q \in [Node -> Seq(Message)], \A e \in Node : q[e] = << >>,
         NEW d \in Node, NEW m \in Message
  PROVE  \/ \A e \in Node : Sent(q, d, m)[e] = << >>
         \/ \A e \in Node : Sent(q, d, m)[e] = IF e = d THEN <<m>> ELSE << >>
<1>1. CASE d \in LiveNodes /\ Len(q[d]) < RcvBuf
  <2>1. Sent(q, d, m) = [q EXCEPT ![d] = Append(q[d], m)]
    BY <1>1 DEF Sent, Deliver
  <2>2. Append(<< >>, m) = <<m>>
    OBVIOUS
  <2> QED
    BY <2>1, <2>2
<1>2. CASE ~ (d \in LiveNodes /\ Len(q[d]) < RcvBuf)
  BY <1>2 DEF Sent, Deliver
<1> QED
  BY <1>1, <1>2

\* A router that handles its first datagram and sends one to an address that is set.
LEMMA Handled ==
  ASSUME TypeOK, NEW r \in Router, inbox[r] # << >>, NEW d \in Node, NEW m \in Message,
         RouterSends(r, TRUE, d, m)
  PROVE  /\ UNCHANGED <<up, raw, phase>>
         /\ inbox' \in [Node -> Seq(Message)]
         /\ \A e \in Node : \A n \in DOMAIN inbox'[e] :
              \/ \E k \in DOMAIN inbox[e] : inbox'[e][n] = inbox[e][k]
              \/ e = d /\ inbox'[e][n] = m
         /\ \A e \in Node : e # d /\ inbox[e] = << >> => inbox'[e] = << >>
<1>1. d # NoAddress /\ r \in Node /\ inbox \in [Node -> Seq(Message)]
  BY Numbers DEF TypeOK
<1> DEFINE q == Consume(inbox, r)
<1>2. inbox' = Sent(q, d, m) /\ UNCHANGED <<up, raw, phase>>
  BY <1>1 DEF RouterSends
<1>3. /\ q \in [Node -> Seq(Message)]
      /\ \A e \in Node : e # r => q[e] = inbox[e]
      /\ \A n \in DOMAIN q[r] : n + 1 \in DOMAIN inbox[r] /\ q[r][n] = inbox[r][n + 1]
  BY <1>1, Consumed
<1> HIDE DEF q
<1>4. /\ inbox' \in [Node -> Seq(Message)]
      /\ \A e \in Node : e # d => inbox'[e] = q[e]
      /\ \A n \in DOMAIN inbox'[d] :
           (n \in DOMAIN q[d] /\ inbox'[d][n] = q[d][n]) \/ inbox'[d][n] = m
  BY <1>2, <1>3, Arrives
<1>5. \A e \in Node : \A n \in DOMAIN q[e] : \E k \in DOMAIN inbox[e] : q[e][n] = inbox[e][k]
  <2> TAKE e \in Node
  <2> TAKE n \in DOMAIN q[e]
  <2>1. CASE e = r
    BY <1>3, <2>1
  <2>2. CASE e # r
    BY <1>3, <2>2
  <2> QED
    BY <2>1, <2>2
<1>6. \A e \in Node : \A n \in DOMAIN inbox'[e] :
        \/ \E k \in DOMAIN inbox[e] : inbox'[e][n] = inbox[e][k]
        \/ e = d /\ inbox'[e][n] = m
  <2> TAKE e \in Node
  <2> TAKE n \in DOMAIN inbox'[e]
  <2>1. CASE e = d
    <3>1. (n \in DOMAIN q[e] /\ inbox'[e][n] = q[e][n]) \/ inbox'[e][n] = m
      BY <1>4, <2>1
    <3>2. CASE n \in DOMAIN q[e] /\ inbox'[e][n] = q[e][n]
      BY <1>5, <3>2
    <3> QED
      BY <2>1, <3>1, <3>2
  <2>2. CASE e # d
    <3>1. n \in DOMAIN q[e] /\ inbox'[e][n] = q[e][n]
      BY <1>4, <2>2
    <3> QED
      BY <1>5, <3>1
  <2> QED
    BY <2>1, <2>2
<1>7. \A e \in Node : e # d /\ inbox[e] = << >> => inbox'[e] = << >>
  BY <1>1, <1>3, <1>4
<1> QED
  BY <1>2, <1>4, <1>6, <1>7

\* The same when that datagram was the only one.
LEMMA HandledAlone ==
  ASSUME TypeOK, NEW r \in Router, NEW x, Only(r, x), NEW d \in Node, NEW m \in Message,
         RouterSends(r, TRUE, d, m)
  PROVE  Silent' \/ Only(d, m)'
<1>1. d # NoAddress /\ r \in Node /\ inbox \in [Node -> Seq(Message)]
  BY Numbers DEF TypeOK
<1>2. inbox[r] = <<x>> /\ \A e \in Node : e # r => inbox[e] = << >>
  BY <1>1 DEF Only
<1> DEFINE q == Consume(inbox, r)
<1>3. inbox' = Sent(q, d, m)
  BY <1>1 DEF RouterSends
<1>4. q \in [Node -> Seq(Message)] /\ \A e \in Node : q[e] = << >>
  <2>1. inbox[r] # << >> /\ Tail(<<x>>) = << >>
    BY <1>2
  <2> QED
    BY <1>1, <1>2, <2>1 DEF Consume
<1> HIDE DEF q
<1> QED
  BY <1>3, <1>4, ArrivesAlone DEF Silent, Only

-----------------------------------------------------------------------------
(* What a router can find in its queue.                                    *)

\* The path, its identifiers and its neighbours are what they should be.
LEMMA PathFacts ==
  ASSUME CircuitInv, phase # "start"
  PROVE  /\ HopsAre(myCctHops)
         /\ CircuitID \in Word /\ sendToAddress = myCctHops[1]
         /\ var \in 0 .. noOfHops /\ var \in Int /\ noOfHops \in Int
         /\ 1 \in 1 .. noOfHops
         /\ \A j \in 1 .. noOfHops :
              /\ PrevHop(j) \in Node
              /\ GivenAt(j) \in Word
              /\ myCctHops[j] \in Node /\ myCctHops[j] # Proxy
              /\ myCctHops[j + 1] \in HopPort /\ myCctHops[j + 1] # NoAddress
<1>1. HopsAre(myCctHops) /\ TypeOK /\ HopsChosen
  BY Hops DEF CircuitInv
<1>2. s = 2 /\ CircuitID = 1 /\ 1 \in Word
  BY <1>1, InWord DEF HopsChosen, CircuitID
<1>3. sendToAddress = myCctHops[1] /\ var \in 0 .. noOfHops
  BY <1>1 DEF HopsChosen, TypeOK
<1>4. noOfHops \in Int /\ var \in Int /\ 1 \in 1 .. noOfHops
  BY <1>3, Numbers
<1>5. ASSUME NEW j \in 1 .. noOfHops
      PROVE  /\ PrevHop(j) \in Node /\ GivenAt(j) \in Word
             /\ myCctHops[j] \in Node /\ myCctHops[j] # Proxy
             /\ myCctHops[j + 1] \in HopPort /\ myCctHops[j + 1] # NoAddress
  <2>1. myCctHops[j] \in Node /\ myCctHops[j] # Proxy
    BY <1>1, Numbers DEF HopsAre
  <2>2. /\ j # 1 => j - 1 \in 1 .. noOfHops
        /\ j + 1 \in 1 .. noOfHops \/ j + 1 = noOfHops + 1
    BY Numbers
  <2>3. PrevHop(j) \in Node
    BY <1>1, <2>2, Numbers DEF PrevHop, HopsAre
  <2>4. GivenAt(j) \in Word
    <3>1. htons(CircuitID) \in Word
      BY <1>2, HtonsType
    <3>2. \A r \in Router : entry[r].myCircuitID \in Word
      BY <1>1 DEF TypeOK, CircuitInfoEntry
    <3> QED
      BY <1>1, <2>2, <3>1, <3>2 DEF GivenAt, HopsAre
  <2>5. myCctHops[j + 1] \in HopPort /\ myCctHops[j + 1] # NoAddress
    BY <1>1, <2>2, Numbers DEF HopsAre, HopPort
  <2> QED
    BY <2>1, <2>3, <2>4, <2>5
<1> QED
  BY <1>1, <1>2, <1>3, <1>4, <1>5

\* Only a hop finds a datagram, and while the circuit is built that is the one
\* datagram on its way.
LEMMA WhatArrives ==
  ASSUME CircuitInv, NEW r \in Router, inbox[r] # << >>
  PROVE  /\ phase # "start"
         /\ \E i \in 1 .. noOfHops :
              /\ r = myCctHops[i]
              /\ \/ /\ phase = "await" /\ Placed(var) /\ i <= var + 1
                    /\ ExtendOut(i)
                 \/ /\ phase = "await" /\ Placed(var + 1) /\ i <= var
                    /\ \E c \in Word : Only(r, DoneMsg(myCctHops[i + 1], c))
                 \/ /\ ~ Building
                    /\ \A n \in DOMAIN inbox[r] : FwdOK(i, inbox[r][n]) \/ BackOK(i, inbox[r][n])
<1>1. r \in Node /\ r # Proxy
  BY Numbers
<1>2. phase \notin {"start", "send", "built"}
  BY <1>1 DEF CircuitInv, BuildInv, Silent
<1>3. PICK i \in 1 .. noOfHops : r = myCctHops[i]
  BY <1>2, PathFacts, OnPathIsAHop DEF CircuitInv, BystandersUntouched
<1>4. CASE Building
  <2>1. phase = "await" /\ Outstanding /\ ~ Silent /\ var < noOfHops
    BY <1>1, <1>2, <1>4 DEF CircuitInv, BuildInv, Building, Silent, HopsChosen
  <2>2. var \in Int /\ 0 <= var /\ noOfHops \in Int /\ var + 1 <= noOfHops
    BY <1>2, <2>1, PathFacts
  <2>3. CASE Placed(var) /\ \E j \in 1 .. var + 1 : ExtendOut(j)
    <3>1. PICK j \in 1 .. var + 1 : ExtendOut(j)
      BY <2>3
    <3>2. j \in 1 .. noOfHops /\ j <= var + 1
      BY <2>2
    <3>3. r = myCctHops[j]
      BY <1>1, <3>1 DEF ExtendOut, Only
    <3> QED
      BY <1>2, <2>1, <2>3, <3>1, <3>2, <3>3
  <2>4. CASE Placed(var + 1) /\ \E j \in 1 .. var + 1 : DoneBack(j)
    <3>1. PICK j \in 1 .. var + 1, c \in Word : Only(PrevHop(j), DoneMsg(myCctHops[j], c))
      BY <2>4 DEF DoneBack
    <3>2. r = PrevHop(j)
      BY <1>1, <3>1 DEF Only
    <3>3. j # 1 /\ r = myCctHops[j - 1]
      BY <1>1, <3>2 DEF PrevHop
    <3>4. j - 1 \in 1 .. noOfHops /\ j - 1 <= var /\ (j - 1) + 1 = j
      BY <2>2, <3>3
    <3> QED
      BY <1>2, <2>1, <2>4, <3>1, <3>2, <3>3, <3>4
  <2> QED
    BY <2>1, <2>3, <2>4 DEF Outstanding
<1>5. CASE ~ Building
  <2>1. \A n \in DOMAIN inbox[r] : FwdOK(i, inbox[r][n]) \/ BackOK(i, inbox[r][n])
    BY <1>3, <1>5 DEF CircuitInv, RelayInv
  <2> QED
    BY <1>2, <1>3, <1>5, <2>1
<1> QED
  BY <1>4, <1>5

\* What kind of datagram it is tells where in the protocol the circuit is.
LEMMA HeadMessage ==
  ASSUME CircuitInv, NEW r \in Router, inbox[r] # << >>, NEW m, m = Head(inbox[r])
  PROVE  /\ phase # "start" /\ m \in Message
         /\ \E i \in 1 .. noOfHops :
              /\ r = myCctHops[i]
              /\ m.cmd = "CIRCUIT_EXTEND" =>
                   /\ phase = "await" /\ Placed(var) /\ i <= var + 1 /\ Only(r, m)
                   /\ m = ExtendMsg(PrevHop(i), htons(GivenAt(i)), myCctHops[var + 2])
              /\ m.cmd = "CIRCUIT_EXTEND_DONE" =>
                   /\ phase = "await" /\ Placed(var + 1) /\ i <= var /\ Only(r, m)
                   /\ \E c \in Word : m = DoneMsg(myCctHops[i + 1], c)
              /\ m.cmd = "RELAY_THIS_DATA_FWD" => ~ Building /\ FwdOK(i, m)
              /\ m.cmd = "RELAY_THIS_DATA_BACKWD" => ~ Building /\ BackOK(i, m)
<1>1. PICK i \in 1 .. noOfHops :
        /\ r = myCctHops[i]
        /\ \/ phase = "await" /\ Placed(var) /\ i <= var + 1 /\ ExtendOut(i)
           \/ /\ phase = "await" /\ Placed(var + 1) /\ i <= var
              /\ \E c \in Word : Only(r, DoneMsg(myCctHops[i + 1], c))
           \/ ~ Building /\ \A n \in DOMAIN inbox[r] : FwdOK(i, inbox[r][n]) \/ BackOK(i, inbox[r][n])
  BY WhatArrives
<1>2. phase # "start" /\ r \in Node /\ TypeOK
  BY WhatArrives, Numbers DEF CircuitInv
<1>3. \A x : Only(r, x) => m = x
  <2>1. \A x : Head(<<x>>) = x
    OBVIOUS
  <2> QED
    BY <1>2, <2>1 DEF Only
<1>4. 1 \in DOMAIN inbox[r] /\ m = inbox[r][1] /\ m \in Message
  <2>1. \A q \in Seq(Message) : q # << >> =>
          1 \in DOMAIN q /\ Head(q) = q[1] /\ Head(q) \in Message
    OBVIOUS
  <2> QED
    BY <1>2, <2>1 DEF TypeOK
<1>5. CASE phase = "await" /\ Placed(var) /\ i <= var + 1 /\ ExtendOut(i)
  <2>1. m = ExtendMsg(PrevHop(i), htons(GivenAt(i)), myCctHops[var + 2]) /\ Only(r, m)
    BY <1>1, <1>3, <1>5 DEF ExtendOut
  <2>2. m.cmd = "CIRCUIT_EXTEND"
    BY <2>1 DEF ExtendMsg
  <2> QED
    BY <1>1, <1>2, <1>4, <1>5, <2>1, <2>2
<1>6. CASE /\ phase = "await" /\ Placed(var + 1) /\ i <= var
           /\ \E c \in Word : Only(r, DoneMsg(myCctHops[i + 1], c))
  <2>1. PICK c \in Word : m = DoneMsg(myCctHops[i + 1], c) /\ Only(r, m)
    BY <1>3, <1>6
  <2>2. m.cmd = "CIRCUIT_EXTEND_DONE"
    BY <2>1 DEF DoneMsg
  <2> QED
    BY <1>1, <1>2, <1>4, <1>6, <2>1, <2>2
<1>7. CASE ~ Building /\ \A n \in DOMAIN inbox[r] : FwdOK(i, inbox[r][n]) \/ BackOK(i, inbox[r][n])
  <2>1. ~ Building /\ (FwdOK(i, m) \/ BackOK(i, m))
    BY <1>4, <1>7
  <2>2. /\ FwdOK(i, m) => m.cmd = "RELAY_THIS_DATA_FWD"
        /\ BackOK(i, m) => m.cmd = "RELAY_THIS_DATA_BACKWD"
    BY DEF FwdOK, BackOK
  <2> QED
    BY <1>1, <1>2, <1>4, <2>1, <2>2
<1> QED
  BY <1>1, <1>5, <1>6, <1>7

-----------------------------------------------------------------------------
(* The proxy builds the circuit: one lemma per action.                     *)

LEMMA EmptyQueue == DOMAIN << >> = {}
OBVIOUS

\* A step that leaves the tables alone leaves the hops that are in place there.
LEMMA PlacedKept ==
  ASSUME UNCHANGED <<s, myCctHops, TO_FORWARD, entry>>, NEW k, Placed(k)
  PROVE  Placed(k)'
BY DEF Placed, InPlace, PrevHop, GivenAt, CircuitID

LEMMA BuildStartStep ==
  ASSUME CircuitInv, BuildStart
  PROVE  CircuitInv'
<1>1. PICK i \in 0 .. noOfRouters - 1 :
        myCctHops' = RandomlySelectHops2(i) /\ sendToAddress' = RandomlySelectHops2(i)[1]
  BY DEF BuildStart
<1>2. /\ phase = "start" /\ phase' = "send" /\ s = 1 /\ s' = 2 /\ var' = 0 /\ myCctHops = << >>
      /\ UNCHANGED <<tun, delivered, routerVars, inbox, world, pinged, faults>>
  BY DEF BuildStart, CircuitInv, HopsChosen
<1>3. HopsAre(myCctHops') /\ myCctHops' # << >> /\ sendToAddress' = myCctHops'[1]
  BY <1>1, SelectedHops
<1>4. 0 \in 0 .. noOfHops /\ 0 < noOfHops /\ 2 \in Word /\ 1 \in 1 .. noOfHops
  BY Numbers, InWord
<1>5. \A r \in Router : entry[r] = ZeroEntry /\ ~ TO_FORWARD[r]
  BY <1>2, EmptyQueue DEF CircuitInv, BystandersUntouched, OnPath
<1>6. /\ Silent /\ tun = << >> /\ delivered = << >> /\ world = {}
      /\ \A r \in Router : raw[r] = << >>
  BY <1>2 DEF CircuitInv, BuildInv, Building
<1>7. TypeOK'
  BY <1>1, <1>2, <1>3, <1>4 DEF CircuitInv, TypeOK, routerVars, HopsAre
<1>8. HopsChosen'
  BY <1>2, <1>3, <1>4 DEF HopsChosen
<1>9. BystandersUntouched'
  BY <1>2, <1>5, <1>6, Numbers DEF BystandersUntouched, Silent, routerVars
<1>10. BuildInv'
  <2>1. Silent'
    BY <1>2, <1>6 DEF Silent
  <2>2. Placed(0)'
    BY <1>2, <1>3, <1>5 DEF Placed, routerVars, HopsAre
  <2>3. Placed(var)'
    BY <1>2, <2>2
  <2> QED
    BY <1>2, <1>6, <2>1, <2>3 DEF BuildInv, routerVars
<1>11. RelayInv'
  BY <1>2 DEF RelayInv, Building
<1> QED
  BY <1>7, <1>8, <1>9, <1>10, <1>11 DEF CircuitInv

LEMMA SendExtendStep ==
  ASSUME CircuitInv, SendExtend
  PROVE  CircuitInv'
<1> DEFINE m == ExtendMsg(Proxy, CircuitID, myCctHops[var + 2])
<1>1. /\ phase = "send" /\ phase' = "await"
      /\ inbox' = Sent(inbox, myCctHops[1], m)
      /\ UNCHANGED <<s, myCctHops, var, sendToAddress, tun, delivered, routerVars, world,
                     pinged, faults>>
  BY PathFacts DEF SendExtend, NextHopInfo
<1>2. /\ TypeOK /\ HopsAre(myCctHops) /\ CircuitID \in Word
      /\ var \in Int /\ 0 <= var /\ var < noOfHops /\ noOfHops \in Int
      /\ 1 \in 1 .. noOfHops /\ myCctHops[1] \in Node /\ myCctHops[1] # Proxy
  BY <1>1, PathFacts DEF CircuitInv, HopsChosen
<1>3. var + 1 \in 1 .. noOfHops /\ (var + 1) + 1 = var + 2 /\ 1 \in 1 .. var + 1
  BY <1>2
<1>4. m \in Message
  BY <1>1, <1>2, <1>3, PathFacts, MessageTypes, Numbers
<1>5. Silent /\ Placed(var) /\ BystandersUntouched /\ HopsChosen
  BY <1>1 DEF CircuitInv, BuildInv
<1>6. /\ tun = << >> /\ delivered = << >> /\ world = {}
      /\ \A r \in Router : raw[r] = << >>
  BY <1>1 DEF CircuitInv, BuildInv, Building
<1>7. m = ExtendMsg(PrevHop(1), htons(GivenAt(1)), myCctHops[var + 2])
  BY <1>2, HtonsInvolution DEF PrevHop, GivenAt
<1> HIDE DEF m
<1>8. inbox \in [Node -> Seq(Message)] /\ \A e \in Node : inbox[e] = << >>
  BY <1>2, <1>5 DEF TypeOK, Silent
<1>9. inbox' \in [Node -> Seq(Message)]
  BY <1>1, <1>2, <1>4, <1>8, Arrives
<1>10. \/ \A e \in Node : inbox'[e] = << >>
       \/ \A e \in Node : inbox'[e] = IF e = myCctHops[1] THEN <<m>> ELSE << >>
  BY <1>1, <1>2, <1>4, <1>8, ArrivesAlone
<1>11. TypeOK'
  BY <1>1, <1>2, <1>9 DEF TypeOK, routerVars
<1>12. HopsChosen'
  BY <1>1, <1>5 DEF HopsChosen
<1>13. BystandersUntouched'
  <2>1. \A r \in Router : ~ OnPath(r) => r # myCctHops[1]
    BY <1>2, Numbers DEF OnPath, HopsAre
  <2>2. \A r \in Router : ~ OnPath(r) => inbox'[r] = << >>
    BY <1>1, <1>10, <2>1, Numbers
  <2> QED
    BY <1>1, <1>5, <2>2 DEF BystandersUntouched, OnPath, routerVars
<1>14. BuildInv'
  <2>1. Placed(var)'
    <3>1. PICK k : k = var
      OBVIOUS
    <3>2. Placed(k)'
      BY <1>1, <1>5, <3>1, PlacedKept DEF routerVars
    <3> QED
      BY <1>1, <3>1, <3>2
  <2>2. Silent' \/ ExtendOut(1)'
    <3>1. ExtendMsg(PrevHop(1), htons(GivenAt(1)), myCctHops[var + 2])' = m
      BY <1>1, <1>7 DEF PrevHop, GivenAt, CircuitID, ExtendMsg
    <3> QED
      BY <1>1, <1>10, <3>1 DEF Silent, ExtendOut, Only
  <2>3. Outstanding'
    BY <1>1, <1>3, <2>1, <2>2 DEF Outstanding
  <2> QED
    BY <1>1, <1>6, <2>3 DEF BuildInv, routerVars
<1>15. RelayInv'
  BY <1>1 DEF RelayInv, Building
<1> QED
  BY <1>11, <1>12, <1>13, <1>14, <1>15 DEF CircuitInv

\* What ends the wait is the answer of the hop that was asked for.
LEMMA AwaitDoneStep ==
  ASSUME CircuitInv, AwaitDone
  PROVE  CircuitInv'
<1>1. /\ phase = "await" /\ inbox[Proxy] # << >>
      /\ inbox' = Consume(inbox, Proxy)
      /\ var' = var + 1
      /\ phase' = IF var + 1 = noOfHops THEN "built" ELSE "send"
      /\ UNCHANGED <<s, myCctHops, sendToAddress, tun, delivered, routerVars, world,
                     pinged, faults>>
  BY DEF AwaitDone
<1>2. /\ TypeOK /\ HopsChosen /\ BystandersUntouched /\ Outstanding
      /\ HopsAre(myCctHops) /\ var \in Int /\ 0 <= var /\ var < noOfHops /\ noOfHops \in Int
  BY <1>1, PathFacts DEF CircuitInv, HopsChosen, BuildInv
<1>3. /\ tun = << >> /\ delivered = << >> /\ world = {}
      /\ \A r \in Router : raw[r] = << >>
  BY <1>1 DEF CircuitInv, BuildInv, Building
<1>4. Proxy \in Node /\ Proxy \notin Router
  BY Numbers
<1>5. Placed(var + 1) /\ \E c, d : Only(Proxy, DoneMsg(d, c))
  <2>1. ~ Silent
    BY <1>1, <1>4 DEF Silent
  <2>2. \A i \in 1 .. var + 1 : ~ ExtendOut(i)
    <3>1. \A i \in 1 .. var + 1 : i \in 1 .. noOfHops
      BY <1>2
    <3> QED
      BY <1>1, <1>4, <3>1, PathFacts DEF ExtendOut, Only
  <2>3. PICK i \in 1 .. var + 1 : DoneBack(i)
    BY <1>2, <2>1, <2>2 DEF Outstanding
  <2>4. PICK c \in Word : Only(PrevHop(i), DoneMsg(myCctHops[i], c))
    BY <2>3 DEF DoneBack
  <2>5. PrevHop(i) = Proxy
    BY <1>1, <1>4, <2>4 DEF Only
  <2> QED
    BY <1>2, <2>1, <2>2, <2>4, <2>5 DEF Outstanding
<1>6. inbox \in [Node -> Seq(Message)]
  BY <1>2 DEF TypeOK
<1>7. inbox' \in [Node -> Seq(Message)]
  BY <1>1, <1>4, <1>6, Consumed
<1>8. Silent'
  <2>1. PICK x : Only(Proxy, x)
    BY <1>5
  <2>2. Tail(<<x>>) = << >>
    OBVIOUS
  <2> QED
    BY <1>1, <1>4, <1>6, <2>1, <2>2 DEF Silent, Only, Consume
<1>9. TypeOK'
  <2>1. var' \in 0 .. noOfHops
    BY <1>1, <1>2
  <2> QED
    BY <1>1, <1>2, <1>7, <2>1 DEF TypeOK, routerVars
<1>10. HopsChosen'
  BY <1>1, <1>2 DEF HopsChosen
<1>11. BystandersUntouched'
  BY <1>1, <1>2, <1>8, Numbers DEF BystandersUntouched, OnPath, Silent, routerVars
<1>12. BuildInv'
  <2>1. Placed(var)'
    <3>1. PICK k : k = var + 1
      OBVIOUS
    <3>2. Placed(k)'
      BY <1>1, <1>5, <3>1, PlacedKept DEF routerVars
    <3> QED
      BY <1>1, <3>1, <3>2
  <2> QED
    BY <1>1, <1>3, <1>8, <2>1 DEF BuildInv, routerVars
<1>13. RelayInv'
  BY <1>1 DEF RelayInv, Building
<1> QED
  BY <1>9, <1>10, <1>11, <1>12, <1>13 DEF CircuitInv

\* The circuit is complete: what RelayInv says of queues holds of empty ones.
LEMMA TunnelStep ==
  ASSUME CircuitInv, OpenTunnel \/ OpenTunnelFails
  PROVE  CircuitInv'
<1>1. /\ phase = "built" /\ phase' \in {"relay", "exited"} /\ faults' \in 0 .. MaxFaults
      /\ UNCHANGED <<s, myCctHops, var, sendToAddress, tun, delivered, routerVars, inbox,
                     world, pinged>>
  BY PlainAssumption DEF OpenTunnel, OpenTunnelFails, CircuitInv, TypeOK, PlainAssumption
<1>2. /\ TypeOK /\ HopsChosen /\ BystandersUntouched /\ Silent /\ Placed(noOfHops)
      /\ HopsAre(myCctHops)
  BY <1>1, PathFacts DEF CircuitInv, BuildInv, HopsChosen
<1>3. /\ tun = << >> /\ delivered = << >> /\ world = {}
      /\ \A r \in Router : raw[r] = << >>
  BY <1>1 DEF CircuitInv, BuildInv, Building
<1>4. TypeOK'
  BY <1>1, <1>2 DEF TypeOK, routerVars
<1>5. HopsChosen'
  BY <1>1, <1>2 DEF HopsChosen
<1>6. BystandersUntouched'
  BY <1>1, <1>2 DEF BystandersUntouched, OnPath, routerVars
<1>7. BuildInv'
  BY <1>1 DEF BuildInv, Building
<1>8. RelayInv'
  <2>1. Placed(noOfHops)'
    BY <1>1, <1>2, PlacedKept DEF routerVars
  <2>2. \A e \in Node : inbox'[e] = << >>
    BY <1>1, <1>2 DEF Silent
  <2>3. \A i \in 1 .. noOfHops : myCctHops'[i] \in Node
    BY <1>1, <1>2, Numbers DEF HopsAre
  <2> QED
    BY <1>1, <1>3, <2>1, <2>2, <2>3, EmptyQueue, Numbers
       DEF RelayInv, RepliesReachEth0, routerVars
<1> QED
  BY <1>4, <1>5, <1>6, <1>7, <1>8 DEF CircuitInv

-----------------------------------------------------------------------------
(* The routers build the circuit.                                          *)

\* A router that handles a datagram of the building phase leaves at most one
\* behind, and then at a hop or at the proxy: bystanders see nothing of it.
LEMMA BuildingHandled ==
  ASSUME CircuitInv, phase = "await", NEW r \in Router, OnPath(r), NEW x, Only(r, x),
         NEW d \in Node, d = Proxy \/ OnPath(d), NEW m \in Message, RouterSends(r, TRUE, d, m),
         UNCHANGED <<s, myCctHops, var, sendToAddress, tun, delivered, world, pinged, faults>>,
         entry' \in [Router -> CircuitInfoEntry], TO_FORWARD' \in [Router -> BOOLEAN],
         \A e \in Router : e # r => entry'[e] = entry[e] /\ TO_FORWARD'[e] = TO_FORWARD[e],
         Outstanding'
  PROVE  CircuitInv'
<1>1. /\ TypeOK /\ HopsChosen /\ BystandersUntouched
      /\ tun = << >> /\ delivered = << >> /\ world = {}
      /\ \A e \in Router : raw[e] = << >>
  BY DEF CircuitInv, BuildInv, Building
<1>2. inbox[r] # << >>
  <2>1. <<x>> # << >> /\ r \in Node
    BY Numbers
  <2> QED
    BY <2>1 DEF Only
<1>3. UNCHANGED <<up, raw, phase>> /\ inbox' \in [Node -> Seq(Message)]
  BY <1>1, <1>2, Handled
<1>4. \/ \A e \in Node : inbox'[e] = << >>
      \/ \A e \in Node : inbox'[e] = IF e = d THEN <<m>> ELSE << >>
  BY <1>1, HandledAlone DEF Silent, Only
<1>5. TypeOK'
  BY <1>1, <1>3 DEF TypeOK
<1>6. HopsChosen'
  BY <1>1, <1>3 DEF HopsChosen
<1>7. BystandersUntouched'
  <2>1. \A e \in Router : ~ OnPath(e) => e # d /\ e # r
    BY Numbers
  <2> QED
    BY <1>1, <1>3, <1>4, <2>1, Numbers DEF BystandersUntouched, OnPath
<1>8. BuildInv'
  BY <1>1, <1>3 DEF BuildInv
<1>9. RelayInv'
  BY <1>3 DEF RelayInv, Building
<1> QED
  BY <1>5, <1>6, <1>7, <1>8, <1>9 DEF CircuitInv

\* The hops, and the nodes before them, are on the path.
LEMMA HopsOnPath ==
  ASSUME CircuitInv, phase # "start", NEW i \in 1 .. noOfHops
  PROVE  /\ OnPath(myCctHops[i])
         /\ PrevHop(i) = Proxy \/ OnPath(PrevHop(i))
<1>1. HopsAre(myCctHops) /\ i \in 1 .. noOfHops + 1 /\ (i # 1 => i - 1 \in 1 .. noOfHops + 1)
  BY PathFacts, Numbers
<1> QED
  BY <1>1 DEF OnPath, PrevHop, HopsAre

LEMMA NewExtendStep ==
  ASSUME CircuitInv, NEW r \in Router, NewExtend(r)
  PROVE  CircuitInv'
<1>1. PICK m : m = Head(inbox[r])
  OBVIOUS
<1>2. /\ inbox[r] # << >> /\ m.cmd = "CIRCUIT_EXTEND" /\ ~ TO_FORWARD[r]
      /\ entry' = [entry EXCEPT ![r] = NewEntry(r, m)]
      /\ TO_FORWARD' = [TO_FORWARD EXCEPT ![r] = TRUE]
      /\ RouterSends(r, TRUE, m.from, DoneMsg(r, m.cid))
      /\ UNCHANGED <<s, myCctHops, var, sendToAddress, tun, delivered, world, pinged, faults>>
  BY <1>1 DEF NewExtend, Receives
<1>3. PICK i \in 1 .. noOfHops :
        /\ r = myCctHops[i] /\ phase = "await" /\ Placed(var) /\ i <= var + 1 /\ Only(r, m)
        /\ m = ExtendMsg(PrevHop(i), htons(GivenAt(i)), myCctHops[var + 2])
  BY <1>1, <1>2, HeadMessage
<1>4. /\ HopsAre(myCctHops) /\ var \in Int /\ 0 <= var /\ noOfHops \in Int /\ r \in Node
      /\ TypeOK /\ phase # "start"
  BY <1>3, PathFacts, Numbers DEF CircuitInv
<1>5. i = var + 1 /\ i + 1 = var + 2
  <2>1. i <= var => TO_FORWARD[r]
    BY <1>3 DEF Placed, InPlace
  <2> QED
    BY <1>2, <1>3, <1>4, <2>1
<1>6. /\ PrevHop(i) \in Node /\ GivenAt(i) \in Word /\ htons(GivenAt(i)) \in Word
       /\ htons(htons(GivenAt(i))) = GivenAt(i)
       /\ MyCircuitID(GivenAt(i), r) \in Word /\ myCctHops[i + 1] \in HopPort
  BY <1>3, PathFacts, HtonsType, HtonsInvolution, MyCircuitIDType
<1>7. /\ m.from = PrevHop(i) /\ m.cid = htons(GivenAt(i)) /\ m.next = myCctHops[i + 1]
  BY <1>3, <1>5 DEF ExtendMsg
<1>8. PICK e : e = NewEntry(r, m)
  OBVIOUS
<1>9. /\ e \in CircuitInfoEntry
       /\ e.circuitRequesterAddr = PrevHop(i) /\ e.givenCicuitID = GivenAt(i)
       /\ e.myCircuitID = MyCircuitID(GivenAt(i), r) /\ e.nextHop = myCctHops[i + 1]
  <2>1. entry[r] \in CircuitInfoEntry
    BY <1>4 DEF TypeOK
  <2> QED
    BY <1>6, <1>7, <1>8, <2>1 DEF NewEntry, CircuitInfoEntry
<1>10. /\ entry' \in [Router -> CircuitInfoEntry] /\ TO_FORWARD' \in [Router -> BOOLEAN]
       /\ entry'[r] = e /\ TO_FORWARD'[r]
       /\ \A o \in Router : o # r => entry'[o] = entry[o] /\ TO_FORWARD'[o] = TO_FORWARD[o]
  BY <1>2, <1>4, <1>8, <1>9 DEF TypeOK
<1>11. Placed(var + 1)'
  <2>1. \A j \in 1 .. noOfHops : j # i => myCctHops[j] # r /\ myCctHops[j] \in Router
    BY <1>3, <1>4 DEF HopsAre
  <2>2. \A j \in 1 .. noOfHops : PrevHop(j)' = PrevHop(j)
    BY <1>2 DEF PrevHop
  <2>3. \A j \in 1 .. noOfHops : j <= i => GivenAt(j)' = GivenAt(j)
    <3>1. \A j \in 1 .. noOfHops : j <= i /\ j # 1 => j - 1 \in 1 .. noOfHops /\ j - 1 # i
      BY <1>4
    <3> QED
      BY <1>2, <1>10, <2>1, <3>1 DEF GivenAt, CircuitID
  <2>4. InPlace(i)'
    BY <1>2, <1>3, <1>4, <1>9, <1>10, <2>2, <2>3 DEF InPlace
  <2>5. ASSUME NEW j \in 1 .. noOfHops, j < i
        PROVE  InPlace(j)'
    <3>1. InPlace(j) /\ j # i
      BY <1>3, <1>4, <1>5, <2>5 DEF Placed
    <3> QED
      BY <1>2, <1>4, <1>10, <2>1, <2>2, <2>3, <2>5, <3>1 DEF InPlace
  <2>6. ASSUME NEW j \in 1 .. noOfHops, j > i
        PROVE  entry'[myCctHops[j]] = ZeroEntry /\ ~ TO_FORWARD'[myCctHops[j]]
    <3>1. ~ (j <= var) /\ j # i
      BY <1>4, <1>5, <2>6
    <3>2. entry[myCctHops[j]] = ZeroEntry /\ ~ TO_FORWARD[myCctHops[j]]
      BY <1>3, <3>1 DEF Placed
    <3> QED
      BY <1>10, <2>1, <3>1, <3>2
  <2>7. \A j \in 1 .. noOfHops : j < i \/ j = i \/ j > i
    BY <1>4
  <2>8. \A j \in 1 .. noOfHops : j <= var + 1 <=> j < i \/ j = i
    BY <1>4, <1>5
  <2> QED
    BY <1>2, <1>4, <2>4, <2>5, <2>6, <2>7, <2>8 DEF Placed
<1>12. Silent' \/ DoneBack(i)'
  <2>1. PICK d : d = PrevHop(i)
    OBVIOUS
  <2>2. DoneMsg(r, m.cid) \in Message /\ d \in Node /\ RouterSends(r, TRUE, d, DoneMsg(r, m.cid))
    BY <1>2, <1>4, <1>6, <1>7, <2>1, MessageTypes
  <2>3. Silent' \/ Only(d, DoneMsg(r, m.cid))'
    BY <1>3, <1>4, <2>2, HandledAlone
  <2>4. PrevHop(i)' = d /\ myCctHops'[i] = r /\ m.cid \in Word
    BY <1>2, <1>3, <1>6, <1>7, <2>1 DEF PrevHop
  <2> QED
    BY <2>3, <2>4 DEF DoneBack, Only
<1>13. Outstanding'
  <2>1. i \in 1 .. var' + 1
    BY <1>2, <1>4, <1>5
  <2> QED
    BY <1>11, <1>12, <2>1 DEF Outstanding
<1>14. PICK d \in Node, a \in Message :
         /\ OnPath(r) /\ (d = Proxy \/ OnPath(d)) /\ RouterSends(r, TRUE, d, a)
  BY <1>2, <1>3, <1>4, <1>6, <1>7, HopsOnPath, MessageTypes
<1>15. /\ phase = "await" /\ Only(r, m)
       /\ UNCHANGED <<s, myCctHops, var, sendToAddress, tun, delivered, world, pinged, faults>>
  BY <1>2, <1>3
<1> QED
  BY <1>10, <1>13, <1>14, <1>15, BuildingHandled

\* An extend message that finds the entry taken goes on to the next hop.
LEMMA ForwardExtendStep ==
  ASSUME CircuitInv, NEW r \in Router, ForwardExtend(r)
  PROVE  CircuitInv'
<1>1. PICK m : m = Head(inbox[r])
  OBVIOUS
<1>2. /\ inbox[r] # << >> /\ m.cmd = "CIRCUIT_EXTEND" /\ TO_FORWARD[r]
      /\ RouterSends(r, TRUE, entry[r].nextHop, ExtendOnward(r, m))
      /\ UNCHANGED <<s, myCctHops, var, sendToAddress, tun, delivered, entry, TO_FORWARD,
                     world, pinged, faults>>
  BY <1>1 DEF ForwardExtend, Receives
<1>3. PICK i \in 1 .. noOfHops :
        /\ r = myCctHops[i] /\ phase = "await" /\ Placed(var) /\ i <= var + 1 /\ Only(r, m)
        /\ m = ExtendMsg(PrevHop(i), htons(GivenAt(i)), myCctHops[var + 2])
  BY <1>1, <1>2, HeadMessage
<1>4. /\ HopsAre(myCctHops) /\ var \in Int /\ 0 <= var /\ noOfHops \in Int /\ r \in Node
      /\ TypeOK /\ phase # "start" /\ var < noOfHops
  BY <1>3, PathFacts, Numbers DEF CircuitInv, HopsChosen
<1>5. i <= var /\ InPlace(i)
  <2>1. ~ (i <= var) => ~ TO_FORWARD[r]
    BY <1>3 DEF Placed
  <2> QED
    BY <1>2, <1>3, <2>1 DEF Placed
<1>6. i + 1 \in 1 .. noOfHops /\ i + 1 \in 1 .. var + 1 /\ (i + 1) - 1 = i /\ i + 1 # 1
  BY <1>4, <1>5
<1>7. /\ r = PrevHop(i + 1) /\ entry[r].myCircuitID = GivenAt(i + 1)
      /\ entry[r].nextHop = myCctHops[i + 1]
  BY <1>3, <1>5, <1>6 DEF PrevHop, GivenAt, InPlace
<1>8. PICK d, a : d = myCctHops[i + 1]
                  /\ a = ExtendMsg(PrevHop(i + 1), htons(GivenAt(i + 1)), myCctHops[var + 2])
  OBVIOUS
<1>9. RouterSends(r, TRUE, d, a)
  BY <1>2, <1>3, <1>7, <1>8 DEF ExtendOnward, ExtendMsg
<1>10. /\ OnPath(r) /\ OnPath(d) /\ d \in Node /\ a \in Message
  <2>1. var + 1 \in 1 .. noOfHops /\ (var + 1) + 1 = var + 2
    BY <1>4
  <2>2. myCctHops[var + 2] \in HopPort
    BY <1>4, <2>1, PathFacts
  <2>3. PrevHop(i + 1) \in Node /\ htons(GivenAt(i + 1)) \in Word /\ myCctHops[i + 1] \in Node
    BY <1>4, <1>6, PathFacts, HtonsType
  <2> QED
    BY <1>3, <1>4, <1>6, <1>8, <2>2, <2>3, HopsOnPath, MessageTypes
<1>11. Silent' \/ Only(d, a)'
  BY <1>3, <1>4, <1>9, <1>10, HandledAlone
<1>12. Placed(var)'
  <2>1. PICK k : k = var
    OBVIOUS
  <2>2. Placed(k)'
    BY <1>2, <1>3, <2>1, PlacedKept
  <2> QED
    BY <1>2, <2>1, <2>2
<1>13. Outstanding'
  <2>1. Only(d, a)' => ExtendOut(i + 1)'
    <3>1. myCctHops'[i + 1] = d
          /\ ExtendMsg(PrevHop(i + 1), htons(GivenAt(i + 1)), myCctHops[var + 2])' = a
      BY <1>2, <1>8 DEF PrevHop, GivenAt, CircuitID, ExtendMsg
    <3> QED
      BY <3>1 DEF ExtendOut, Only
  <2>2. i + 1 \in 1 .. var' + 1
    BY <1>2, <1>6
  <2> QED
    BY <1>11, <1>12, <2>1, <2>2 DEF Outstanding
<1>14. /\ entry' \in [Router -> CircuitInfoEntry] /\ TO_FORWARD' \in [Router -> BOOLEAN]
       /\ \A e \in Router : e # r => entry'[e] = entry[e] /\ TO_FORWARD'[e] = TO_FORWARD[e]
       /\ phase = "await" /\ Only(r, m)
       /\ UNCHANGED <<s, myCctHops, var, sendToAddress, tun, delivered, world, pinged, faults>>
  BY <1>2, <1>3, <1>4 DEF TypeOK
<1> QED
  BY <1>9, <1>10, <1>13, <1>14, BuildingHandled

\* An answer goes one hop towards the proxy.
LEMMA ForwardDoneStep ==
  ASSUME CircuitInv, NEW r \in Router, ForwardDone(r)
  PROVE  CircuitInv'
<1>1. PICK m : m = Head(inbox[r])
  OBVIOUS
<1>2. /\ inbox[r] # << >> /\ m.cmd = "CIRCUIT_EXTEND_DONE"
      /\ RouterSends(r, IsBare(m), entry[r].circuitRequesterAddr, DoneMsg(r, m.cid))
      /\ UNCHANGED <<s, myCctHops, var, sendToAddress, tun, delivered, entry, TO_FORWARD,
                     world, pinged, faults>>
  BY <1>1 DEF ForwardDone, Receives
<1>3. PICK i \in 1 .. noOfHops :
        /\ r = myCctHops[i] /\ phase = "await" /\ Placed(var + 1) /\ i <= var /\ Only(r, m)
        /\ \E c \in Word : m = DoneMsg(myCctHops[i + 1], c)
  BY <1>1, <1>2, HeadMessage
<1>4. /\ HopsAre(myCctHops) /\ var \in Int /\ 0 <= var /\ noOfHops \in Int /\ r \in Node
      /\ TypeOK /\ phase # "start"
  BY <1>3, PathFacts, Numbers DEF CircuitInv
<1>5. i <= var + 1 /\ i \in 1 .. var + 1
  BY <1>3, <1>4
<1>6. entry[r].circuitRequesterAddr = PrevHop(i) /\ m.cid \in Word
  BY <1>3, <1>5 DEF Placed, InPlace, DoneMsg
<1>7. PICK d, a : d = PrevHop(i) /\ a = DoneMsg(r, m.cid)
  OBVIOUS
<1>8. /\ RouterSends(r, TRUE, d, a) /\ OnPath(r) /\ (d = Proxy \/ OnPath(d))
      /\ d \in Node /\ a \in Message
  <2>1. RouterSends(r, TRUE, d, a)
    BY <1>2, <1>3, <1>6, <1>7, DoneIsBare, Asserted
  <2> QED
    BY <1>3, <1>4, <1>6, <1>7, <2>1, PathFacts, HopsOnPath, MessageTypes
<1>9. Silent' \/ Only(d, a)'
  BY <1>3, <1>4, <1>8, HandledAlone
<1>10. Placed(var + 1)'
  <2>1. PICK k : k = var + 1
    OBVIOUS
  <2>2. Placed(k)'
    BY <1>2, <1>3, <2>1, PlacedKept
  <2> QED
    BY <1>2, <2>1, <2>2
<1>11. Outstanding'
  <2>1. Only(d, a)' => DoneBack(i)'
    <3>1. PrevHop(i)' = d /\ myCctHops'[i] = r
      BY <1>2, <1>3, <1>7 DEF PrevHop
    <3> QED
      BY <1>6, <1>7, <3>1 DEF DoneBack, Only
  <2> QED
    BY <1>2, <1>5, <1>9, <1>10, <2>1 DEF Outstanding
<1>12. /\ entry' \in [Router -> CircuitInfoEntry] /\ TO_FORWARD' \in [Router -> BOOLEAN]
       /\ \A e \in Router : e # r => entry'[e] = entry[e] /\ TO_FORWARD'[e] = TO_FORWARD[e]
       /\ phase = "await" /\ Only(r, m)
       /\ UNCHANGED <<s, myCctHops, var, sendToAddress, tun, delivered, world, pinged, faults>>
  BY <1>2, <1>3, <1>4 DEF TypeOK
<1> QED
  BY <1>8, <1>11, <1>12, BuildingHandled

-----------------------------------------------------------------------------
(* The circuit relays.                                                     *)

\* The parts of the invariant by the variable they are about.
RawOK ==
  /\ raw \in [Router -> Seq(Packet \cup IcmpError)]
  /\ \A r \in Router : \A n \in DOMAIN raw[r] : raw[r][n].type \in {"reply", "error"}
  /\ \A r \in Router : raw[r] # << >> => r = myCctHops[noOfHops]
WorldOK ==
  /\ world \subseteq Packet
  /\ \A q \in world : q.type = "request" /\ q.saddr = Eth(myCctHops[noOfHops])
TunOK ==
  /\ tun \in Seq(Packet)
  /\ \A n \in DOMAIN tun : tun[n].type = "request" /\ tun[n].saddr = Eth(0)
DeliveredOK ==
  delivered \in Seq(Packet \cup {NoPacket}) /\ RepliesReachEth0
CountsOK ==
  /\ up \subseteq Router /\ faults \in 0 .. MaxFaults
  /\ pinged \in Seq(Host) /\ Len(pinged) <= MaxPings

LEMMA RelayFacts ==
  ASSUME CircuitInv, ~ Building
  PROVE  /\ phase \in {"relay", "exited"} /\ phase # "start"
         /\ HopsAre(myCctHops) /\ Placed(noOfHops) /\ TypeOK
         /\ RawOK /\ WorldOK /\ TunOK /\ DeliveredOK /\ CountsOK
<1>1. phase \in {"relay", "exited"} /\ phase # "start"
  BY DEF CircuitInv, TypeOK, Building
<1>2. HopsAre(myCctHops)
  BY <1>1, PathFacts
<1> QED
  BY <1>1, <1>2 DEF CircuitInv, TypeOK, RelayInv, BystandersUntouched, RawOK, WorldOK, TunOK,
                    DeliveredOK, CountsOK

\* The queues after a step: what was there before, and m at d.
Adds(d, m) ==
  /\ inbox' \in [Node -> Seq(Message)]
  /\ \A e \in Node : \A n \in DOMAIN inbox'[e] :
       \/ \E k \in DOMAIN inbox[e] : inbox'[e][n] = inbox[e][k]
       \/ e = d /\ inbox'[e][n] = m
  /\ \A e \in Node : e # d /\ inbox[e] = << >> => inbox'[e] = << >>

\* A datagram that fits the place where it arrives.
Expected(d, m) ==
  \/ d = Proxy /\ HomeOK(m)
  \/ \E j \in 1 .. noOfHops : d = myCctHops[j] /\ (FwdOK(j, m) \/ BackOK(j, m))

\* What a step of the relaying circuit has to respect.
LEMMA RelayingStep ==
  ASSUME CircuitInv, ~ Building, phase' \in {"relay", "exited"},
         UNCHANGED <<s, myCctHops, var, TO_FORWARD>>,
         sendToAddress' = sendToAddress \/ sendToAddress' = myCctHops[1],
         entry' \in [Router -> CircuitInfoEntry],
         \A e \in Router :
           /\ entry'[e].circuitRequesterAddr = entry[e].circuitRequesterAddr
           /\ entry'[e].givenCicuitID = entry[e].givenCicuitID
           /\ entry'[e].myCircuitID = entry[e].myCircuitID
           /\ entry'[e].nextHop = entry[e].nextHop
           /\ ~ OnPath(e) => entry'[e] = entry[e],
         NEW d, NEW m, Adds(d, m), d \in Node => Expected(d, m),
         RawOK', WorldOK', TunOK', DeliveredOK', CountsOK'
  PROVE  CircuitInv'
<1>1. /\ phase \in {"relay", "exited"} /\ HopsAre(myCctHops) /\ Placed(noOfHops) /\ TypeOK
      /\ HopsChosen /\ BystandersUntouched /\ RelayInv
  BY RelayFacts DEF CircuitInv
<1>2. sendToAddress' = myCctHops[1] /\ myCctHops[1] \in Router
  BY <1>1, Numbers DEF HopsChosen, HopsAre
<1>3. TypeOK'
  BY <1>1, <1>2 DEF TypeOK, Adds, RawOK, WorldOK, TunOK, DeliveredOK, CountsOK
<1>4. HopsChosen'
  BY <1>1, <1>2 DEF HopsChosen
<1>5. BystandersUntouched'
  <2>1. ASSUME NEW e \in Router, ~ OnPath(e)
        PROVE  inbox'[e] = << >>
    <3>1. e \in Node /\ e # Proxy
      BY Numbers
    <3>2. \A j \in 1 .. noOfHops : OnPath(myCctHops[j])
      BY <1>1, HopsOnPath
    <3>3. e # d
      BY <2>1, <3>1, <3>2 DEF Expected
    <3> QED
      BY <1>1, <2>1, <3>1, <3>3 DEF BystandersUntouched, Adds
  <2> QED
    <3>1. OnPath(myCctHops[noOfHops])
      BY <1>1, HopsOnPath, Numbers
    <3> QED
      BY <1>1, <2>1, <3>1 DEF BystandersUntouched, OnPath, RawOK
<1>6. BuildInv'
  BY DEF BuildInv, Building
<1>7. /\ Placed(noOfHops)'
      /\ \A j \in 1 .. noOfHops : PrevHop(j)' = PrevHop(j) /\ GivenAt(j)' = GivenAt(j)
  <2>1. \A j \in 1 .. noOfHops : PrevHop(j)' = PrevHop(j)
    BY DEF PrevHop
  <2>2. \A j \in 1 .. noOfHops : myCctHops[j] \in Router /\ (j # 1 => j - 1 \in 1 .. noOfHops)
    BY <1>1, Numbers DEF HopsAre
  <2>3. \A j \in 1 .. noOfHops : GivenAt(j)' = GivenAt(j)
    BY <2>2 DEF GivenAt, CircuitID
  <2>4. \A j \in 1 .. noOfHops : j <= noOfHops
    BY Numbers
  <2> QED
    BY <1>1, <2>1, <2>2, <2>3, <2>4 DEF Placed, InPlace
<1>8. ASSUME NEW i \in 1 .. noOfHops, NEW n \in DOMAIN inbox'[myCctHops[i]]
      PROVE  FwdOK(i, inbox[myCctHops[i]][n])' \/ BackOK(i, inbox[myCctHops[i]][n])'
  <2>1. PICK x : x = inbox'[myCctHops[i]][n]
    OBVIOUS
  <2>2. myCctHops[i] \in Node /\ myCctHops[i] \in Router /\ myCctHops[i] # Proxy
    BY <1>1, Numbers DEF HopsAre
  <2>3. FwdOK(i, x) \/ BackOK(i, x)
    <3>1. \A k \in DOMAIN inbox[myCctHops[i]] :
            FwdOK(i, inbox[myCctHops[i]][k]) \/ BackOK(i, inbox[myCctHops[i]][k])
      BY <1>1 DEF RelayInv
    <3>2. CASE \E k \in DOMAIN inbox[myCctHops[i]] : x = inbox[myCctHops[i]][k]
      BY <3>2, <3>1
    <3>3. CASE myCctHops[i] = d /\ x = m
      BY <1>1, <2>2, <3>3 DEF Expected, HopsAre
    <3> QED
      BY <2>1, <2>2, <3>2, <3>3 DEF Adds
  <2> QED
    BY <1>7, <2>1, <2>2, <2>3 DEF FwdOK, BackOK
<1>9. \A n \in DOMAIN inbox'[Proxy] : HomeOK(inbox[Proxy][n])'
  <2>1. ASSUME NEW n \in DOMAIN inbox'[Proxy]
        PROVE  HomeOK(inbox'[Proxy][n])
    <3>1. CASE \E k \in DOMAIN inbox[Proxy] : inbox'[Proxy][n] = inbox[Proxy][k]
      BY <1>1, <3>1 DEF RelayInv
    <3>2. CASE Proxy = d /\ inbox'[Proxy][n] = m
      <4>1. \A j \in 1 .. noOfHops : myCctHops[j] # Proxy
        BY <1>1, Numbers DEF HopsAre
      <4> QED
        BY <3>2, <4>1, Numbers DEF Expected
    <3> QED
      BY <2>1, <3>1, <3>2, Numbers DEF Adds
  <2> QED
    BY <2>1 DEF HomeOK
<1>10. RelayInv'
  BY <1>7, <1>8, <1>9 DEF RelayInv, RawOK, WorldOK, TunOK, DeliveredOK
<1> QED
  BY <1>3, <1>4, <1>5, <1>6, <1>10 DEF CircuitInv

\* Ways to change the queues.
LEMMA AddsNothing ==
  ASSUME TypeOK, UNCHANGED inbox
  PROVE  Adds(NoAddress, 0)
BY Numbers DEF Adds, TypeOK

LEMMA AddsByConsuming ==
  ASSUME TypeOK, NEW r \in Node, inbox[r] # << >>, inbox' = Consume(inbox, r)
  PROVE  Adds(NoAddress, 0)
<1> DEFINE q == inbox
           z == Consume(q, r)
<1>1. q \in [Node -> Seq(Message)] /\ q[r] # << >>
  BY DEF TypeOK
<1>2. /\ z \in [Node -> Seq(Message)]
      /\ \A e \in Node : e # r => z[e] = q[e]
      /\ \A n \in DOMAIN z[r] : n + 1 \in DOMAIN q[r] /\ z[r][n] = q[r][n + 1]
  BY <1>1, Consumed
<1>3. inbox' = z
  OBVIOUS
<1> HIDE DEF z
<1>4. \A e \in Node : \A n \in DOMAIN z[e] : \E k \in DOMAIN q[e] : z[e][n] = q[e][k]
  BY <1>2
<1>5. \A e \in Node : q[e] = << >> => z[e] = << >>
  BY <1>1, <1>2
<1> QED
  BY <1>2, <1>3, <1>4, <1>5 DEF Adds

LEMMA AddsBySending ==
  ASSUME TypeOK, NEW d \in Node, NEW m \in Message, inbox' = Sent(inbox, d, m)
  PROVE  Adds(d, m)
<1>1. inbox \in [Node -> Seq(Message)]
  BY DEF TypeOK
<1>2. /\ inbox' \in [Node -> Seq(Message)]
      /\ \A e \in Node : e # d => inbox'[e] = inbox[e]
      /\ \A n \in DOMAIN inbox'[d] :
           (n \in DOMAIN inbox[d] /\ inbox'[d][n] = inbox[d][n]) \/ inbox'[d][n] = m
  BY <1>1, Arrives
<1>3. PICK q, z : q = inbox /\ z = inbox'
  OBVIOUS
<1>4. /\ \A e \in Node : e # d => z[e] = q[e]
      /\ \A n \in DOMAIN z[d] : (n \in DOMAIN q[d] /\ z[d][n] = q[d][n]) \/ z[d][n] = m
  BY <1>2, <1>3
<1>5. \A e \in Node : \A n \in DOMAIN z[e] :
        (\E k \in DOMAIN q[e] : z[e][n] = q[e][k]) \/ (e = d /\ z[e][n] = m)
  BY <1>4
<1> QED
  BY <1>2, <1>3, <1>5 DEF Adds

LEMMA AddsByHandling ==
  ASSUME TypeOK, NEW r \in Router, inbox[r] # << >>, NEW d \in Node, NEW m \in Message,
         RouterSends(r, TRUE, d, m)
  PROVE  Adds(d, m) /\ UNCHANGED <<up, raw, phase>>
BY Handled DEF Adds

\* Sequences.
LEMMA Appended ==
  ASSUME NEW S, NEW q \in Seq(S), NEW x \in S
  PROVE  /\ Append(q, x) \in Seq(S)
         /\ \A n \in DOMAIN Append(q, x) :
              (n \in DOMAIN q /\ Append(q, x)[n] = q[n]) \/ Append(q, x)[n] = x
OBVIOUS

LEMMA Shortened ==
  ASSUME NEW S, NEW q \in Seq(S), q # << >>
  PROVE  /\ Tail(q) \in Seq(S) /\ Head(q) \in S
         /\ 1 \in DOMAIN q /\ Head(q) = q[1]
         /\ \A n \in DOMAIN Tail(q) : n + 1 \in DOMAIN q /\ Tail(q)[n] = q[n + 1]
OBVIOUS

LEMMA UserPingsStep ==
  ASSUME CircuitInv, NEW h \in Host, UserPings(h)
  PROVE  CircuitInv'
<1>1. PICK p : p = [id |-> Len(pinged) + 1, type |-> "request", saddr |-> Eth(0), daddr |-> h]
  OBVIOUS
<1>2. /\ phase = "relay" /\ Len(pinged) < MaxPings
      /\ pinged' = Append(pinged, h) /\ tun' = Append(tun, p)
      /\ UNCHANGED <<phase, s, myCctHops, var, sendToAddress, delivered, routerVars, inbox,
                     world, faults>>
  BY <1>1 DEF UserPings
<1>3. ~ Building /\ TypeOK /\ RawOK /\ WorldOK /\ TunOK /\ DeliveredOK /\ CountsOK
  BY <1>2, RelayFacts DEF Building
<1>4. p \in Packet /\ p.type = "request" /\ p.saddr = Eth(0)
  <2>1. Len(pinged) \in Nat /\ Len(pinged) + 1 \in 1 .. MaxPings
    BY <1>2, <1>3, PlainAssumption DEF CountsOK, PlainAssumption
  <2>2. Eth(0) \in IP /\ h \in IP
    BY Numbers DEF IP, Proxy
  <2> QED
    BY <1>1, <2>1, <2>2 DEF Packet, Ping
<1>5. TunOK'
  BY <1>2, <1>3, <1>4, Appended DEF TunOK
<1>6. CountsOK'
  <2>1. \A q \in Seq(Host) : Append(q, h) \in Seq(Host) /\ Len(Append(q, h)) = Len(q) + 1
                             /\ Len(q) \in Nat
    OBVIOUS
  <2> QED
    BY <1>2, <1>3, <2>1, PlainAssumption DEF CountsOK, routerVars, PlainAssumption
<1>7. RawOK' /\ WorldOK' /\ DeliveredOK'
  BY <1>2, <1>3 DEF RawOK, WorldOK, DeliveredOK, RepliesReachEth0, OnPath, routerVars
<1>8. Adds(NoAddress, 0) /\ NoAddress \notin Node
  BY <1>2, <1>3, AddsNothing, Numbers
<1>9. entry' \in [Router -> CircuitInfoEntry]
  BY <1>2, <1>3 DEF TypeOK, routerVars
<1> QED
  BY <1>2, <1>3, <1>5, <1>6, <1>7, <1>8, <1>9, RelayingStep DEF routerVars

LEMMA TunnelReadStep ==
  ASSUME CircuitInv, TunnelRead
  PROVE  CircuitInv'
<1>1. PICK p, d, m : /\ p = Head(tun) /\ d = myCctHops[1]
                     /\ m = RelayMsg(Proxy, "RELAY_THIS_DATA_FWD", CircuitID, p)
  OBVIOUS
<1>2. /\ phase = "relay" /\ tun # << >>
      /\ tun' = Tail(tun) /\ sendToAddress' = myCctHops[1] /\ inbox' = Sent(inbox, d, m)
      /\ UNCHANGED <<phase, s, myCctHops, var, delivered, routerVars, world, pinged, faults>>
  BY <1>1 DEF TunnelRead
<1>3. ~ Building /\ TypeOK /\ RawOK /\ WorldOK /\ TunOK /\ DeliveredOK /\ CountsOK /\ phase # "start"
  BY <1>2, RelayFacts DEF Building
<1>4. p \in Packet /\ p.type = "request" /\ p.saddr = Eth(0) /\ TunOK'
  <2>1. tun \in Seq(Packet)
    BY <1>3 DEF TunOK
  <2> QED
    BY <1>1, <1>2, <1>3, <2>1, Shortened DEF TunOK
<1>5. d \in Node /\ CircuitID \in Word /\ 1 \in 1 .. noOfHops /\ m \in Message
  <2>1. d \in Node /\ CircuitID \in Word /\ 1 \in 1 .. noOfHops /\ Proxy \in Node
    BY <1>1, <1>3, PathFacts, Numbers
  <2> QED
    BY <1>1, <1>4, <2>1, MessageTypes
<1>6. Expected(d, m)
  <2>1. FwdOK(1, m)
    BY <1>1, <1>4, <1>5, HtonsInvolution DEF FwdOK, RelayMsg, PrevHop, GivenAt, Proxy
  <2> QED
    BY <1>1, <1>5, <2>1 DEF Expected
<1>7. RawOK' /\ WorldOK' /\ DeliveredOK' /\ CountsOK'
  BY <1>2, <1>3 DEF RawOK, WorldOK, DeliveredOK, RepliesReachEth0, CountsOK, OnPath, routerVars
<1>8. Adds(d, m)
  BY <1>2, <1>3, <1>5, AddsBySending
<1>9. entry' \in [Router -> CircuitInfoEntry]
  BY <1>2, <1>3 DEF TypeOK, routerVars
<1> QED
  BY <1>2, <1>3, <1>4, <1>6, <1>7, <1>8, <1>9, RelayingStep DEF routerVars

LEMMA SocketReadStep ==
  ASSUME CircuitInv, SocketRead
  PROVE  CircuitInv'
<1>1. PICK m : m = Head(inbox[Proxy])
  OBVIOUS
<1>2. /\ phase = "relay" /\ inbox[Proxy] # << >>
      /\ inbox' = Consume(inbox, Proxy) /\ delivered' = Append(delivered, m.pkt)
      /\ UNCHANGED <<phase, s, myCctHops, var, sendToAddress, tun, routerVars, world,
                     pinged, faults>>
  BY <1>1 DEF SocketRead
<1>3. ~ Building /\ TypeOK /\ RawOK /\ WorldOK /\ TunOK /\ DeliveredOK /\ CountsOK
  BY <1>2, RelayFacts DEF Building
<1>4. Proxy \in Node /\ inbox[Proxy] \in Seq(Message)
  BY <1>3, Numbers DEF TypeOK
<1>5. m \in Message /\ HomeOK(m)
  <2>1. m \in Message /\ 1 \in DOMAIN inbox[Proxy] /\ m = inbox[Proxy][1]
    BY <1>1, <1>2, <1>4, Shortened
  <2> QED
    BY <1>3, <2>1 DEF CircuitInv, RelayInv
<1>6. DeliveredOK'
  <2>1. m.pkt \in Packet \cup {NoPacket} /\ m.pkt.type = "reply" /\ m.pkt.daddr = Eth(0)
    BY <1>5 DEF Message, HomeOK
  <2> QED
    BY <1>2, <1>3, <2>1, Appended DEF DeliveredOK, RepliesReachEth0
<1>7. RawOK' /\ WorldOK' /\ TunOK' /\ CountsOK'
  BY <1>2, <1>3 DEF RawOK, WorldOK, TunOK, CountsOK, OnPath, routerVars
<1>8. Adds(NoAddress, 0) /\ NoAddress \notin Node
  BY <1>2, <1>3, <1>4, AddsByConsuming, Numbers
<1>9. entry' \in [Router -> CircuitInfoEntry]
  BY <1>2, <1>3 DEF TypeOK, routerVars
<1> QED
  BY <1>2, <1>3, <1>6, <1>7, <1>8, <1>9, RelayingStep DEF routerVars

LEMMA RelayFwdStep ==
  ASSUME CircuitInv, NEW r \in Router, RelayFwd(r)
  PROVE  CircuitInv'
<1>1. PICK m, d, a : m = Head(inbox[r]) /\ d = entry[r].nextHop /\ a = PingOnward(r, m)
  OBVIOUS
<1>2. /\ inbox[r] # << >> /\ m.cmd = "RELAY_THIS_DATA_FWD" /\ d # LAST_HOP_PortNumber
      /\ entry' = [entry EXCEPT ![r].prevHopRealIP = m.pkt.saddr]
      /\ RouterSends(r, TRUE, d, a)
      /\ UNCHANGED <<s, myCctHops, var, sendToAddress, tun, delivered, TO_FORWARD, world,
                     pinged, faults>>
  BY <1>1 DEF RelayFwd, Receives, IsExit
<1>3. PICK i \in 1 .. noOfHops : r = myCctHops[i] /\ ~ Building /\ FwdOK(i, m)
  BY <1>1, <1>2, HeadMessage
<1>4. /\ phase \in {"relay", "exited"} /\ phase # "start" /\ HopsAre(myCctHops)
      /\ Placed(noOfHops) /\ TypeOK
      /\ RawOK /\ WorldOK /\ TunOK /\ DeliveredOK /\ CountsOK
      /\ r \in Node /\ noOfHops \in Int /\ i <= noOfHops /\ m \in Message
  BY <1>1, <1>2, <1>3, RelayFacts, HeadMessage, Numbers
<1>5. d = myCctHops[i + 1] /\ i # noOfHops /\ OnPath(r)
  BY <1>1, <1>2, <1>3, <1>4, HopsOnPath DEF Placed, InPlace, HopsAre
<1>6. i + 1 \in 1 .. noOfHops /\ (i + 1) - 1 = i /\ i + 1 # 1 /\ d \in Node
  BY <1>4, <1>5, PathFacts
<1>7. /\ r = PrevHop(i + 1) /\ entry[r].myCircuitID = GivenAt(i + 1)
      /\ GivenAt(i + 1) \in Word /\ htons(GivenAt(i + 1)) \in Word
  BY <1>3, <1>4, <1>6, PathFacts, HtonsType DEF PrevHop, GivenAt
<1>8. /\ m.pkt \in Packet /\ m.pkt.saddr \in IP
      /\ [m.pkt EXCEPT !.saddr = Eth(r)] \in Packet
      /\ [m.pkt EXCEPT !.saddr = Eth(r)].type = "request"
      /\ [m.pkt EXCEPT !.saddr = Eth(r)].saddr = Eth(r)
  <2>1. m.pkt \in Packet \cup {NoPacket} /\ m.pkt.type = "request"
    BY <1>3, <1>4 DEF Message, FwdOK
  <2>2. m.pkt \in Packet /\ [m.pkt EXCEPT !.saddr = Eth(r)] \in Packet
    BY <1>4, <2>1, PacketOf, Numbers
  <2> QED
    BY <2>1, <2>2 DEF Packet
<1>9. a \in Message
  BY <1>1, <1>4, <1>7, <1>8, MessageTypes DEF PingOnward
<1>10. Expected(d, a)
  <2>1. FwdOK(i + 1, a)
    BY <1>1, <1>7, <1>8 DEF FwdOK, PingOnward, RelayMsg
  <2> QED
    BY <1>5, <1>6, <2>1 DEF Expected
<1>11. Adds(d, a) /\ UNCHANGED <<up, raw, phase>>
  BY <1>2, <1>4, <1>6, <1>9, AddsByHandling
<1>12. /\ entry' \in [Router -> CircuitInfoEntry]
       /\ \A e \in Router :
            /\ entry'[e].circuitRequesterAddr = entry[e].circuitRequesterAddr
            /\ entry'[e].givenCicuitID = entry[e].givenCicuitID
            /\ entry'[e].myCircuitID = entry[e].myCircuitID
            /\ entry'[e].nextHop = entry[e].nextHop
            /\ ~ OnPath(e) => entry'[e] = entry[e]
  <2>1. entry \in [Router -> CircuitInfoEntry]
    BY <1>4 DEF TypeOK
  <2>2. PICK z : z = [entry[r] EXCEPT !.prevHopRealIP = m.pkt.saddr]
    OBVIOUS
  <2>3. /\ z \in CircuitInfoEntry
        /\ z.circuitRequesterAddr = entry[r].circuitRequesterAddr
        /\ z.givenCicuitID = entry[r].givenCicuitID
        /\ z.myCircuitID = entry[r].myCircuitID
        /\ z.nextHop = entry[r].nextHop
    <3>1. entry[r] \in CircuitInfoEntry
      BY <2>1
    <3> QED
      BY <1>8, <2>2, <3>1 DEF CircuitInfoEntry
  <2>4. entry' = [entry EXCEPT ![r] = z]
    BY <1>2, <2>2
  <2> QED
    BY <1>5, <2>1, <2>3, <2>4
<1>13. RawOK' /\ WorldOK' /\ TunOK' /\ DeliveredOK' /\ CountsOK'
  BY <1>2, <1>4, <1>11
     DEF RawOK, WorldOK, TunOK, DeliveredOK, RepliesReachEth0, CountsOK, OnPath
<1> QED
  BY <1>2, <1>3, <1>4, <1>10, <1>11, <1>12, <1>13, RelayingStep

\* Steps that leave the tables alone.
LEMMA RelayingKeepsTables ==
  ASSUME CircuitInv, ~ Building, phase' \in {"relay", "exited"},
         UNCHANGED <<s, myCctHops, var, sendToAddress, TO_FORWARD, entry>>,
         NEW d, NEW m, Adds(d, m), d \in Node => Expected(d, m),
         RawOK', WorldOK', TunOK', DeliveredOK', CountsOK'
  PROVE  CircuitInv'
<1>1. entry' \in [Router -> CircuitInfoEntry]
  BY DEF CircuitInv, TypeOK
<1> QED
  BY <1>1, RelayingStep

LEMMA ExitFwdStep ==
  ASSUME CircuitInv, NEW r \in Router, ExitFwd(r)
  PROVE  CircuitInv'
<1>1. PICK m, p : m = Head(inbox[r]) /\ p = [m.pkt EXCEPT !.saddr = Eth(r)]
  OBVIOUS
<1>2. /\ inbox[r] # << >> /\ m.cmd = "RELAY_THIS_DATA_FWD"
      /\ entry[r].nextHop = LAST_HOP_PortNumber
  BY <1>1 DEF ExitFwd, Receives, IsExit
<1>3. PICK i \in 1 .. noOfHops : r = myCctHops[i] /\ ~ Building /\ FwdOK(i, m)
  BY <1>1, <1>2, HeadMessage
<1>4. /\ inbox' = Consume(inbox, r) /\ world' = world \cup {p}
       /\ UNCHANGED <<proxyVars, routerVars, pinged, faults>>
  <2>1. IsPing(m.pkt)
    BY <1>3 DEF FwdOK, IsPing
  <2> QED
    BY <1>1, <2>1 DEF ExitFwd, proxyVars, routerVars
<1>5. /\ phase \in {"relay", "exited"} /\ phase # "start" /\ HopsAre(myCctHops)
      /\ Placed(noOfHops) /\ TypeOK
      /\ RawOK /\ WorldOK /\ TunOK /\ DeliveredOK /\ CountsOK
      /\ r \in Node /\ noOfHops \in Int /\ i <= noOfHops /\ m \in Message
  BY <1>1, <1>2, <1>3, RelayFacts, HeadMessage, Numbers
<1>6. r = myCctHops[noOfHops]
  <2>1. myCctHops[i + 1] = LAST_HOP_PortNumber
    BY <1>2, <1>3, <1>5 DEF Placed, InPlace
  <2>2. i # noOfHops => i + 1 \in 1 .. noOfHops
    BY <1>5
  <2>3. i = noOfHops
    BY <1>5, <2>1, <2>2, Numbers DEF HopsAre
  <2> QED
    BY <1>3, <2>3
<1>7. p \in Packet /\ p.type = "request" /\ p.saddr = Eth(r)
  <2>1. m.pkt \in Packet \cup {NoPacket} /\ m.pkt.type = "request"
    BY <1>3, <1>5 DEF Message, FwdOK
  <2>2. m.pkt \in Packet /\ p \in Packet
    BY <1>1, <1>5, <2>1, PacketOf, Numbers
  <2> QED
    BY <1>1, <2>1, <2>2 DEF Packet
<1>8. WorldOK'
  BY <1>4, <1>5, <1>6, <1>7 DEF WorldOK, proxyVars
<1>9. RawOK' /\ TunOK' /\ DeliveredOK' /\ CountsOK'
  BY <1>4, <1>5
     DEF RawOK, TunOK, DeliveredOK, RepliesReachEth0, CountsOK, OnPath, proxyVars, routerVars
<1>10. Adds(NoAddress, 0) /\ NoAddress \notin Node
  BY <1>2, <1>4, <1>5, AddsByConsuming, Numbers
<1> QED
  BY <1>3, <1>4, <1>5, <1>8, <1>9, <1>10, RelayingKeepsTables DEF proxyVars, routerVars

\* What router r makes of a reply is what the node before it expects.
LEMMA BackwardFits ==
  ASSUME CircuitInv, ~ Building, NEW i \in 1 .. noOfHops, NEW r, r = myCctHops[i],
         NEW p \in Packet, p.type = "reply",
         NEW d, d = entry[r].circuitRequesterAddr,
         NEW cid \in Word, NEW m, m = BackwardMsg(r, cid, p)
  PROVE  d \in Node /\ m \in Message /\ Expected(d, m) /\ OnPath(r)
<1>1. /\ phase # "start" /\ HopsAre(myCctHops) /\ Placed(noOfHops) /\ TypeOK
      /\ i <= noOfHops /\ noOfHops \in Int /\ r \in Router /\ r \in Node
  BY RelayFacts, Numbers DEF HopsAre
<1>2. d = PrevHop(i) /\ entry[r].givenCicuitID = GivenAt(i)
  BY <1>1 DEF Placed, InPlace
<1>3. d \in Node /\ GivenAt(i) \in Word /\ htons(GivenAt(i)) \in Word /\ OnPath(r)
  BY <1>1, <1>2, PathFacts, HtonsType, HopsOnPath
<1>4. entry[r].prevHopRealIP \in IP /\ Eth(0) \in IP
  BY <1>1, Numbers DEF TypeOK, CircuitInfoEntry, Proxy
<1>5. \A a \in IP : /\ [p EXCEPT !.daddr = a] \in Packet
                    /\ [p EXCEPT !.daddr = a].type = "reply"
                    /\ [p EXCEPT !.daddr = a].daddr = a
  <2>1. \A a \in IP : [p EXCEPT !.daddr = a] \in Packet
    BY PacketOf
  <2> QED
    BY <2>1 DEF Packet
<1>6. CASE i = 1
  <2>1. PICK z : z = [p EXCEPT !.daddr = Eth(0)]
    OBVIOUS
  <2>2. d = Proxy /\ m = RelayMsg(r, "RELAY_THIS_DATA_BACKWD", cid, z)
    BY <1>2, <1>6, <2>1 DEF PrevHop, BackwardMsg, IsFirstHop
  <2>3. z \in Packet /\ z.type = "reply" /\ z.daddr = Eth(0)
    BY <1>4, <1>5, <2>1
  <2>4. m \in Message
    BY <1>1, <2>2, <2>3, MessageTypes
  <2>5. HomeOK(m)
    BY <2>2, <2>3 DEF HomeOK, RelayMsg
  <2> QED
    BY <1>3, <2>2, <2>4, <2>5 DEF Expected
<1>7. CASE i # 1
  <2>1. i - 1 \in 1 .. noOfHops /\ (i - 1) + 1 = i /\ d = myCctHops[i - 1] /\ d # Proxy
    BY <1>1, <1>2, <1>7, Numbers DEF PrevHop, HopsAre
  <2>2. PICK z, c : z = [p EXCEPT !.daddr = entry[r].prevHopRealIP] /\ c = htons(GivenAt(i))
    OBVIOUS
  <2>3. m = RelayMsg(r, "RELAY_THIS_DATA_BACKWD", c, z)
    BY <1>2, <2>1, <2>2 DEF BackwardMsg, IsFirstHop
  <2>4. z \in Packet /\ z.type = "reply"
    BY <1>4, <1>5, <2>2
  <2>5. c = htons(entry[d].myCircuitID)
    BY <1>7, <2>1, <2>2 DEF GivenAt
  <2>6. m \in Message
    BY <1>1, <1>3, <2>2, <2>3, <2>4, MessageTypes
  <2>7. BackOK(i - 1, m)
    <3>1. r = myCctHops[(i - 1) + 1] /\ myCctHops[i - 1] = d
      BY <2>1
    <3> QED
      BY <2>3, <2>4, <2>5, <3>1 DEF BackOK, RelayMsg
  <2> QED
    BY <1>3, <2>1, <2>6, <2>7 DEF Expected
<1> QED
  BY <1>6, <1>7

LEMMA RelayBackStep ==
  ASSUME CircuitInv, NEW r \in Router, RelayBack(r)
  PROVE  CircuitInv'
<1>1. PICK m, d, a : /\ m = Head(inbox[r]) /\ d = entry[r].circuitRequesterAddr
                     /\ a = BackwardMsg(r, m.cid, m.pkt)
  OBVIOUS
<1>2. /\ inbox[r] # << >> /\ m.cmd = "RELAY_THIS_DATA_BACKWD"
      /\ RouterSends(r, IsPing(m.pkt), d, a)
      /\ UNCHANGED <<s, myCctHops, var, sendToAddress, tun, delivered, entry, TO_FORWARD,
                     world, pinged, faults>>
  BY <1>1 DEF RelayBack, Receives
<1>3. PICK i \in 1 .. noOfHops : r = myCctHops[i] /\ ~ Building /\ BackOK(i, m) /\ m \in Message
  BY <1>1, <1>2, HeadMessage
<1>4. /\ phase \in {"relay", "exited"} /\ TypeOK
      /\ RawOK /\ WorldOK /\ TunOK /\ DeliveredOK /\ CountsOK
  BY <1>3, RelayFacts
<1>5. m.pkt \in Packet /\ m.pkt.type = "reply" /\ m.cid \in Word
  <2>1. m.pkt \in Packet \cup {NoPacket} /\ m.pkt.type = "reply" /\ m.cid \in Word
    BY <1>3 DEF Message, BackOK
  <2> QED
    BY <2>1, PacketOf
<1>6. d \in Node /\ a \in Message /\ Expected(d, a)
  BY <1>1, <1>3, <1>5, BackwardFits
<1>7. Adds(d, a) /\ UNCHANGED <<up, raw, phase>>
  <2>1. RouterSends(r, TRUE, d, a)
    BY <1>2, <1>5, Asserted DEF IsPing
  <2> QED
    BY <1>2, <1>4, <1>6, <2>1, AddsByHandling
<1>8. RawOK' /\ WorldOK' /\ TunOK' /\ DeliveredOK' /\ CountsOK'
  BY <1>2, <1>4, <1>7
     DEF RawOK, WorldOK, TunOK, DeliveredOK, RepliesReachEth0, CountsOK, OnPath
<1> QED
  BY <1>2, <1>3, <1>4, <1>6, <1>7, <1>8, RelayingKeepsTables

\* A router that ends leaves the rest as it is.
LEMMA RelayingEnds ==
  ASSUME CircuitInv, ~ Building, NEW r \in Router, RouterEnds(r), faults' \in 0 .. MaxFaults,
         UNCHANGED <<s, myCctHops, var, sendToAddress, tun, delivered, entry, TO_FORWARD,
                     world, pinged>>
  PROVE  CircuitInv'
<1>1. /\ phase \in {"relay", "exited"} /\ TypeOK /\ r \in Node
      /\ RawOK /\ WorldOK /\ TunOK /\ DeliveredOK /\ CountsOK
  BY RelayFacts, Numbers
<1>2. /\ up' = up \ {r} /\ phase' \in {"relay", "exited"}
      /\ inbox' = [inbox EXCEPT ![r] = << >>] /\ raw' = [raw EXCEPT ![r] = << >>]
  BY <1>1 DEF RouterEnds
<1>3. << >> \in Seq(Message) /\ << >> \in Seq(Packet \cup IcmpError)
  OBVIOUS
<1>4. /\ inbox' \in [Node -> Seq(Message)] /\ raw' \in [Router -> Seq(Packet \cup IcmpError)]
      /\ inbox'[r] = << >> /\ raw'[r] = << >>
      /\ \A e \in Node : e # r => inbox'[e] = inbox[e]
      /\ \A e \in Router : e # r => raw'[e] = raw[e]
  BY <1>1, <1>2, <1>3 DEF TypeOK
<1>5. RawOK'
  BY <1>1, <1>4, EmptyQueue DEF RawOK
<1>6. WorldOK' /\ TunOK' /\ DeliveredOK' /\ CountsOK'
  BY <1>1, <1>2 DEF WorldOK, TunOK, DeliveredOK, RepliesReachEth0, CountsOK
<1>7. Adds(NoAddress, 0) /\ NoAddress \notin Node
  <2>1. PICK q, z : q = inbox /\ z = inbox'
    OBVIOUS
  <2>2. z[r] = << >> /\ \A e \in Node : e # r => z[e] = q[e]
    BY <1>4, <2>1
  <2>3. \A e \in Node : \A n \in DOMAIN z[e] : \E k \in DOMAIN q[e] : z[e][n] = q[e][k]
    BY <2>2, EmptyQueue
  <2>4. \A e \in Node : q[e] = << >> => z[e] = << >>
    BY <2>2
  <2> QED
    BY <1>4, <2>1, <2>3, <2>4, Numbers DEF Adds
<1> QED
  BY <1>2, <1>5, <1>6, <1>7, RelayingKeepsTables

\* What the raw socket of a router has first: a reply, or an error, for the exit.
LEMMA RawHead ==
  ASSUME CircuitInv, NEW r \in Router, raw[r] # << >>
  PROVE  /\ ~ Building /\ r = myCctHops[noOfHops]
         /\ \/ Head(raw[r]) \in Packet /\ Head(raw[r]).type = "reply" /\ IsPing(Head(raw[r]))
            \/ Head(raw[r]) \in IcmpError /\ Head(raw[r]).type = "error" /\ ~ IsPing(Head(raw[r]))
         /\ Tail(raw[r]) \in Seq(Packet \cup IcmpError)
         /\ \A n \in DOMAIN Tail(raw[r]) : Tail(raw[r])[n].type \in {"reply", "error"}
<1>1. ~ Building
  BY DEF CircuitInv, BuildInv
<1>2. RawOK
  BY <1>1, RelayFacts
<1>3. PICK z : z = raw[r]
  OBVIOUS
<1>4. z \in Seq(Packet \cup IcmpError) /\ z # << >>
      /\ \A n \in DOMAIN z : z[n].type \in {"reply", "error"}
  BY <1>2, <1>3 DEF RawOK
<1>5. /\ Tail(z) \in Seq(Packet \cup IcmpError) /\ Head(z) \in Packet \cup IcmpError
      /\ 1 \in DOMAIN z /\ Head(z) = z[1]
      /\ \A n \in DOMAIN Tail(z) : n + 1 \in DOMAIN z /\ Tail(z)[n] = z[n + 1]
  BY <1>4, Shortened
<1>6. Head(z).type \in {"reply", "error"}
      /\ \A n \in DOMAIN Tail(z) : Tail(z)[n].type \in {"reply", "error"}
  BY <1>4, <1>5
<1>7. \/ Head(z) \in Packet /\ Head(z).type = "reply" /\ IsPing(Head(z))
      \/ Head(z) \in IcmpError /\ Head(z).type = "error" /\ ~ IsPing(Head(z))
  BY <1>5, <1>6 DEF Packet, IcmpError, IsPing
<1> QED
  BY <1>1, <1>2, <1>3, <1>5, <1>6, <1>7 DEF RawOK

LEMMA RawReplyStep ==
  ASSUME CircuitInv, NEW r \in Router, RawReply(r)
  PROVE  CircuitInv'
<1>1. raw[r] # << >>
  BY DEF RawReply
<1>2. PICK p, cid, d, m : /\ p = Head(raw[r]) /\ cid = htons(entry[r].givenCicuitID)
                          /\ d = entry[r].circuitRequesterAddr
                          /\ m = BackwardMsg(r, cid, p)
  OBVIOUS
<1>3. /\ ~ Building /\ r = myCctHops[noOfHops]
      /\ \/ p \in Packet /\ p.type = "reply" /\ IsPing(p)
         \/ ~ IsPing(p)
      /\ Tail(raw[r]) \in Seq(Packet \cup IcmpError)
      /\ \A n \in DOMAIN Tail(raw[r]) : Tail(raw[r])[n].type \in {"reply", "error"}
  BY <1>1, <1>2, RawHead
<1>4. /\ phase \in {"relay", "exited"} /\ TypeOK /\ noOfHops \in 1 .. noOfHops
      /\ RawOK /\ WorldOK /\ TunOK /\ DeliveredOK /\ CountsOK
  BY <1>3, RelayFacts, Numbers
<1>5. UNCHANGED <<s, myCctHops, var, sendToAddress, tun, delivered, entry, TO_FORWARD, world,
                  pinged, faults>>
  BY DEF RawReply
<1>6. CASE ~ IsPing(p)
  <2>1. RouterEnds(r) /\ faults' \in 0 .. MaxFaults
    BY <1>2, <1>4, <1>5, <1>6 DEF RawReply, CountsOK
  <2> QED
    BY <1>3, <1>5, <2>1, RelayingEnds
<1>7. CASE p \in Packet /\ p.type = "reply" /\ IsPing(p)
  <2>1. cid \in Word
    BY <1>2, <1>4, HtonsType DEF TypeOK, CircuitInfoEntry
  <2>2. d \in Node /\ m \in Message /\ Expected(d, m)
    BY <1>2, <1>3, <1>4, <1>7, <2>1, BackwardFits
  <2>3. /\ inbox' = Sent(inbox, d, m) /\ raw' = [raw EXCEPT ![r] = Tail(raw[r])]
        /\ UNCHANGED <<up, phase>>
    BY <1>2, <1>7, <2>2, Numbers DEF RawReply
  <2>4. Adds(d, m)
    BY <1>4, <2>2, <2>3, AddsBySending
  <2>5. RawOK'
    BY <1>3, <1>4, <1>5, <2>3 DEF RawOK
  <2>6. WorldOK' /\ TunOK' /\ DeliveredOK' /\ CountsOK'
    BY <1>4, <1>5, <2>3 DEF WorldOK, TunOK, DeliveredOK, RepliesReachEth0, CountsOK
  <2> QED
    BY <1>3, <1>4, <1>5, <2>2, <2>3, <2>4, <2>5, <2>6, RelayingKeepsTables
<1> QED
  BY <1>3, <1>6, <1>7

\* A reply or an error for a ping that left from the exit reaches its raw socket.
LEMMA BackAtTheExit ==
  ASSUME CircuitInv, ~ Building, NEW q \in world, NEW type \in {"reply", "error"},
         ComesBack(q, type), UNCHANGED <<up, myCctHops>>
  PROVE  RawOK'
<1>1. phase # "start" /\ HopsAre(myCctHops) /\ RawOK /\ WorldOK
  BY RelayFacts
<1>2. PICK x, p : x = q.saddr /\ p = Answering(q, type)
  OBVIOUS
<1>3. raw' = IF x \in up THEN [raw EXCEPT ![x] = Append(raw[x], p)] ELSE raw
  BY <1>2 DEF ComesBack
<1>4. x \in Router /\ x = myCctHops[noOfHops]
  BY <1>1, <1>2, Numbers DEF WorldOK, HopsAre, Eth
<1>5. p \in Packet \cup IcmpError /\ p.type \in {"reply", "error"}
  BY <1>1, <1>2 DEF WorldOK, Packet, IcmpError, Answering
<1>6. PICK z : z = raw[x]
  OBVIOUS
<1>7. /\ z \in Seq(Packet \cup IcmpError) /\ Append(z, p) \in Seq(Packet \cup IcmpError)
      /\ \A n \in DOMAIN Append(z, p) :
           (n \in DOMAIN z /\ Append(z, p)[n] = z[n]) \/ Append(z, p)[n] = p
  BY <1>1, <1>4, <1>5, <1>6, Appended DEF RawOK
<1>8. \A n \in DOMAIN Append(z, p) : Append(z, p)[n].type \in {"reply", "error"}
  BY <1>1, <1>4, <1>5, <1>6, <1>7 DEF RawOK
<1>9. raw' = [raw EXCEPT ![x] = Append(z, p)] \/ raw' = raw
  BY <1>3, <1>6
<1> QED
  BY <1>1, <1>4, <1>7, <1>8, <1>9 DEF RawOK

LEMMA InternetRepliesStep ==
  ASSUME CircuitInv, NEW q \in world, InternetReplies(q)
  PROVE  CircuitInv'
<1>1. ~ Building
  BY DEF CircuitInv, BuildInv
<1>2. /\ phase \in {"relay", "exited"} /\ TypeOK
      /\ RawOK /\ WorldOK /\ TunOK /\ DeliveredOK /\ CountsOK
  BY <1>1, RelayFacts
<1>3. /\ world' = world \ {q} /\ ComesBack(q, "reply")
      /\ UNCHANGED <<proxyVars, up, entry, TO_FORWARD, inbox, pinged, faults>>
  BY DEF InternetReplies
<1>4. RawOK'
  BY <1>1, <1>3, BackAtTheExit DEF proxyVars
<1>5. WorldOK' /\ TunOK' /\ DeliveredOK' /\ CountsOK'
  BY <1>2, <1>3 DEF WorldOK, TunOK, DeliveredOK, RepliesReachEth0, CountsOK, proxyVars
<1>6. Adds(NoAddress, 0) /\ NoAddress \notin Node
  BY <1>2, <1>3, AddsNothing, Numbers
<1> QED
  BY <1>1, <1>2, <1>3, <1>4, <1>5, <1>6, RelayingKeepsTables DEF proxyVars

LEMMA InternetRefusesStep ==
  ASSUME CircuitInv, NEW q \in world, InternetRefuses(q)
  PROVE  CircuitInv'
<1>1. ~ Building
  BY DEF CircuitInv, BuildInv
<1>2. /\ phase \in {"relay", "exited"} /\ TypeOK
      /\ RawOK /\ WorldOK /\ TunOK /\ DeliveredOK /\ CountsOK
  BY <1>1, RelayFacts
<1>3. /\ world' = world \ {q} /\ ComesBack(q, "error")
      /\ faults < MaxFaults /\ faults' = faults + 1
      /\ UNCHANGED <<proxyVars, up, entry, TO_FORWARD, inbox, pinged>>
  BY DEF InternetRefuses
<1>4. RawOK'
  BY <1>1, <1>3, BackAtTheExit DEF proxyVars
<1>5. CountsOK'
  BY <1>2, <1>3, PlainAssumption DEF CountsOK, PlainAssumption
<1>6. WorldOK' /\ TunOK' /\ DeliveredOK'
  BY <1>2, <1>3 DEF WorldOK, TunOK, DeliveredOK, RepliesReachEth0, proxyVars
<1>7. Adds(NoAddress, 0) /\ NoAddress \notin Node
  BY <1>2, <1>3, AddsNothing, Numbers
<1> QED
  BY <1>1, <1>2, <1>3, <1>4, <1>5, <1>6, <1>7, RelayingKeepsTables DEF proxyVars

LEMMA InternetLosesStep ==
  ASSUME CircuitInv, NEW q \in world, InternetLoses(q)
  PROVE  CircuitInv'
<1>1. ~ Building
  BY DEF CircuitInv, BuildInv
<1>2. /\ phase \in {"relay", "exited"} /\ TypeOK
      /\ RawOK /\ WorldOK /\ TunOK /\ DeliveredOK /\ CountsOK
  BY <1>1, RelayFacts
<1>3. /\ world' = world \ {q} /\ faults < MaxFaults /\ faults' = faults + 1
      /\ UNCHANGED <<proxyVars, routerVars, inbox, pinged>>
  BY DEF InternetLoses
<1>4. CountsOK'
  BY <1>2, <1>3, PlainAssumption DEF CountsOK, routerVars, PlainAssumption
<1>5. RawOK' /\ WorldOK' /\ TunOK' /\ DeliveredOK'
  BY <1>2, <1>3
     DEF RawOK, WorldOK, TunOK, DeliveredOK, RepliesReachEth0, OnPath, proxyVars, routerVars
<1>6. Adds(NoAddress, 0) /\ NoAddress \notin Node
  BY <1>2, <1>3, AddsNothing, Numbers
<1> QED
  BY <1>1, <1>2, <1>3, <1>4, <1>5, <1>6, RelayingKeepsTables DEF proxyVars, routerVars

-----------------------------------------------------------------------------
(* A router is killed.                                                     *)

LEMMA RouterIsKilledStep ==
  ASSUME CircuitInv, NEW r \in Router, RouterIsKilled(r)
  PROVE  CircuitInv'
<1>1. /\ faults < MaxFaults /\ faults' = faults + 1 /\ up' = up \ {r}
      /\ inbox' = [inbox EXCEPT ![r] = << >>] /\ raw' = [raw EXCEPT ![r] = << >>]
      /\ phase' \in IF phase = "relay" THEN {"relay", "exited"} ELSE {phase}
      /\ UNCHANGED <<s, myCctHops, var, sendToAddress, tun, delivered, entry, TO_FORWARD,
                     world, pinged>>
  BY DEF RouterIsKilled, RouterEnds
<1>2. TypeOK /\ HopsChosen /\ BystandersUntouched /\ BuildInv /\ r \in Node
  BY Numbers DEF CircuitInv
<1>3. << >> \in Seq(Message) /\ << >> \in Seq(Packet \cup IcmpError)
  OBVIOUS
<1>4. /\ inbox' \in [Node -> Seq(Message)] /\ raw' \in [Router -> Seq(Packet \cup IcmpError)]
      /\ inbox'[r] = << >> /\ raw'[r] = << >>
      /\ \A e \in Node : e # r => inbox'[e] = inbox[e]
      /\ \A e \in Router : e # r => raw'[e] = raw[e]
  BY <1>1, <1>2, <1>3 DEF TypeOK
<1>5. faults' \in 0 .. MaxFaults
  BY <1>1, <1>2, PlainAssumption DEF TypeOK, PlainAssumption
<1>6. CASE Building
  <2>1. phase' = phase /\ TypeOK' /\ HopsChosen'
    BY <1>1, <1>2, <1>4, <1>5, <1>6 DEF TypeOK, HopsChosen, Building
  <2>2. BystandersUntouched'
    BY <1>1, <1>2, <1>4, Numbers DEF BystandersUntouched, OnPath
  <2>3. /\ Silent => Silent'
        /\ \A d, m : Only(d, m) => Silent' \/ Only(d, m)'
    <3>1. Silent => Silent'
      BY <1>4 DEF Silent
    <3>2. ASSUME NEW d, NEW m, Only(d, m)
          PROVE  Silent' \/ Only(d, m)'
      <4>1. CASE d = r
        BY <1>4, <3>2, <4>1 DEF Silent, Only
      <4>2. CASE d # r
        BY <1>2, <1>4, <3>2, <4>2 DEF Only
      <4> QED
        BY <4>1, <4>2
    <3> QED
      BY <3>1, <3>2
  <2>4. \A k : Placed(k) => Placed(k)'
    BY <1>1, PlacedKept
  <2>5. Placed(var) => Placed(var)'
    <3>1. PICK k : k = var
      OBVIOUS
    <3>2. k = var'
      BY <1>1, <3>1
    <3> QED
      BY <2>4, <3>1, <3>2
  <2>6. Placed(var + 1) => Placed(var + 1)'
    <3>1. PICK k : k = var + 1
      OBVIOUS
    <3>2. k = var' + 1
      BY <1>1, <3>1
    <3> QED
      BY <2>4, <3>1, <3>2
  <2>7. Outstanding => Outstanding'
    <3>1. ASSUME NEW i \in 1 .. var + 1, ExtendOut(i)
          PROVE  Silent' \/ ExtendOut(i)'
      <4>1. PICK d, m : /\ d = myCctHops[i]
                        /\ m = ExtendMsg(PrevHop(i), htons(GivenAt(i)), myCctHops[var + 2])
        OBVIOUS
      <4>2. Silent' \/ Only(d, m)'
        BY <2>3, <3>1, <4>1 DEF ExtendOut
      <4>3. /\ d = myCctHops'[i]
            /\ m = ExtendMsg(PrevHop(i), htons(GivenAt(i)), myCctHops[var + 2])'
        BY <1>1, <4>1 DEF PrevHop, GivenAt, CircuitID, ExtendMsg
      <4> QED
        BY <4>2, <4>3 DEF ExtendOut, Only
    <3>2. ASSUME NEW i \in 1 .. var + 1, DoneBack(i)
          PROVE  Silent' \/ DoneBack(i)'
      <4>1. PICK c \in Word : Only(PrevHop(i), DoneMsg(myCctHops[i], c))
        BY <3>2 DEF DoneBack
      <4>2. PICK d, m : d = PrevHop(i) /\ m = DoneMsg(myCctHops[i], c)
        OBVIOUS
      <4>3. Silent' \/ Only(d, m)'
        BY <2>3, <4>1, <4>2
      <4>4. d = PrevHop(i)' /\ m = DoneMsg(myCctHops[i], c)'
        BY <1>1, <4>2 DEF PrevHop, DoneMsg
      <4> QED
        BY <4>3, <4>4 DEF DoneBack, Only
    <3> QED
      BY <1>1, <2>3, <2>5, <2>6, <3>1, <3>2 DEF Outstanding
  <2>8. BuildInv'
    BY <1>1, <1>2, <1>4, <1>6, <2>1, <2>3, <2>5, <2>7 DEF BuildInv, Building
  <2>9. RelayInv'
    BY <1>6, <2>1 DEF RelayInv, Building
  <2> QED
    BY <2>1, <2>2, <2>8, <2>9 DEF CircuitInv
<1>7. CASE ~ Building
  <2>1. RouterEnds(r)
    BY DEF RouterIsKilled
  <2> QED
    BY <1>1, <1>5, <1>7, <2>1, RelayingEnds
<1> QED
  BY <1>6, <1>7

-----------------------------------------------------------------------------
(* Theorems.                                                               *)

LEMMA InitInv == Init => CircuitInv
<1> SUFFICES ASSUME Init
             PROVE  CircuitInv
  OBVIOUS
<1>1. ZeroEntry \in CircuitInfoEntry
  BY Numbers DEF ZeroEntry, CircuitInfoEntry, HopPort
<1>2. /\ << >> \in Seq(Packet) /\ << >> \in Seq(Packet \cup {NoPacket})
      /\ << >> \in Seq(Packet \cup IcmpError) /\ << >> \in Seq(Message)
      /\ << >> \in Seq(Host) /\ Len(<< >>) = 0
  OBVIOUS
<1>3. 1 \in Word /\ 0 \in 0 .. noOfHops /\ 0 \in 0 .. MaxFaults /\ 0 <= MaxPings
  BY Numbers, InWord, PlainAssumption DEF PlainAssumption
<1>4. TypeOK
  BY <1>1, <1>2, <1>3 DEF Init, TypeOK
<1>5. HopsChosen /\ BystandersUntouched /\ BuildInv /\ RelayInv
  BY Numbers DEF Init, HopsChosen, BystandersUntouched, BuildInv, Silent, RelayInv, Building
<1> QED
  BY <1>4, <1>5 DEF CircuitInv

LEMMA NextInv ==
  ASSUME CircuitInv, [Next]_vars
  PROVE  CircuitInv'
<1>1. CASE Build
  BY <1>1, BuildStartStep, SendExtendStep, AwaitDoneStep, TunnelStep DEF Build
<1>2. CASE TunnelRead \/ SocketRead \/ \E h \in Host : UserPings(h)
  BY <1>2, TunnelReadStep, SocketReadStep, UserPingsStep
<1>3. CASE \E r \in Router : UdpRead(r) \/ RawReply(r)
  BY <1>3, NewExtendStep, ForwardExtendStep, ForwardDoneStep, RelayFwdStep, ExitFwdStep,
     RelayBackStep, RawReplyStep DEF UdpRead
<1>4. CASE Internet
  BY <1>4, InternetRepliesStep DEF Internet
<1>5. CASE Failure
  BY <1>5, TunnelStep, InternetLosesStep, InternetRefusesStep, RouterIsKilledStep DEF Failure
<1>6. CASE UNCHANGED vars
  <2>1. UNCHANGED <<phase, s, myCctHops, var, sendToAddress, tun, delivered, up, entry,
                    TO_FORWARD, raw, inbox, world, pinged, faults>>
    BY <1>6 DEF vars, proxyVars, routerVars
  <2>2. TypeOK'
    BY <2>1 DEF CircuitInv, TypeOK
  <2>3. HopsChosen' /\ BystandersUntouched'
    BY <2>1 DEF CircuitInv, HopsChosen, BystandersUntouched, OnPath
  <2>4. \A k : Placed(k) => Placed(k)'
    BY <2>1, PlacedKept
  <2>5. (Silent => Silent') /\ (Building <=> Building')
    BY <2>1 DEF Silent, Building
  <2>6. \A i : (ExtendOut(i) => ExtendOut(i)') /\ (DoneBack(i) => DoneBack(i)')
    BY <2>1 DEF ExtendOut, DoneBack, Only, PrevHop, GivenAt, CircuitID
  <2>7. Outstanding => Outstanding'
    BY <2>1, <2>4, <2>5, <2>6 DEF Outstanding
  <2>8. BuildInv'
    BY <2>1, <2>4, <2>5, <2>7 DEF CircuitInv, BuildInv
  <2>9. RelayInv'
    BY <2>1, <2>4, <2>5 DEF CircuitInv, RelayInv, PrevHop, GivenAt, CircuitID, FwdOK, BackOK,
                            HomeOK, RepliesReachEth0
  <2> QED
    BY <2>2, <2>3, <2>8, <2>9 DEF CircuitInv
<1> QED
  BY <1>1, <1>2, <1>3, <1>4, <1>5, <1>6 DEF Next

\* The invariant of stage 5: the hops confirmed so far hold their entries, one
\* datagram at most is on its way while the circuit is built, and afterwards
\* every datagram comes from a neighbour under the identifier shared with it.
THEOREM CircuitInvariant == Spec => []CircuitInv
<1>1. Init => CircuitInv
  BY InitInv
<1>2. CircuitInv /\ [Next]_vars => CircuitInv'
  BY NextInv
<1> QED
  BY <1>1, <1>2, PTL DEF Spec

\* Every datagram and packet is well formed, an identifier keeps its 16 bits, and
\* only addresses of routers, the proxy or the pinged hosts occur.
THEOREM PlainTypes == Spec => []TypeOK
<1>1. CircuitInv => TypeOK
  BY DEF CircuitInv
<1> QED
  BY <1>1, CircuitInvariant, PTL

\* A router that is not among the hops is never sent anything and keeps its table.
THEOREM BystandersStayOut == Spec => []BystandersUntouched
<1>1. CircuitInv => BystandersUntouched
  BY DEF CircuitInv
<1> QED
  BY <1>1, CircuitInvariant, PTL

LEMMA ConfirmedByInv ==
  ASSUME CircuitInv
  PROVE  ConfirmedHopsInPlace
<1>1. CASE phase = "start"
  BY <1>1 DEF CircuitInv, HopsChosen, ConfirmedHopsInPlace
<1>2. CASE phase # "start"
  <2>1. var \in Int /\ noOfHops \in Int /\ var <= noOfHops /\ TypeOK
    BY <1>2, PathFacts DEF CircuitInv
  <2>2. Placed(var) \/ Placed(var + 1) \/ Placed(noOfHops)
    BY <1>2, <2>1 DEF TypeOK, CircuitInv, BuildInv, Outstanding, RelayInv, Building
  <2>3. \A j \in 1 .. var : j \in 1 .. noOfHops /\ j <= var /\ j <= var + 1 /\ j <= noOfHops
    BY <2>1
  <2> QED
    BY <2>2, <2>3 DEF ConfirmedHopsInPlace, Placed
<1> QED
  BY <1>1, <1>2

\* Although the proxy takes any datagram for the answer it waits for, and whatever
\* is lost or killed, every hop it counts as built is in place.
THEOREM ConfirmedHops == Spec => []ConfirmedHopsInPlace
<1>1. CircuitInv => ConfirmedHopsInPlace
  BY ConfirmedByInv
<1> QED
  BY <1>1, CircuitInvariant, PTL

\* While the circuit is built the proxy and the routers play in turn.
THEOREM TurnsAreTaken == Spec => []TurnTaking
<1>1. ASSUME CircuitInv
      PROVE  TurnTaking
  <2>1. Building => Silent \/ (phase = "await" /\ \E d, m : Only(d, m))
    BY <1>1 DEF CircuitInv, BuildInv, Building, Outstanding, ExtendOut, DoneBack
  <2>2. Len(<< >>) = 0 /\ \A m : Len(<<m>>) = 1 /\ <<m>> # << >>
    OBVIOUS
  <2>3. CASE Silent
    <3>1. \A n \in Node : inbox[n] = << >>
      BY <2>3 DEF Silent
    <3>2. \A n \in Node : Len(inbox[n]) <= 1
      BY <2>2, <3>1
    <3> QED
      BY <3>1, <3>2 DEF TurnTaking
  <2>4. CASE phase = "await" /\ \E d, m : Only(d, m)
    <3>1. PICK d, m : \A n \in Node : inbox[n] = IF n = d THEN <<m>> ELSE << >>
      BY <2>4 DEF Only
    <3>2. \A n \in Node : inbox[n] = <<m>> \/ inbox[n] = << >>
      BY <3>1
    <3>3. \A n \in Node : inbox[n] # << >> => n = d
      BY <3>1
    <3>4. \A n \in Node : Len(inbox[n]) <= 1
      <4>1. Len(<< >>) <= 1 /\ Len(<<m>>) <= 1
        BY <2>2
      <4> QED
        BY <3>2, <4>1
    <3> QED
      BY <2>4, <3>3, <3>4 DEF TurnTaking
  <2> QED
    BY <2>1, <2>3, <2>4 DEF TurnTaking
<1> QED
  BY <1>1, CircuitInvariant, PTL

LEMMA CommandOf ==
  /\ \A from, cid, next : ExtendMsg(from, cid, next).cmd = "CIRCUIT_EXTEND"
  /\ \A from, cid : DoneMsg(from, cid).cmd = "CIRCUIT_EXTEND_DONE"
BY DEF ExtendMsg, DoneMsg

LEMMA LookupByInv ==
  ASSUME CircuitInv
  PROVE  LookupWouldAgree
<1> SUFFICES ASSUME NEW r \in Router, NEW n \in DOMAIN inbox[r], NEW m, m = inbox[r][n]
             PROVE  /\ m.cmd = "RELAY_THIS_DATA_FWD" =>
                         /\ m.cid = htons(entry[r].givenCicuitID)
                         /\ m.from = entry[r].circuitRequesterAddr
                    /\ m.cmd = "RELAY_THIS_DATA_BACKWD" =>
                         m.cid = htons(entry[r].myCircuitID) /\ m.from = entry[r].nextHop
  BY DEF LookupWouldAgree
<1>1. inbox[r] # << >> /\ r \in Node
  BY EmptyQueue, Numbers
<1>2. PICK i \in 1 .. noOfHops :
        /\ r = myCctHops[i]
        /\ \/ phase = "await" /\ ExtendOut(i)
           \/ \E c \in Word : Only(r, DoneMsg(myCctHops[i + 1], c))
           \/ ~ Building /\ (FwdOK(i, m) \/ BackOK(i, m))
  BY <1>1, WhatArrives
<1>3. \A x : Only(r, x) => m = x
  <2>1. \A x : DOMAIN <<x>> = {1} /\ <<x>>[1] = x
    OBVIOUS
  <2> QED
    BY <1>1, <2>1 DEF Only
<1>4. CASE ExtendOut(i) \/ \E c \in Word : Only(r, DoneMsg(myCctHops[i + 1], c))
  <2>1. m.cmd \in {"CIRCUIT_EXTEND", "CIRCUIT_EXTEND_DONE"}
    BY <1>2, <1>3, <1>4, CommandOf DEF ExtendOut
  <2> QED
    BY <2>1
<1>5. CASE ~ Building /\ (FwdOK(i, m) \/ BackOK(i, m))
  <2>1. InPlace(i)
    BY <1>5, RelayFacts, Numbers DEF Placed
  <2> QED
    BY <1>2, <1>5, <2>1 DEF InPlace, FwdOK, BackOK
<1> QED
  BY <1>2, <1>4, <1>5

\* Entry 0, which the code uses without a look-up, is the entry of the circuit to
\* which the datagram belongs, and the datagram comes from that entry's neighbour.
THEOREM LookupsAgree == Spec => []LookupWouldAgree
<1>1. CircuitInv => LookupWouldAgree
  BY LookupByInv
<1> QED
  BY <1>1, CircuitInvariant, PTL

LEMMA SourceByInv ==
  ASSUME CircuitInv
  PROVE  SourceIsThePredecessor
<1>1. ASSUME NEW j \in 2 .. noOfHops, phase # "start", NEW n \in DOMAIN inbox[myCctHops[j]],
             inbox[myCctHops[j]][n].cmd = "RELAY_THIS_DATA_FWD"
      PROVE  inbox[myCctHops[j]][n].pkt.saddr = Eth(myCctHops[j - 1])
  <2>1. /\ HopsAre(myCctHops) /\ j \in 1 .. noOfHops /\ j # 1
        /\ myCctHops[j] \in Router /\ myCctHops[j] \in Node
    BY <1>1, PathFacts, Numbers DEF HopsAre
  <2>2. inbox[myCctHops[j]] # << >>
    BY EmptyQueue
  <2>3. PICK i \in 1 .. noOfHops :
          /\ myCctHops[j] = myCctHops[i]
          /\ \/ ExtendOut(i)
             \/ \E c \in Word : Only(myCctHops[j], DoneMsg(myCctHops[i + 1], c))
             \/ FwdOK(i, inbox[myCctHops[j]][n]) \/ BackOK(i, inbox[myCctHops[j]][n])
    BY <2>1, <2>2, WhatArrives
  <2>4. i = j
    BY <2>1, <2>3 DEF HopsAre
  <2>5. \A x : Only(myCctHops[j], x) => inbox[myCctHops[j]][n] = x
    <3>1. \A x : DOMAIN <<x>> = {1} /\ <<x>>[1] = x
      OBVIOUS
    <3> QED
      BY <2>1, <3>1 DEF Only
  <2>6. FwdOK(j, inbox[myCctHops[j]][n])
    <3>1. PICK m : m = inbox[myCctHops[j]][n]
      OBVIOUS
    <3>2. m.cmd = "RELAY_THIS_DATA_FWD"
      BY <1>1, <3>1
    <3>3. /\ ExtendOut(i) => m.cmd = "CIRCUIT_EXTEND"
          /\ \A c : Only(myCctHops[j], DoneMsg(myCctHops[i + 1], c))
                      => m.cmd = "CIRCUIT_EXTEND_DONE"
      BY <2>3, <2>5, <3>1, CommandOf DEF ExtendOut
    <3>4. FwdOK(i, m) \/ BackOK(i, m)
      BY <2>3, <3>1, <3>2, <3>3
    <3> QED
      BY <2>4, <3>1, <3>2, <3>4 DEF BackOK
  <2> QED
    BY <2>1, <2>6 DEF FwdOK, PrevHop
<1>2. \A q \in world : q.saddr = Eth(myCctHops[noOfHops])
  <2>1. CASE Building
    BY <2>1 DEF CircuitInv, BuildInv
  <2>2. CASE ~ Building
    BY <2>2 DEF CircuitInv, RelayInv
  <2> QED
    BY <2>1, <2>2
<1> QED
  BY <1>1, <1>2 DEF SourceIsThePredecessor

\* Behind the first hop a ping does not show the address of the host that sent it.
THEOREM SourcesAreHidden == Spec => []SourceIsThePredecessor
<1>1. CircuitInv => SourceIsThePredecessor
  BY SourceByInv
<1> QED
  BY <1>1, CircuitInvariant, PTL

\* What reaches the tunnel device is a reply addressed to eth0.
THEOREM RepliesComeHome == Spec => []RepliesReachEth0
<1>1. ASSUME CircuitInv
      PROVE  RepliesReachEth0
  <2>1. CASE Building
    BY <1>1, <2>1, EmptyQueue DEF CircuitInv, BuildInv, RepliesReachEth0
  <2>2. CASE ~ Building
    BY <1>1, <2>2 DEF CircuitInv, RelayInv
  <2> QED
    BY <2>1, <2>2
<1> QED
  BY <1>1, CircuitInvariant, PTL

\* A hop that is in place sends nowhere but to its neighbours.
LEMMA NeighboursAreSet ==
  ASSUME CircuitInv, phase # "start", NEW i \in 1 .. noOfHops, InPlace(i)
  PROVE  /\ entry[myCctHops[i]].circuitRequesterAddr # NoAddress
         /\ entry[myCctHops[i]].nextHop # NoAddress
BY PathFacts, Numbers DEF InPlace

LEMMA ReadingKeepsRouters ==
  ASSUME CircuitInv, NEW r \in Router, UdpRead(r)
  PROVE  up' = up
<1>1. PICK m : m = Head(inbox[r])
  OBVIOUS
<1>2. \A c, d, a : c /\ d # NoAddress /\ RouterSends(r, c, d, a) => up' = up
  BY DEF RouterSends
<1>3. CASE NewExtend(r)
  <2>1. inbox[r] # << >>
    BY <1>3 DEF NewExtend, Receives
  <2>2. m.from # NoAddress
    BY <1>1, <2>1, HeadMessage, Numbers DEF Message
  <2> QED
    BY <1>1, <1>2, <1>3, <2>2 DEF NewExtend
<1>4. CASE ForwardExtend(r)
  <2>1. inbox[r] # << >> /\ m.cmd = "CIRCUIT_EXTEND" /\ TO_FORWARD[r]
    BY <1>1, <1>4 DEF ForwardExtend, Receives
  <2>2. entry[r].nextHop # NoAddress
    BY <1>1, <2>1, HeadMessage, NeighboursAreSet DEF Placed
  <2> QED
    BY <1>2, <1>4, <2>2 DEF ForwardExtend
<1>5. CASE ForwardDone(r)
  <2>1. inbox[r] # << >> /\ m.cmd = "CIRCUIT_EXTEND_DONE"
    BY <1>1, <1>5 DEF ForwardDone, Receives
  <2>2. PICK i \in 1 .. noOfHops :
          /\ r = myCctHops[i] /\ Placed(var + 1) /\ i <= var /\ phase # "start"
          /\ \E c \in Word : m = DoneMsg(myCctHops[i + 1], c)
    BY <1>1, <2>1, HeadMessage
  <2>3. i <= var + 1
    BY <2>2, PathFacts
  <2>4. entry[r].circuitRequesterAddr # NoAddress /\ IsBare(m)
    BY <2>2, <2>3, NeighboursAreSet, DoneIsBare DEF Placed
  <2> QED
    BY <1>1, <1>2, <1>5, <2>4 DEF ForwardDone
<1>6. CASE RelayFwd(r) \/ ExitFwd(r) \/ RelayBack(r)
  <2>1. /\ inbox[r] # << >>
        /\ m.cmd = "RELAY_THIS_DATA_FWD" \/ m.cmd = "RELAY_THIS_DATA_BACKWD"
    BY <1>1, <1>6 DEF RelayFwd, ExitFwd, RelayBack, Receives
  <2>2. PICK i \in 1 .. noOfHops :
          /\ r = myCctHops[i] /\ ~ Building /\ phase # "start"
          /\ FwdOK(i, m) \/ BackOK(i, m)
    BY <1>1, <2>1, HeadMessage
  <2>3. entry[r].circuitRequesterAddr # NoAddress /\ entry[r].nextHop # NoAddress
    BY <2>2, RelayFacts, NeighboursAreSet, Numbers DEF Placed
  <2>4. IsPing(m.pkt)
    BY <2>2 DEF FwdOK, BackOK, IsPing
  <2>5. CASE RelayFwd(r)
    BY <1>2, <2>3, <2>5 DEF RelayFwd
  <2>6. CASE ExitFwd(r)
    BY <1>1, <2>4, <2>6 DEF ExitFwd
  <2>7. CASE RelayBack(r)
    BY <1>1, <1>2, <2>3, <2>4, <2>7 DEF RelayBack
  <2> QED
    BY <1>6, <2>5, <2>6, <2>7
<1> QED
  BY <1>3, <1>4, <1>5, <1>6 DEF UdpRead

\* The packet on a raw socket that ends a router is an error, and the router the exit.
LEMMA RawReplyEnds ==
  ASSUME CircuitInv, NEW r \in Router, RawReply(r)
  PROVE  \/ up' = up
         \/ /\ up' = up \ {r} /\ r = myCctHops[noOfHops]
            /\ raw[r] # << >> /\ Head(raw[r]).type = "error"
<1>1. raw[r] # << >>
  BY DEF RawReply
<1>2. /\ ~ Building /\ r = myCctHops[noOfHops]
      /\ Head(raw[r]).type = "error" \/ IsPing(Head(raw[r]))
  BY <1>1, RawHead
<1>3. entry[r].circuitRequesterAddr # NoAddress
  BY <1>2, RelayFacts, NeighboursAreSet, Numbers DEF Placed
<1> QED
  BY <1>1, <1>2, <1>3 DEF RawReply, RouterEnds

\* A router that ends was killed, or is the exit before an ICMP error.
LEMMA WhyRoutersEnd ==
  ASSUME CircuitInv, [Next]_vars, NEW r \in up \ up'
  PROVE  \/ faults' = faults + 1
         \/ r = myCctHops[noOfHops] /\ raw[r] # << >> /\ Head(raw[r]).type = "error"
<1>1. CASE Build \/ TunnelRead \/ SocketRead \/ \E h \in Host : UserPings(h)
  BY <1>1 DEF Build, BuildStart, SendExtend, AwaitDone, OpenTunnel, TunnelRead, SocketRead,
              UserPings, routerVars
<1>2. CASE \E o \in Router : UdpRead(o) \/ RawReply(o)
  <2>1. PICK o \in Router : UdpRead(o) \/ RawReply(o)
    BY <1>2
  <2>2. CASE UdpRead(o)
    BY <2>2, ReadingKeepsRouters
  <2>3. CASE RawReply(o)
    <3>1. /\ up' = up \ {o} /\ o = myCctHops[noOfHops]
          /\ raw[o] # << >> /\ Head(raw[o]).type = "error"
      BY <2>3, RawReplyEnds
    <3> QED
      BY <3>1
  <2> QED
    BY <2>1, <2>2, <2>3
<1>3. CASE Internet
  BY <1>3 DEF Internet, InternetReplies
<1>4. CASE Failure
  BY <1>4 DEF Failure, OpenTunnelFails, InternetLoses, InternetRefuses, RouterIsKilled
<1>5. CASE UNCHANGED vars
  BY <1>5 DEF vars, routerVars
<1> QED
  BY <1>1, <1>2, <1>3, <1>4, <1>5 DEF Next

\* No datagram ends a router: what it asserts of one holds, and it never sends to an
\* address that was not filled in.  Only a kill does, or an ICMP error at the exit.
THEOREM RoutersSurvive == Spec => RoutersEndOnlyByFailure
<1>1. CircuitInv /\ [Next]_vars =>
        [\A r \in up \ up' :
           \/ faults' = faults + 1
           \/ /\ r = myCctHops[noOfHops] /\ raw[r] # << >>
              /\ Head(raw[r]).type = "error"]_vars
  BY WhyRoutersEnd
<1> QED
  BY <1>1, CircuitInvariant, PTL DEF Spec, RoutersEndOnlyByFailure

-----------------------------------------------------------------------------
(* A hop that dies while the circuit is built.                             *)

\* What is sent to a dead router is lost.
LEMMA LostAtTheDead ==
  ASSUME TypeOK, NEW r \in Router, NEW x, Only(r, x), NEW d \in Router, d \notin up,
         NEW m \in Message, RouterSends(r, TRUE, d, m)
  PROVE  Silent'
<1>1. d # NoAddress /\ d # Proxy /\ r \in Node /\ inbox \in [Node -> Seq(Message)]
  BY Numbers DEF TypeOK
<1>2. inbox[r] = <<x>> /\ \A e \in Node : e # r => inbox[e] = << >>
  BY <1>1 DEF Only
<1> DEFINE q == Consume(inbox, r)
<1>3. inbox' = Sent(q, d, m)
  BY <1>1 DEF RouterSends
<1>4. \A e \in Node : q[e] = << >>
  <2>1. inbox[r] # << >> /\ Tail(<<x>>) = << >>
    BY <1>2
  <2> QED
    BY <1>1, <1>2, <2>1 DEF Consume
<1>5. d \notin LiveNodes
  BY <1>1 DEF LiveNodes
<1> HIDE DEF q
<1> QED
  BY <1>3, <1>4, <1>5 DEF Sent, Deliver, Silent

\* The hops the proxy may still need are hops of the circuit.
LEMMA AskedHops ==
  ASSUME CircuitInv, phase \in {"send", "await"}
  PROVE  /\ var \in Int /\ 0 <= var /\ noOfHops \in Int /\ var + 1 <= noOfHops
         /\ HopsAre(myCctHops)
         /\ \A j \in 1 .. var + 1 : j \in 1 .. noOfHops /\ myCctHops[j] \in Router
<1>1. phase # "start" /\ var < noOfHops
  BY DEF CircuitInv, HopsChosen
<1>2. var \in Int /\ 0 <= var /\ noOfHops \in Int /\ HopsAre(myCctHops)
  BY <1>1, PathFacts
<1> QED
  BY <1>1, <1>2 DEF HopsAre

\* With the one datagram at hop i, the dead hop is ahead of it or behind it.
LEMMA WhyDoomed ==
  ASSUME CircuitInv, Doomed, phase = "await", NEW i \in 1 .. noOfHops,
         NEW x, Only(myCctHops[i], x)
  PROVE  \E j \in 1 .. var + 1 : myCctHops[j] \notin up /\ (x.cmd = "CIRCUIT_EXTEND" \/ j < i)
<1>1. HopsAre(myCctHops) /\ \A k \in 1 .. var + 1 : k \in 1 .. noOfHops
  BY AskedHops
<1>2. \A k \in 1 .. noOfHops : myCctHops[k] \in Node
  BY <1>1, Numbers DEF HopsAre
<1>3. inbox[myCctHops[i]] = <<x>> /\ <<x>> # << >> /\ Head(<<x>>) = x
  BY <1>2 DEF Only
<1>4. PICK j \in 1 .. var + 1 : myCctHops[j] \notin up /\ StillNeeded(j)
  BY <1>2, <1>3 DEF Doomed
<1>5. PICK k \in 1 .. var + 1 :
        /\ inbox[myCctHops[k]] # << >>
        /\ Head(inbox[myCctHops[k]]).cmd = "CIRCUIT_EXTEND" \/ j < k
  BY <1>4 DEF StillNeeded
<1>6. k = i
  BY <1>1, <1>2, <1>5 DEF Only, HopsAre
<1> QED
  BY <1>3, <1>4, <1>5, <1>6

\* A datagram sent on to hop k changes nothing while it needs the dead hop j.
LEMMA StaysDoomed ==
  ASSUME CircuitInv, phase = "await", NEW r \in Router, NEW x, Only(r, x),
         NEW j \in 1 .. var + 1, myCctHops[j] \notin up,
         NEW k \in 1 .. var + 1, NEW m \in Message, m.cmd = "CIRCUIT_EXTEND" \/ j <= k,
         RouterSends(r, TRUE, myCctHops[k], m), UNCHANGED <<myCctHops, var>>
  PROVE  Doomed'
<1>1. TypeOK /\ var \in Int /\ \A n \in 1 .. var + 1 : myCctHops[n] \in Router
  BY AskedHops DEF CircuitInv
<1>2. PICK d \in Router : d = myCctHops[k]
  BY <1>1
<1>3. d \in Node /\ r \in Node /\ RouterSends(r, TRUE, d, m)
  BY <1>2, Numbers
<1>4. inbox[r] # << >>
  <2>1. <<x>> # << >>
    OBVIOUS
  <2> QED
    BY <1>3, <2>1 DEF Only
<1>5. UNCHANGED <<up, phase>>
  BY <1>1, <1>3, <1>4, Handled
<1>6. CASE Silent'
  BY <1>5, <1>6 DEF Doomed, Silent
<1>7. CASE ~ Silent'
  <2>1. d \in up /\ Only(d, m)'
    BY <1>1, <1>3, <1>7, LostAtTheDead, HandledAlone
  <2>2. m.cmd = "CIRCUIT_EXTEND" \/ j < k
    <3>1. j # k
      BY <1>2, <2>1
    <3> QED
      BY <1>1, <3>1
  <2>3. inbox'[d] = <<m>> /\ <<m>> # << >> /\ Head(<<m>>) = m
    BY <1>3, <2>1 DEF Only
  <2>4. StillNeeded(j)'
    BY <1>2, <2>2, <2>3 DEF StillNeeded
  <2> QED
    BY <1>5, <2>4 DEF Doomed
<1> QED
  BY <1>6, <1>7

LEMMA DoomedWhileRouted ==
  ASSUME CircuitInv, Doomed, NEW r \in Router, UdpRead(r) \/ RawReply(r)
  PROVE  Doomed' /\ var' = var
<1>1. PICK m : m = Head(inbox[r])
  OBVIOUS
<1>2. phase \in {"send", "await"} /\ Building /\ r \in Node /\ TypeOK
  BY Numbers DEF Doomed, Building, CircuitInv
<1>3. /\ var \in Int /\ 0 <= var /\ noOfHops \in Int /\ var + 1 <= noOfHops
      /\ HopsAre(myCctHops)
      /\ \A j \in 1 .. var + 1 : j \in 1 .. noOfHops /\ myCctHops[j] \in Router
  BY <1>2, AskedHops
<1>4. CASE NewExtend(r)
  <2>1. /\ r \in up /\ inbox[r] # << >> /\ m.cmd = "CIRCUIT_EXTEND" /\ ~ TO_FORWARD[r]
        /\ RouterSends(r, TRUE, m.from, DoneMsg(r, m.cid)) /\ UNCHANGED <<myCctHops, var>>
    BY <1>1, <1>4 DEF NewExtend, Receives
  <2>2. PICK i \in 1 .. noOfHops :
          /\ r = myCctHops[i] /\ phase = "await" /\ Placed(var) /\ i <= var + 1 /\ Only(r, m)
          /\ m = ExtendMsg(PrevHop(i), htons(GivenAt(i)), myCctHops[var + 2])
    BY <1>1, <2>1, HeadMessage
  <2>3. i = var + 1
    <3>1. i <= var => TO_FORWARD[r]
      BY <2>2 DEF Placed, InPlace
    <3> QED
      BY <1>3, <2>1, <2>2, <3>1
  <2>4. PICK j \in 1 .. var + 1 : myCctHops[j] \notin up
    BY <2>2, WhyDoomed
  <2>5. j # i /\ i - 1 \in 1 .. var + 1 /\ j <= i - 1
    BY <1>3, <2>1, <2>2, <2>3, <2>4
  <2>6. m.from = myCctHops[i - 1] /\ m.cid \in Word
    <3>1. m.from = PrevHop(i) /\ m.cid = htons(GivenAt(i)) /\ i # 1
      BY <1>3, <2>2, <2>5 DEF ExtendMsg
    <3> QED
      BY <1>2, <2>2, <3>1, PathFacts, HtonsType DEF PrevHop, Building
  <2>7. DoneMsg(r, m.cid) \in Message
    BY <1>2, <2>6, MessageTypes
  <2> QED
    BY <2>1, <2>2, <2>4, <2>5, <2>6, <2>7, StaysDoomed
<1>5. CASE ForwardExtend(r)
  <2>1. /\ r \in up /\ inbox[r] # << >> /\ m.cmd = "CIRCUIT_EXTEND" /\ TO_FORWARD[r]
        /\ RouterSends(r, TRUE, entry[r].nextHop, ExtendOnward(r, m)) /\ UNCHANGED <<myCctHops, var>>
    BY <1>1, <1>5 DEF ForwardExtend, Receives
  <2>2. PICK i \in 1 .. noOfHops :
          /\ r = myCctHops[i] /\ phase = "await" /\ Placed(var) /\ i <= var + 1 /\ Only(r, m)
          /\ m = ExtendMsg(PrevHop(i), htons(GivenAt(i)), myCctHops[var + 2])
    BY <1>1, <2>1, HeadMessage
  <2>3. i <= var /\ InPlace(i)
    <3>1. ~ (i <= var) => ~ TO_FORWARD[r]
      BY <2>2 DEF Placed
    <3> QED
      BY <2>1, <2>2, <3>1 DEF Placed
  <2>4. PICK j \in 1 .. var + 1 : myCctHops[j] \notin up
    BY <2>2, WhyDoomed
  <2>5. i + 1 \in 1 .. var + 1 /\ entry[r].nextHop = myCctHops[i + 1]
    BY <1>3, <2>2, <2>3 DEF InPlace
  <2>6. PICK a : a = ExtendOnward(r, m)
    OBVIOUS
  <2>7. a \in Message /\ a.cmd = "CIRCUIT_EXTEND"
    <3>1. htons(entry[r].myCircuitID) \in Word
      BY <1>2, HtonsType DEF TypeOK, CircuitInfoEntry
    <3>2. m.next \in HopPort
      BY <1>1, <2>1, HeadMessage DEF Message
    <3> QED
      BY <1>2, <2>6, <3>1, <3>2, MessageTypes DEF ExtendOnward, ExtendMsg
  <2> QED
    BY <2>1, <2>2, <2>4, <2>5, <2>6, <2>7, StaysDoomed
<1>6. CASE ForwardDone(r)
  <2>1. /\ r \in up /\ inbox[r] # << >> /\ m.cmd = "CIRCUIT_EXTEND_DONE"
        /\ RouterSends(r, IsBare(m), entry[r].circuitRequesterAddr, DoneMsg(r, m.cid))
        /\ UNCHANGED <<myCctHops, var>>
    BY <1>1, <1>6 DEF ForwardDone, Receives
  <2>2. PICK i \in 1 .. noOfHops :
          /\ r = myCctHops[i] /\ phase = "await" /\ Placed(var + 1) /\ i <= var /\ Only(r, m)
          /\ \E c \in Word : m = DoneMsg(myCctHops[i + 1], c)
    BY <1>1, <2>1, HeadMessage
  <2>3. PICK j \in 1 .. var + 1 : myCctHops[j] \notin up /\ j < i
    BY <2>1, <2>2, WhyDoomed
  <2>4. i # 1 /\ i - 1 \in 1 .. var + 1 /\ j <= i - 1 /\ i <= var + 1
    BY <1>3, <2>2, <2>3
  <2>5. entry[r].circuitRequesterAddr = myCctHops[i - 1]
    BY <2>2, <2>4 DEF Placed, InPlace, PrevHop
  <2>6. DoneMsg(r, m.cid) \in Message
    BY <1>1, <1>2, <2>1, HeadMessage, MessageTypes DEF Message
  <2>7. RouterSends(r, TRUE, entry[r].circuitRequesterAddr, DoneMsg(r, m.cid))
    BY <2>1, <2>2, DoneIsBare, Asserted
  <2> QED
    BY <2>1, <2>2, <2>3, <2>4, <2>5, <2>6, <2>7, StaysDoomed
<1>7. ~ (RelayFwd(r) \/ ExitFwd(r) \/ RelayBack(r) \/ RawReply(r))
  <2>1. raw[r] = << >>
    BY <1>2 DEF CircuitInv, BuildInv
  <2>2. inbox[r] # << >> => m.cmd # "RELAY_THIS_DATA_FWD" /\ m.cmd # "RELAY_THIS_DATA_BACKWD"
    BY <1>1, <1>2, HeadMessage
  <2> QED
    BY <1>1, <2>1, <2>2 DEF RelayFwd, ExitFwd, RelayBack, RawReply, Receives
<1> QED
  BY <1>4, <1>5, <1>6, <1>7 DEF UdpRead

\* The proxy asks the first hop, dead or alive, and has nothing to read.
LEMMA DoomedWhileAsking ==
  ASSUME CircuitInv, Doomed, SendExtend \/ AwaitDone
  PROVE  Doomed' /\ var' = var
<1>1. /\ var \in Int /\ 0 <= var /\ noOfHops \in Int /\ var + 1 <= noOfHops
      /\ HopsAre(myCctHops)
      /\ \A j \in 1 .. var + 1 : j \in 1 .. noOfHops /\ myCctHops[j] \in Router
      /\ TypeOK /\ HopsChosen
  BY AskedHops DEF Doomed, CircuitInv
<1>2. CASE SendExtend
  <2>1. PICK m : m = ExtendMsg(Proxy, CircuitID, NextHopInfo(myCctHops[var + 2]))
    OBVIOUS
  <2>2. PICK d : d = myCctHops[1]
    OBVIOUS
  <2>3. /\ phase = "send" /\ phase' = "await" /\ inbox' = Sent(inbox, d, m)
        /\ UNCHANGED <<myCctHops, var, up>>
    BY <1>1, <1>2, <2>1, <2>2 DEF SendExtend, HopsChosen, routerVars
  <2>4. d \in Node /\ 1 \in 1 .. var + 1 /\ m \in Message /\ m.cmd = "CIRCUIT_EXTEND"
    <3>1. 1 \in 1 .. var + 1 /\ d \in Router
      BY <1>1, <2>2
    <3>2. var + 1 \in 1 .. noOfHops /\ (var + 1) + 1 = var + 2
      BY <1>1
    <3>3. myCctHops[var + 2] \in HopPort /\ CircuitID \in Word
      BY <2>3, <3>2, PathFacts
    <3> QED
      BY <2>1, <3>1, <3>3, Numbers, MessageTypes DEF NextHopInfo, ExtendMsg
  <2>5. inbox \in [Node -> Seq(Message)] /\ \A e \in Node : inbox[e] = << >>
    BY <1>1, <2>3 DEF TypeOK, CircuitInv, BuildInv, Silent
  <2>6. \/ \A e \in Node : inbox'[e] = << >>
        \/ \A e \in Node : inbox'[e] = IF e = d THEN <<m>> ELSE << >>
    BY <1>1, <2>3, <2>4, <2>5, ArrivesAlone
  <2>7. CASE \A e \in Node : inbox'[e] = << >>
    BY <2>3, <2>7 DEF Doomed
  <2>8. CASE \A e \in Node : inbox'[e] = IF e = d THEN <<m>> ELSE << >>
    <3>1. inbox'[d] = <<m>> /\ <<m>> # << >> /\ Head(<<m>>) = m
      BY <2>4, <2>8
    <3>2. PICK j \in 1 .. var + 1 : myCctHops[j] \notin up
      BY <2>3 DEF Doomed
    <3>3. StillNeeded(j)'
      BY <2>2, <2>3, <2>4, <3>1 DEF StillNeeded
    <3> QED
      BY <2>3, <3>2, <3>3 DEF Doomed
  <2> QED
    BY <2>3, <2>6, <2>7, <2>8
<1>3. CASE AwaitDone
  <2>1. phase = "await" /\ inbox[Proxy] # << >> /\ Proxy \in Node /\ ~ Silent
    BY <1>3, Numbers DEF AwaitDone, Silent
  <2>2. \A i \in 1 .. var + 1 : myCctHops[i] # Proxy /\ myCctHops[i] \in Node
    BY <1>1, Numbers
  <2>3. PICK d : \E x : Only(d, x)
    BY <2>1 DEF CircuitInv, BuildInv, Outstanding, ExtendOut, DoneBack
  <2>4. d = Proxy
    BY <2>1, <2>3 DEF Only
  <2>5. \A i \in 1 .. var + 1 : inbox[myCctHops[i]] = << >>
    BY <2>2, <2>3, <2>4 DEF Only
  <2>6. FALSE
    BY <2>1, <2>5 DEF Doomed, StillNeeded
  <2> QED
    BY <2>6
<1> QED
  BY <1>2, <1>3

\* Another death makes it no better.
LEMMA DoomedWhenKilled ==
  ASSUME CircuitInv, Doomed, NEW r \in Router, RouterIsKilled(r)
  PROVE  Doomed' /\ var' = var
<1>1. /\ var \in Int /\ 0 <= var /\ noOfHops \in Int /\ var + 1 <= noOfHops
      /\ HopsAre(myCctHops)
      /\ \A j \in 1 .. var + 1 : j \in 1 .. noOfHops /\ myCctHops[j] \in Router
      /\ TypeOK /\ phase \in {"send", "await"}
  BY AskedHops DEF Doomed, CircuitInv
<1>2. /\ phase' = phase /\ up' = up \ {r} /\ inbox' = [inbox EXCEPT ![r] = << >>]
      /\ UNCHANGED <<myCctHops, var>>
  BY <1>1 DEF RouterIsKilled, RouterEnds
<1>3. /\ inbox'[r] = << >> /\ \A e \in Node : e # r => inbox'[e] = inbox[e]
      /\ r \in Node /\ \A i \in 1 .. var + 1 : myCctHops[i] \in Node
  BY <1>1, <1>2, Numbers DEF TypeOK
<1>4. CASE \A n \in Node : inbox'[n] = << >>
  <2>1. phase = "send" => \E j \in 1 .. var + 1 : myCctHops[j] \notin up
    BY DEF Doomed
  <2> QED
    BY <1>1, <1>2, <1>4, <2>1 DEF Doomed, StillNeeded
<1>5. CASE ~ \A n \in Node : inbox'[n] = << >>
  <2>1. ~ Silent /\ ~ Silent'
    BY <1>3, <1>5 DEF Silent
  <2>2. phase = "await"
    BY <1>1, <2>1 DEF CircuitInv, BuildInv
  <2>3. PICK d : \E x : Only(d, x)
    BY <2>1, <2>2 DEF CircuitInv, BuildInv, Outstanding, ExtendOut, DoneBack
  <2>4. d # r
    BY <1>3, <2>1, <2>3 DEF Only, Silent
  <2>5. \A n \in Node : inbox'[n] = inbox[n]
    BY <1>3, <2>3, <2>4 DEF Only
  <2>6. PICK j \in 1 .. var + 1 : myCctHops[j] \notin up /\ StillNeeded(j)
    BY <2>1 DEF Doomed, Silent
  <2>7. StillNeeded(j)'
    BY <1>2, <1>3, <2>2, <2>5, <2>6 DEF StillNeeded
  <2> QED
    BY <1>1, <1>2, <2>6, <2>7 DEF Doomed
<1> QED
  BY <1>2, <1>4, <1>5

\* A circuit with a dead hop is never finished: nothing that can happen brings the
\* proxy out of its wait.
THEOREM DeadHopBlocks == Spec => LostHopBlocksBuild
<1>1. ASSUME CircuitInv, [Next]_vars, Doomed
      PROVE  Doomed' /\ var' = var
  <2>1. /\ phase \in {"send", "await"} /\ world = {}
    BY <1>1 DEF Doomed, CircuitInv, BuildInv, Building
  <2>2. CASE Build
    BY <1>1, <2>1, <2>2, DoomedWhileAsking DEF Build, BuildStart, OpenTunnel
  <2>3. CASE TunnelRead \/ SocketRead \/ \E h \in Host : UserPings(h)
    BY <2>1, <2>3 DEF TunnelRead, SocketRead, UserPings
  <2>4. CASE \E r \in Router : UdpRead(r) \/ RawReply(r)
    BY <1>1, <2>4, DoomedWhileRouted
  <2>5. CASE Internet
    BY <2>1, <2>5 DEF Internet
  <2>6. CASE Failure
    BY <1>1, <2>1, <2>6, DoomedWhenKilled DEF Failure, OpenTunnelFails
  <2>7. CASE UNCHANGED vars
    BY <1>1, <2>7 DEF vars, proxyVars, routerVars, Doomed, StillNeeded
  <2> QED
    BY <1>1, <2>2, <2>3, <2>4, <2>5, <2>6, <2>7 DEF Next
<1>2. CircuitInv /\ [Next]_vars => [Doomed => Doomed' /\ var' = var]_vars
  BY <1>1
<1> QED
  BY <1>2, CircuitInvariant, PTL DEF Spec, LostHopBlocksBuild

-----------------------------------------------------------------------------
(* Without failures the construction does not come to a halt.              *)

\* As long as nothing has failed, every router runs and no raw socket holds an error,
\* and while the proxy waits the datagram that will end the wait, or lead to the one
\* that does, is at a process.
OnlyReplies == \A r \in Router : \A n \in DOMAIN raw[r] : raw[r][n].type = "reply"
NothingStalls ==
  faults = 0 => /\ up = Router /\ phase # "exited" /\ OnlyReplies
                /\ phase = "await" => ~ Silent

\* With every queue empty and every process alive a datagram arrives.
LEMMA ArrivesForSure ==
  ASSUME TypeOK, up = Router, phase # "exited", NEW q \in [Node -> Seq(Message)],
         \A e \in Node : q[e] = << >>, NEW d \in Node, NEW m \in Message
  PROVE  Sent(q, d, m)[d] # << >>
<1>1. d \in LiveNodes
  BY Numbers DEF LiveNodes
<1>2. Len(q[d]) < RcvBuf
  <2>1. Len(<< >>) = 0 /\ 0 < RcvBuf
    BY PlainAssumption DEF PlainAssumption
  <2> QED
    BY <2>1
<1>3. Sent(q, d, m)[d] = Append(q[d], m)
  BY <1>1, <1>2 DEF Sent, Deliver
<1>4. Append(<< >>, m) # << >>
  OBVIOUS
<1> QED
  BY <1>3, <1>4

LEMMA HandledForSure ==
  ASSUME TypeOK, up = Router, phase # "exited", NEW r \in Router, NEW x, Only(r, x),
         NEW d \in Node, NEW m \in Message, RouterSends(r, TRUE, d, m)
  PROVE  ~ Silent'
<1>1. d # NoAddress /\ r \in Node /\ inbox \in [Node -> Seq(Message)]
  BY Numbers DEF TypeOK
<1>2. inbox[r] = <<x>> /\ \A e \in Node : e # r => inbox[e] = << >>
  BY <1>1 DEF Only
<1> DEFINE q == Consume(inbox, r)
<1>3. inbox' = Sent(q, d, m)
  BY <1>1 DEF RouterSends
<1>4. q \in [Node -> Seq(Message)] /\ \A e \in Node : q[e] = << >>
  <2>1. inbox[r] # << >> /\ Tail(<<x>>) = << >>
    BY <1>2
  <2>2. Tail(inbox[r]) \in Seq(Message)
    BY <1>1, <2>1
  <2> QED
    BY <1>1, <1>2, <2>1, <2>2 DEF Consume
<1> HIDE DEF q
<1>5. inbox'[d] # << >>
  BY <1>3, <1>4, ArrivesForSure
<1> QED
  BY <1>5 DEF Silent

\* Every handler of the construction passes the datagram on or answers it.
LEMMA PassedOn ==
  ASSUME CircuitInv, phase = "await", up = Router, NEW r \in Router, UdpRead(r) \/ RawReply(r)
  PROVE  ~ Silent'
<1>1. PICK m : m = Head(inbox[r])
  OBVIOUS
<1>2. Building /\ TypeOK /\ phase # "start" /\ phase # "exited"
  BY DEF Building, CircuitInv
<1>3. \A i \in 1 .. noOfHops : PrevHop(i) \in Node
  BY <1>2, PathFacts
<1>4. CASE NewExtend(r)
  <2>1. /\ inbox[r] # << >> /\ m.cmd = "CIRCUIT_EXTEND"
        /\ RouterSends(r, TRUE, m.from, DoneMsg(r, m.cid))
    BY <1>1, <1>4 DEF NewExtend, Receives
  <2>2. Only(r, m) /\ m.from \in Node /\ m.cid \in Word
    BY <1>1, <2>1, HeadMessage DEF Message
  <2>3. DoneMsg(r, m.cid) \in Message
    BY <2>2, Numbers, MessageTypes
  <2> QED
    BY <1>2, <2>1, <2>2, <2>3, HandledForSure
<1>5. CASE ForwardExtend(r)
  <2>1. /\ inbox[r] # << >> /\ m.cmd = "CIRCUIT_EXTEND" /\ TO_FORWARD[r]
        /\ RouterSends(r, TRUE, entry[r].nextHop, ExtendOnward(r, m))
    BY <1>1, <1>5 DEF ForwardExtend, Receives
  <2>2. PICK i \in 1 .. noOfHops : r = myCctHops[i] /\ Placed(var) /\ i <= var + 1 /\ Only(r, m)
    BY <1>1, <2>1, HeadMessage
  <2>3. i <= var /\ InPlace(i)
    BY <2>1, <2>2 DEF Placed
  <2>4. entry[r].nextHop \in Node
    <3>1. var \in Int /\ var + 1 <= noOfHops /\ \A j \in 1 .. var + 1 : myCctHops[j] \in Router
      BY AskedHops
    <3>2. i + 1 \in 1 .. var + 1
      BY <2>3, <3>1
    <3>3. entry[r].nextHop = myCctHops[i + 1]
      BY <2>2, <2>3 DEF InPlace
    <3> QED
      BY <3>1, <3>2, <3>3, Numbers
  <2>5. PICK a : a = ExtendOnward(r, m)
    OBVIOUS
  <2>6. a \in Message
    <3>1. htons(entry[r].myCircuitID) \in Word
      BY <1>2, HtonsType DEF TypeOK, CircuitInfoEntry
    <3>2. m.next \in HopPort
      BY <1>1, <2>1, HeadMessage DEF Message
    <3> QED
      BY <2>5, <3>1, <3>2, Numbers, MessageTypes DEF ExtendOnward
  <2> QED
    BY <1>2, <2>1, <2>2, <2>4, <2>5, <2>6, HandledForSure
<1>6. CASE ForwardDone(r)
  <2>1. /\ inbox[r] # << >> /\ m.cmd = "CIRCUIT_EXTEND_DONE"
        /\ RouterSends(r, IsBare(m), entry[r].circuitRequesterAddr, DoneMsg(r, m.cid))
    BY <1>1, <1>6 DEF ForwardDone, Receives
  <2>2. PICK i \in 1 .. noOfHops : /\ r = myCctHops[i] /\ Placed(var + 1) /\ i <= var
                                   /\ Only(r, m) /\ m.cid \in Word
                                   /\ \E c \in Word : m = DoneMsg(myCctHops[i + 1], c)
    BY <1>1, <2>1, HeadMessage DEF Message
  <2>3. i <= var + 1
    BY <1>2, <2>2, PathFacts
  <2>4. entry[r].circuitRequesterAddr \in Node
    BY <1>3, <2>2, <2>3 DEF Placed, InPlace
  <2>5. PICK d, a : d = entry[r].circuitRequesterAddr /\ a = DoneMsg(r, m.cid)
    OBVIOUS
  <2>6. a \in Message
    BY <2>2, <2>5, Numbers, MessageTypes
  <2>7. IsBare(m)
    BY <2>2, DoneIsBare
  <2>8. RouterSends(r, TRUE, d, a)
    BY <2>1, <2>5, <2>7, Asserted
  <2> QED
    BY <1>2, <2>2, <2>4, <2>5, <2>6, <2>8, HandledForSure
<1>7. ~ (RelayFwd(r) \/ ExitFwd(r) \/ RelayBack(r) \/ RawReply(r))
  <2>1. raw[r] = << >>
    BY <1>2 DEF CircuitInv, BuildInv
  <2>2. inbox[r] # << >> => m.cmd # "RELAY_THIS_DATA_FWD" /\ m.cmd # "RELAY_THIS_DATA_BACKWD"
    BY <1>1, <1>2, HeadMessage
  <2> QED
    BY <1>1, <2>1, <2>2 DEF RelayFwd, ExitFwd, RelayBack, RawReply, Receives
<1> QED
  BY <1>4, <1>5, <1>6, <1>7 DEF UdpRead

\* The extend message that the proxy waits for an answer to has reached the first hop.
LEMMA AskedForSure ==
  ASSUME CircuitInv, up = Router, SendExtend
  PROVE  ~ Silent'
<1>1. PICK m : m = ExtendMsg(Proxy, CircuitID, NextHopInfo(myCctHops[var + 2]))
  OBVIOUS
<1>2. /\ phase = "send" /\ TypeOK /\ inbox' = Sent(inbox, sendToAddress, m)
      /\ \A e \in Node : inbox[e] = << >>
  BY <1>1 DEF SendExtend, CircuitInv, BuildInv, Silent
<1>3. sendToAddress \in Node /\ m \in Message
  <2>1. var \in Int /\ 0 <= var /\ noOfHops \in Int /\ var + 1 <= noOfHops
    BY <1>2, AskedHops
  <2>2. var + 1 \in 1 .. noOfHops /\ (var + 1) + 1 = var + 2
    BY <2>1
  <2>3. myCctHops[var + 2] \in HopPort /\ CircuitID \in Word /\ sendToAddress \in Node
    BY <1>2, <2>2, PathFacts
  <2> QED
    BY <1>1, <2>3, Numbers, MessageTypes DEF NextHopInfo
<1>4. inbox \in [Node -> Seq(Message)]
  BY <1>2 DEF TypeOK
<1> QED
  BY <1>2, <1>3, <1>4, ArrivesForSure DEF Silent

\* A router takes from its raw socket and puts nothing there.
LEMMA TakesFromRaw ==
  ASSUME CircuitInv, OnlyReplies, NEW r \in Router, UdpRead(r) \/ RawReply(r)
  PROVE  OnlyReplies'
<1>1. raw \in [Router -> Seq(Packet \cup IcmpError)]
  BY DEF CircuitInv, TypeOK
<1>2. \/ raw' = raw
      \/ raw' = [raw EXCEPT ![r] = << >>]
      \/ raw[r] # << >> /\ raw' = [raw EXCEPT ![r] = Tail(raw[r])]
  BY DEF UdpRead, NewExtend, ForwardExtend, ForwardDone, RelayFwd, ExitFwd, RelayBack, RawReply,
         RouterSends, RouterEnds
<1>3. CASE raw' = raw
  BY <1>3 DEF OnlyReplies
<1>4. CASE raw' = [raw EXCEPT ![r] = << >>]
  BY <1>1, <1>4, EmptyQueue DEF OnlyReplies
<1>5. CASE raw[r] # << >> /\ raw' = [raw EXCEPT ![r] = Tail(raw[r])]
  <2>1. PICK z : z = raw[r]
    OBVIOUS
  <2>2. \A n \in DOMAIN Tail(z) : n + 1 \in DOMAIN z /\ Tail(z)[n] = z[n + 1]
    BY <1>1, <1>5, <2>1, Shortened
  <2>3. \A n \in DOMAIN Tail(z) : Tail(z)[n].type = "reply"
    BY <2>1, <2>2 DEF OnlyReplies
  <2> QED
    BY <1>1, <1>5, <2>1, <2>3 DEF OnlyReplies
<1> QED
  BY <1>2, <1>3, <1>4, <1>5

\* What the Internet answers is a reply.
LEMMA RepliesToRaw ==
  ASSUME CircuitInv, OnlyReplies, NEW q \in world, InternetReplies(q)
  PROVE  OnlyReplies'
<1>1. raw \in [Router -> Seq(Packet \cup IcmpError)] /\ up \subseteq Router /\ q \in Packet
  BY DEF CircuitInv, TypeOK
<1>2. PICK x, p : x = q.saddr /\ p = Answering(q, "reply")
  OBVIOUS
<1>3. CASE x \in up
  <2>1. raw' = [raw EXCEPT ![x] = Append(raw[x], p)] /\ x \in Router
    BY <1>1, <1>2, <1>3 DEF InternetReplies, ComesBack
  <2>2. p \in Packet \cup IcmpError /\ p.type = "reply"
    BY <1>1, <1>2 DEF Packet, Answering
  <2>3. PICK z : z = raw[x]
    OBVIOUS
  <2>4. \A n \in DOMAIN Append(z, p) :
          (n \in DOMAIN z /\ Append(z, p)[n] = z[n]) \/ Append(z, p)[n] = p
    BY <1>1, <2>1, <2>2, <2>3, Appended
  <2>5. \A n \in DOMAIN Append(z, p) : Append(z, p)[n].type = "reply"
    BY <2>1, <2>2, <2>3, <2>4 DEF OnlyReplies
  <2> QED
    BY <1>1, <2>1, <2>3, <2>5 DEF OnlyReplies
<1>4. CASE x \notin up
  BY <1>2, <1>4 DEF InternetReplies, ComesBack, OnlyReplies
<1> QED
  BY <1>3, <1>4

\* The phase tells whether a step concerns the construction.
LEMMA WaitsOn ==
  ASSUME CircuitInv, [Next]_vars, faults' = 0, NothingStalls
  PROVE  NothingStalls'
<1>1. /\ faults = 0 /\ up' = Router /\ up = Router /\ phase # "exited"
      /\ OnlyReplies /\ (phase = "await" => ~ Silent)
  <2>1. faults' = faults \/ faults' = faults + 1
    BY DEF Next, Build, BuildStart, SendExtend, AwaitDone, OpenTunnel, TunnelRead, SocketRead,
           UserPings, UdpRead, NewExtend, ForwardExtend, ForwardDone, RelayFwd, ExitFwd,
           RelayBack, RawReply, Internet, InternetReplies, Failure, OpenTunnelFails,
           InternetLoses, InternetRefuses, RouterIsKilled, vars
  <2>2. faults \in Nat
    BY PlainAssumption DEF CircuitInv, TypeOK, PlainAssumption
  <2>3. faults = 0 /\ faults' = faults /\ faults' # faults + 1
    BY <2>1, <2>2
  <2>4. up = Router /\ phase # "exited" /\ OnlyReplies /\ (phase = "await" => ~ Silent)
    BY <2>3 DEF NothingStalls
  <2>5. up' \subseteq Router
    <3>1. CircuitInv'
      BY NextInv
    <3> QED
      BY <3>1 DEF CircuitInv, TypeOK
  <2>6. \A r \in Router : r \in up'
    <3> TAKE r \in Router
    <3>1. SUFFICES ASSUME r \notin up' PROVE FALSE
      OBVIOUS
    <3>2. raw[r] # << >> /\ Head(raw[r]).type = "error"
      BY <2>3, <2>4, <3>1, WhyRoutersEnd
    <3>3. PICK z : z = raw[r]
      OBVIOUS
    <3>4. z \in Seq(Packet \cup IcmpError) /\ z # << >>
      BY <3>2, <3>3 DEF CircuitInv, TypeOK
    <3>5. 1 \in DOMAIN z /\ Head(z) = z[1]
      BY <3>4
    <3>6. Head(z).type = "reply"
      BY <2>4, <3>3, <3>5 DEF OnlyReplies
    <3> QED
      BY <3>2, <3>3, <3>6
  <2> QED
    BY <2>3, <2>4, <2>5, <2>6
<1>2. CASE Build
  BY <1>1, <1>2, AskedForSure DEF Build, BuildStart, AwaitDone, OpenTunnel, SendExtend,
                                  NothingStalls, OnlyReplies, routerVars
<1>3. CASE TunnelRead \/ SocketRead \/ \E h \in Host : UserPings(h)
  BY <1>1, <1>3 DEF TunnelRead, SocketRead, UserPings, NothingStalls, OnlyReplies, routerVars
<1>4. CASE \E r \in Router : UdpRead(r) \/ RawReply(r)
  <2>1. PICK r \in Router : UdpRead(r) \/ RawReply(r)
    BY <1>4
  <2>2. phase' = phase
    BY <1>1, <2>1 DEF UdpRead, NewExtend, ForwardExtend, ForwardDone, RelayFwd, ExitFwd,
                      RelayBack, RawReply, RouterSends, RouterEnds, proxyVars, Receives
  <2> QED
    BY <1>1, <2>1, <2>2, PassedOn, TakesFromRaw DEF NothingStalls
<1>5. CASE Internet
  <2>1. PICK q \in world : InternetReplies(q)
    BY <1>5 DEF Internet
  <2>2. OnlyReplies'
    BY <1>1, <2>1, RepliesToRaw
  <2> QED
    BY <1>1, <2>1, <2>2 DEF InternetReplies, proxyVars, NothingStalls, Silent
<1>6. ~ Failure
  <2>1. faults \in Nat
    BY PlainAssumption DEF CircuitInv, TypeOK, PlainAssumption
  <2> QED
    BY <2>1 DEF Failure, OpenTunnelFails, InternetLoses, InternetRefuses, RouterIsKilled
<1>7. CASE UNCHANGED vars
  BY <1>1, <1>7 DEF vars, proxyVars, routerVars, NothingStalls, OnlyReplies, Silent
<1> QED
  BY <1>2, <1>3, <1>4, <1>5, <1>6, <1>7 DEF Next

\* Only a failure can keep the circuit from being built: as long as none has
\* happened, no datagram of the construction is dropped, misdirected or swallowed, no
\* raw socket holds what fails its router's assertion, and the proxy, which waits
\* without a timeout (proxy.cc:145), does not wait in vain.
THEOREM BuildsUnlessFailed == Spec => []NothingStalls
<1>1. Init => NothingStalls
  BY EmptyQueue DEF Init, NothingStalls, OnlyReplies
<1>2. CircuitInv /\ NothingStalls /\ [Next]_vars => NothingStalls'
  BY WaitsOn DEF NothingStalls
<1> QED
  BY <1>1, <1>2, CircuitInvariant, PTL DEF Spec

-----------------------------------------------------------------------------
(* The packets of the pings.                                               *)

\* A packet of a ping that was sent: to its host or, answered, from its host.  What
\* comes back instead may be an error.
Genuine ==
  {p \in Packet \cup IcmpError :
     /\ p.id \in DOMAIN pinged
     /\ p.type = "request" => p.daddr = pinged[p.id]
     /\ p.type = "reply" => p.saddr = pinged[p.id]}

\* While the circuit is built no datagram carries a ping; afterwards every packet
\* is one, and none is there twice.
NoPings   == \A n \in Node : \A k \in DOMAIN inbox[n] : inbox[n][k].pkt = NoPacket
PingsOnce == Tracked(Genuine, tun, delivered, Carried(inbox), raw, world)

LEMMA SameGenuine == pinged' = pinged => Genuine' = Genuine
BY DEF Genuine

\* On its way a request gets another source, a reply another destination.
LEMMA GenuineOnward ==
  ASSUME NEW p \in Genuine, NEW a \in IP
  PROVE  /\ p.type = "request" => /\ [p EXCEPT !.saddr = a] \in Genuine
                                  /\ [p EXCEPT !.saddr = a].id = p.id
         /\ p.type = "reply" => /\ [p EXCEPT !.daddr = a] \in Genuine
                                /\ [p EXCEPT !.daddr = a].id = p.id
<1>1. /\ p.type \in {"request", "reply"} => p \in Packet
      /\ p.id \in DOMAIN pinged
      /\ p.type = "request" => p.daddr = pinged[p.id]
      /\ p.type = "reply" => p.saddr = pinged[p.id]
  BY DEF Genuine, Packet, IcmpError
<1>2. ASSUME p.type = "request"
      PROVE  [p EXCEPT !.saddr = a] \in Genuine /\ [p EXCEPT !.saddr = a].id = p.id
  <2>1. PICK z : z = [p EXCEPT !.saddr = a]
    OBVIOUS
  <2>2. z \in Packet /\ z.id = p.id /\ z.type = "request" /\ z.daddr = p.daddr
    BY <1>1, <1>2, <2>1 DEF Packet
  <2>3. z \in Genuine
    BY <1>1, <1>2, <2>2 DEF Genuine
  <2> QED
    BY <2>1, <2>2, <2>3
<1>3. ASSUME p.type = "reply"
      PROVE  [p EXCEPT !.daddr = a] \in Genuine /\ [p EXCEPT !.daddr = a].id = p.id
  <2>1. PICK z : z = [p EXCEPT !.daddr = a]
    OBVIOUS
  <2>2. z \in Packet /\ z.id = p.id /\ z.type = "reply" /\ z.saddr = p.saddr
    BY <1>1, <1>3, <2>1 DEF Packet
  <2>3. z \in Genuine
    BY <1>1, <1>3, <2>2 DEF Genuine
  <2> QED
    BY <2>1, <2>2, <2>3
<1> QED
  BY <1>1, <1>2, <1>3

\* The host answers a request, or an error does.
LEMMA GenuineAnswer ==
  ASSUME NEW p \in Genuine, p.type = "request", NEW type \in {"reply", "error"}
  PROVE  Answering(p, type) \in Genuine /\ Answering(p, type).id = p.id
<1>1. p \in Packet /\ p.id \in DOMAIN pinged /\ p.daddr = pinged[p.id]
  BY DEF Genuine, Packet, IcmpError
<1>2. PICK a, b : a = p.daddr /\ b = p.saddr
  OBVIOUS
<1>3. PICK z : z = [p EXCEPT !.type = type, !.saddr = a, !.daddr = b]
  OBVIOUS
<1>4. z \in Packet \cup IcmpError /\ z.id = p.id /\ z.type = type /\ z.saddr = p.daddr
  BY <1>1, <1>2, <1>3 DEF Packet, IcmpError
<1>5. z \in Genuine
  BY <1>1, <1>4 DEF Genuine
<1> QED
  BY <1>2, <1>3, <1>4, <1>5 DEF Answering

LEMMA GenuineRequest ==
  ASSUME CircuitInv, NEW h \in Host, UserPings(h), NEW p,
         p = [id |-> Len(pinged) + 1, type |-> "request", saddr |-> Eth(0), daddr |-> h]
  PROVE  /\ Genuine \subseteq Genuine' /\ p \in Genuine'
         /\ \A q \in Genuine : q.id # p.id
<1>1. PICK k : k = Len(pinged) + 1
  OBVIOUS
<1>2. pinged' = Append(pinged, h) /\ pinged \in Seq(Host) /\ Len(pinged) < MaxPings
  BY DEF UserPings, CircuitInv, TypeOK
<1>3. /\ k \in Ping /\ k \notin DOMAIN pinged /\ k \in DOMAIN pinged' /\ pinged'[k] = h
      /\ \A n \in DOMAIN pinged : n \in DOMAIN pinged' /\ pinged'[n] = pinged[n]
  BY <1>1, <1>2, PlainAssumption DEF PlainAssumption, Ping
<1>4. Genuine \subseteq Genuine'
  BY <1>3 DEF Genuine
<1>5. p \in Packet /\ p.id = k /\ p.type = "request" /\ p.daddr = h
  BY <1>1, <1>3, Numbers DEF Packet, IP, Proxy
<1>6. p \in Genuine'
  BY <1>3, <1>5 DEF Genuine
<1>7. \A q \in Genuine : q.id # k
  BY <1>3 DEF Genuine
<1> QED
  BY <1>4, <1>5, <1>6, <1>7

-----------------------------------------------------------------------------
(* The building of the circuit.                                            *)

\* At most one datagram is on its way, and it is about the circuit.
LEMMA BuildingNoPings ==
  ASSUME CircuitInv, Building
  PROVE  NoPings
<1>1. CASE phase = "await"
  <2>1. Silent \/ \E d \in Node : \E m : Only(d, m) /\ m.pkt = NoPacket
    <3>1. phase # "start" /\ Outstanding
      BY <1>1 DEF CircuitInv, BuildInv
    <3>2. /\ var \in Int /\ 0 <= var /\ noOfHops \in Int /\ var + 1 <= noOfHops
          /\ \A i \in 1 .. noOfHops : PrevHop(i) \in Node /\ myCctHops[i] \in Node
      BY <1>1, <3>1, PathFacts, AskedHops
    <3>3. ASSUME NEW i \in 1 .. var + 1, ExtendOut(i)
          PROVE  \E d \in Node : \E m : Only(d, m) /\ m.pkt = NoPacket
      <4>1. PICK m : m = ExtendMsg(PrevHop(i), htons(GivenAt(i)), myCctHops[var + 2])
        OBVIOUS
      <4>2. Only(myCctHops[i], m) /\ m.pkt = NoPacket /\ myCctHops[i] \in Node
        BY <3>2, <3>3, <4>1 DEF ExtendOut, ExtendMsg
      <4> QED
        BY <4>2
    <3>4. ASSUME NEW i \in 1 .. var + 1, DoneBack(i)
          PROVE  \E d \in Node : \E m : Only(d, m) /\ m.pkt = NoPacket
      <4>1. PICK c \in Word : Only(PrevHop(i), DoneMsg(myCctHops[i], c))
        BY <3>4 DEF DoneBack
      <4>2. DoneMsg(myCctHops[i], c).pkt = NoPacket /\ PrevHop(i) \in Node
        BY <3>2 DEF DoneMsg
      <4> QED
        BY <4>1, <4>2
    <3> QED
      BY <3>1, <3>3, <3>4 DEF Outstanding
  <2>2. CASE Silent
    BY <2>2, EmptyQueue DEF Silent, NoPings
  <2>3. ASSUME NEW d \in Node, NEW m, Only(d, m), m.pkt = NoPacket
        PROVE  NoPings
    <3>1. \A k \in DOMAIN <<m>> : <<m>>[k] = m
      OBVIOUS
    <3> QED
      BY <2>3, <3>1, EmptyQueue DEF Only, NoPings
  <2> QED
    BY <2>1, <2>2, <2>3
<1>2. CASE phase # "await"
  BY <1>2, EmptyQueue DEF CircuitInv, BuildInv, Building, Silent, NoPings
<1> QED
  BY <1>1, <1>2

\* When the building ends nothing is on its way at all.
LEMMA StartsWithNone ==
  ASSUME CircuitInv, phase = "built", UNCHANGED <<tun, delivered, raw, inbox, world>>
  PROVE  PingsOnce'
<1>1. /\ tun = << >> /\ delivered = << >> /\ world = {} /\ Silent
      /\ raw \in [Router -> Seq(Packet \cup IcmpError)]
      /\ \A r \in Router : raw[r] = << >>
  BY DEF CircuitInv, BuildInv, Building, TypeOK
<1>2. PICK o : o = << >>
  OBVIOUS
<1>3. Pkts(o) = o
  BY <1>2 DEF Pkts
<1>4. Carried(inbox) = [n \in Node |-> o]
  BY <1>1, <1>2, <1>3 DEF Carried, Silent
<1>5. raw = [r \in Router |-> o]
  BY <1>1, <1>2
<1>6. Tracked(Genuine', o, o, [n \in Node |-> o], [r \in Router |-> o], {})
  BY <1>2, NothingTracked
<1> QED
  BY <1>1, <1>2, <1>4, <1>5, <1>6 DEF PingsOnce

-----------------------------------------------------------------------------
(* The relaying: one lemma per action.                                     *)

\* A datagram with a packet that is nowhere is sent.
LEMMA SentOnce ==
  ASSUME TypeOK, NEW q \in [Node -> Seq(Message)], NEW t, NEW e, NEW a, NEW w,
         Tracked(Genuine, t, e, Carried(q), a, w), NEW n, NEW m,
         m.pkt \in Genuine, Absent(m.pkt.id, PingsIn(t, e, Carried(q), a, w))
  PROVE  Tracked(Genuine, t, e, Carried(Sent(q, n, m)), a, w)
<1>1. PICK M : M = Message \cup {m}
  OBVIOUS
<1>2. q \in [Node -> Seq(M)] /\ m \in M
  <2>1. \A d \in Node : q[d] \in Seq(M)
    BY <1>1, SeqWidened
  <2> QED
    BY <1>1, <2>1
<1> QED
  BY <1>2, LiveNodesType, PutDatagram DEF Sent

LEMMA RouterEndsOnce ==
  ASSUME TypeOK, PingsOnce, NEW r \in Router, RouterEnds(r),
         UNCHANGED <<tun, delivered, world, pinged>>
  PROVE  PingsOnce'
<1>1. /\ inbox' = [inbox EXCEPT ![r] = << >>] /\ raw' = [raw EXCEPT ![r] = << >>]
      /\ r \in Node /\ inbox \in [Node -> Seq(Message)]
  BY Numbers DEF RouterEnds, TypeOK
<1>2. PICK i : i = Carried(inbox)
  OBVIOUS
<1>3. Carried(inbox') = [i EXCEPT ![r] = << >>]
  BY <1>1, <1>2, DatagramsCleared
<1>4. Tracked(Genuine, tun, delivered, [i EXCEPT ![r] = << >>], [raw EXCEPT ![r] = << >>],
              world)
  BY <1>2, QueuesCleared DEF PingsOnce
<1> QED
  BY <1>1, <1>3, <1>4, SameGenuine DEF PingsOnce

\* A router takes a datagram and sends its packet on.
LEMMA RoutedOnce ==
  ASSUME TypeOK, PingsOnce, NEW r \in Router, inbox[r] # << >>, NEW asserted, NEW d, NEW m,
         RouterSends(r, asserted, d, m), UNCHANGED <<tun, delivered, world, pinged>>,
         Head(inbox[r]).pkt \in Genuine =>
           m.pkt \in Genuine /\ m.pkt.id = Head(inbox[r]).pkt.id
  PROVE  PingsOnce'
<1>1. CASE ~ (asserted /\ d # NoAddress)
  BY <1>1, RouterEndsOnce DEF RouterSends
<1>2. CASE asserted /\ d # NoAddress
  <2>1. PICK q : q = Consume(inbox, r)
    OBVIOUS
  <2>2. inbox \in [Node -> Seq(Message)] /\ r \in Node /\ q \in [Node -> Seq(Message)]
    BY <2>1, Numbers, Consumed DEF TypeOK
  <2>3. inbox' = Sent(q, d, m) /\ UNCHANGED <<up, raw, phase>>
    BY <1>2, <2>1 DEF RouterSends
  <2>4. /\ Head(inbox[r]).pkt \in Genuine
        /\ Tracked(Genuine, tun, delivered, Carried(q), raw, world)
        /\ Absent(Head(inbox[r]).pkt.id, PingsIn(tun, delivered, Carried(q), raw, world))
    BY <2>1, <2>2, TakeDatagram DEF PingsOnce
  <2>5. Tracked(Genuine, tun, delivered, Carried(Sent(q, d, m)), raw, world)
    BY <2>2, <2>4, SentOnce
  <2> QED
    BY <2>3, <2>5, SameGenuine DEF PingsOnce
<1> QED
  BY <1>1, <1>2

LEMMA UserPingsOnce ==
  ASSUME CircuitInv, PingsOnce, NEW h \in Host, UserPings(h)
  PROVE  PingsOnce'
<1>1. PICK p : p = [id |-> Len(pinged) + 1, type |-> "request", saddr |-> Eth(0), daddr |-> h]
  OBVIOUS
<1>2. tun' = Append(tun, p) /\ UNCHANGED <<delivered, raw, inbox, world>>
  BY <1>1 DEF UserPings, routerVars
<1>3. PICK S : S = Genuine'
  OBVIOUS
<1>4. Genuine \subseteq S /\ p \in S /\ \A q \in Genuine : q.id # p.id
  BY <1>1, <1>3, GenuineRequest
<1>5. Tracked(S, tun, delivered, Carried(inbox), raw, world)
  BY <1>4, TrackedWidened DEF PingsOnce
<1>6. Absent(p.id, PingsIn(tun, delivered, Carried(inbox), raw, world))
  BY <1>4, FreshNumber DEF PingsOnce
<1>7. Tracked(S, Append(tun, p), delivered, Carried(inbox), raw, world)
  BY <1>4, <1>5, <1>6, PutTun
<1> QED
  BY <1>2, <1>3, <1>7 DEF PingsOnce

LEMMA TunnelReadOnce ==
  ASSUME CircuitInv, PingsOnce, TunnelRead
  PROVE  PingsOnce'
<1>1. PICK p : p = Head(tun)
  OBVIOUS
<1>2. PICK m : m = RelayMsg(Proxy, "RELAY_THIS_DATA_FWD", CircuitID, p)
  OBVIOUS
<1>3. /\ tun # << >> /\ tun' = Tail(tun) /\ inbox' = Sent(inbox, myCctHops[1], m)
      /\ UNCHANGED <<delivered, raw, world, pinged>>
  BY <1>1, <1>2 DEF TunnelRead, routerVars
<1>4. PICK u : u = Tail(tun)
  OBVIOUS
<1>5. /\ p \in Genuine /\ Tracked(Genuine, u, delivered, Carried(inbox), raw, world)
      /\ Absent(p.id, PingsIn(u, delivered, Carried(inbox), raw, world))
  BY <1>1, <1>3, <1>4, TakeTun DEF PingsOnce
<1>6. TypeOK /\ inbox \in [Node -> Seq(Message)] /\ m.pkt = p
  BY <1>2 DEF CircuitInv, TypeOK, RelayMsg
<1>7. Tracked(Genuine, u, delivered, Carried(Sent(inbox, myCctHops[1], m)), raw, world)
  BY <1>5, <1>6, SentOnce
<1> QED
  BY <1>3, <1>4, <1>7, SameGenuine DEF PingsOnce

\* The proxy writes an answer to a ping that had none.
LEMMA SocketReadOnce ==
  ASSUME CircuitInv, PingsOnce, SocketRead
  PROVE  /\ PingsOnce' /\ Head(inbox[Proxy]).pkt \in Genuine
         /\ \A k \in DOMAIN delivered : delivered[k].id # Head(inbox[Proxy]).pkt.id
<1>1. PICK p : p = Head(inbox[Proxy]).pkt
  OBVIOUS
<1>2. /\ inbox[Proxy] # << >> /\ inbox' = Consume(inbox, Proxy)
      /\ delivered' = Append(delivered, p)
      /\ UNCHANGED <<tun, raw, world, pinged>>
  BY <1>1 DEF SocketRead, routerVars
<1>3. PICK i : i = Carried(Consume(inbox, Proxy))
  OBVIOUS
<1>4. inbox \in [Node -> Seq(Message)] /\ Proxy \in Node
  BY Numbers DEF CircuitInv, TypeOK
<1>5. /\ p \in Genuine /\ Tracked(Genuine, tun, delivered, i, raw, world)
      /\ Absent(p.id, PingsIn(tun, delivered, i, raw, world))
  BY <1>1, <1>2, <1>3, <1>4, TakeDatagram DEF PingsOnce
<1>6. Tracked(Genuine, tun, Append(delivered, p), i, raw, world)
  BY <1>5, PutDelivered
<1>7. \A k \in DOMAIN delivered : delivered[k].id # p.id
  BY <1>5, DeliveredBefore
<1> QED
  BY <1>1, <1>2, <1>3, <1>5, <1>6, <1>7, SameGenuine DEF PingsOnce

LEMMA RelayFwdOnce ==
  ASSUME CircuitInv, PingsOnce, NEW r \in Router, RelayFwd(r)
  PROVE  PingsOnce'
<1>1. PICK m : m = Head(inbox[r])
  OBVIOUS
<1>2. PICK a : a = PingOnward(r, m)
  OBVIOUS
<1>3. /\ inbox[r] # << >> /\ m.cmd = "RELAY_THIS_DATA_FWD"
      /\ RouterSends(r, TRUE, entry[r].nextHop, a)
      /\ UNCHANGED <<tun, delivered, world, pinged>>
  BY <1>1, <1>2 DEF RelayFwd, Receives
<1>4. m.pkt.type = "request" /\ Eth(r) \in IP /\ TypeOK
  BY <1>1, <1>3, HeadMessage, Numbers DEF FwdOK, CircuitInv
<1>5. a.pkt = [m.pkt EXCEPT !.saddr = Eth(r)]
  BY <1>2 DEF PingOnward, RelayMsg
<1>6. m.pkt \in Genuine => a.pkt \in Genuine /\ a.pkt.id = m.pkt.id
  BY <1>4, <1>5, GenuineOnward
<1> QED
  BY <1>1, <1>3, <1>4, <1>6, RoutedOnce

LEMMA ExitFwdOnce ==
  ASSUME CircuitInv, PingsOnce, NEW r \in Router, ExitFwd(r)
  PROVE  PingsOnce'
<1>1. PICK m : m = Head(inbox[r])
  OBVIOUS
<1>2. PICK a : a = [m.pkt EXCEPT !.saddr = Eth(r)]
  OBVIOUS
<1>3. inbox[r] # << >> /\ m.cmd = "RELAY_THIS_DATA_FWD"
  BY <1>1 DEF ExitFwd, Receives
<1>4. /\ m.pkt.type = "request" /\ Eth(r) \in IP /\ r \in Node
      /\ inbox \in [Node -> Seq(Message)]
  BY <1>1, <1>3, HeadMessage, Numbers DEF FwdOK, CircuitInv, TypeOK
<1>5. /\ inbox' = Consume(inbox, r) /\ world' = world \cup {a}
      /\ UNCHANGED <<tun, delivered, raw, pinged>>
  BY <1>1, <1>2, <1>4 DEF ExitFwd, IsPing
<1>6. PICK i : i = Carried(Consume(inbox, r))
  OBVIOUS
<1>7. /\ m.pkt \in Genuine /\ Tracked(Genuine, tun, delivered, i, raw, world)
      /\ Absent(m.pkt.id, PingsIn(tun, delivered, i, raw, world))
  BY <1>1, <1>3, <1>4, <1>6, TakeDatagram DEF PingsOnce
<1>8. a \in Genuine /\ a.id = m.pkt.id
  BY <1>2, <1>4, <1>7, GenuineOnward
<1>9. Tracked(Genuine, tun, delivered, i, raw, world \cup {a})
  BY <1>7, <1>8, PutWorld
<1> QED
  BY <1>5, <1>6, <1>9, SameGenuine DEF PingsOnce

\* What a router makes of a reply is a packet of the same ping.
LEMMA BackwardOnce ==
  ASSUME TypeOK, NEW r \in Router, NEW c, NEW p \in Genuine, p.type = "reply"
  PROVE  BackwardMsg(r, c, p).pkt \in Genuine /\ BackwardMsg(r, c, p).pkt.id = p.id
<1>1. entry[r].prevHopRealIP \in IP /\ Eth(0) \in IP
  BY Numbers DEF TypeOK, CircuitInfoEntry, Proxy
<1>2. \E a \in IP : BackwardMsg(r, c, p).pkt = [p EXCEPT !.daddr = a]
  BY <1>1 DEF BackwardMsg, RelayMsg
<1> QED
  BY <1>2, GenuineOnward

LEMMA RelayBackOnce ==
  ASSUME CircuitInv, PingsOnce, NEW r \in Router, RelayBack(r)
  PROVE  PingsOnce'
<1>1. PICK m : m = Head(inbox[r])
  OBVIOUS
<1>2. PICK a : a = BackwardMsg(r, m.cid, m.pkt)
  OBVIOUS
<1>3. /\ inbox[r] # << >> /\ m.cmd = "RELAY_THIS_DATA_BACKWD"
      /\ RouterSends(r, IsPing(m.pkt), entry[r].circuitRequesterAddr, a)
      /\ UNCHANGED <<tun, delivered, world, pinged>>
  BY <1>1, <1>2 DEF RelayBack, Receives
<1>4. m.pkt.type = "reply" /\ TypeOK
  BY <1>1, <1>3, HeadMessage DEF BackOK, CircuitInv
<1>5. m.pkt \in Genuine => a.pkt \in Genuine /\ a.pkt.id = m.pkt.id
  BY <1>2, <1>4, BackwardOnce
<1> QED
  BY <1>1, <1>3, <1>4, <1>5, RoutedOnce

LEMMA RawReplyOnce ==
  ASSUME CircuitInv, ~ Building, PingsOnce, NEW r \in Router, RawReply(r)
  PROVE  PingsOnce'
<1>1. PICK p : p = Head(raw[r])
  OBVIOUS
<1>2. PICK m : m = BackwardMsg(r, htons(entry[r].givenCicuitID), p)
  OBVIOUS
<1>3. PICK d : d = entry[r].circuitRequesterAddr
  OBVIOUS
<1>4. /\ raw[r] # << >> /\ UNCHANGED <<tun, delivered, world, pinged>>
      /\ \/ /\ IsPing(p)
            /\ inbox' = Sent(inbox, d, m) /\ raw' = [raw EXCEPT ![r] = Tail(@)]
         \/ RouterEnds(r)
  BY <1>1, <1>2, <1>3 DEF RawReply
<1>5. /\ TypeOK /\ inbox \in [Node -> Seq(Message)]
      /\ IsPing(p) => p.type = "reply"
  BY <1>1, <1>4, RawHead DEF CircuitInv, TypeOK
<1>6. PICK c : c = [raw EXCEPT ![r] = Tail(@)]
  OBVIOUS
<1>7. /\ p \in Genuine /\ Tracked(Genuine, tun, delivered, Carried(inbox), c, world)
      /\ Absent(p.id, PingsIn(tun, delivered, Carried(inbox), c, world))
  BY <1>1, <1>4, <1>6, TakeRaw DEF PingsOnce
<1>8. ASSUME IsPing(p)
      PROVE  Tracked(Genuine, tun, delivered, Carried(Sent(inbox, d, m)), c, world)
  <2>1. m.pkt \in Genuine /\ m.pkt.id = p.id
    BY <1>2, <1>5, <1>7, <1>8, BackwardOnce
  <2> QED
    BY <1>5, <1>7, <2>1, SentOnce
<1> QED
  BY <1>4, <1>5, <1>6, <1>8, RouterEndsOnce, SameGenuine DEF PingsOnce

LEMMA InternetOnce ==
  ASSUME CircuitInv, ~ Building, PingsOnce, NEW q \in world,
         InternetReplies(q) \/ InternetLoses(q) \/ InternetRefuses(q)
  PROVE  PingsOnce'
<1>1. PICK type : type = IF InternetRefuses(q) THEN "error" ELSE "reply"
  OBVIOUS
<1>2. PICK p : p = Answering(q, type)
  OBVIOUS
<1>3. PICK v : v = world \ {q}
  OBVIOUS
<1>4. /\ world' = v /\ UNCHANGED <<tun, delivered, inbox, pinged>>
      /\ raw' = raw \/ (q.saddr \in Router /\ raw' = [raw EXCEPT ![q.saddr] = Append(@, p)])
  <2>1. ComesBack(q, type) \/ raw' = raw
    BY <1>1 DEF InternetReplies, InternetLoses, InternetRefuses, routerVars
  <2>2. up \subseteq Router
    BY DEF CircuitInv, TypeOK
  <2>3. raw' = raw \/ (q.saddr \in Router /\ raw' = [raw EXCEPT ![q.saddr] = Append(@, p)])
    BY <1>2, <2>1, <2>2 DEF ComesBack
  <2> QED
    BY <1>3, <2>3 DEF InternetReplies, InternetLoses, InternetRefuses, proxyVars
<1>5. /\ q \in Genuine /\ Tracked(Genuine, tun, delivered, Carried(inbox), raw, v)
      /\ Absent(q.id, PingsIn(tun, delivered, Carried(inbox), raw, v))
  BY <1>3, TakeWorld DEF PingsOnce
<1>6. p \in Genuine /\ p.id = q.id
  <2>1. q.type = "request" /\ type \in {"reply", "error"}
    BY <1>1, RelayFacts DEF WorldOK
  <2> QED
    BY <1>2, <1>5, <2>1, GenuineAnswer
<1>7. Tracked(Genuine, tun, delivered, Carried(inbox), raw', v)
  <2>1. ASSUME q.saddr \in Router, raw' = [raw EXCEPT ![q.saddr] = Append(@, p)]
        PROVE  Tracked(Genuine, tun, delivered, Carried(inbox), raw', v)
    <3>1. PICK n \in Router : n = q.saddr
      BY <2>1
    <3>2. PICK c : c = [raw EXCEPT ![n] = Append(@, p)]
      OBVIOUS
    <3>3. Absent(p.id, PingsIn(tun, delivered, Carried(inbox), raw, v))
      BY <1>5, <1>6
    <3>4. Tracked(Genuine, tun, delivered, Carried(inbox), c, v)
      BY <1>5, <1>6, <3>2, <3>3, PutRaw
    <3> QED
      BY <2>1, <3>1, <3>2, <3>4
  <2> QED
    BY <1>4, <1>5, <2>1
<1> QED
  BY <1>3, <1>4, <1>7, SameGenuine DEF PingsOnce

-----------------------------------------------------------------------------
(* Theorems.                                                               *)

\* Only the opening of the tunnel, or its failure, ends the building.
LEMMA HowBuildingEnds ==
  ASSUME CircuitInv, Building, [Next]_vars, ~ Building'
  PROVE  phase = "built" /\ UNCHANGED <<tun, delivered, raw, inbox, world>>
<1>1. phase # "relay"
  BY DEF Building
<1>2. \A r, c, d, m : RouterSends(r, c, d, m) \/ RouterEnds(r) => phase' = phase
  BY <1>1 DEF RouterSends, RouterEnds
<1>3. CASE Build \/ OpenTunnelFails
  BY <1>3 DEF Build, BuildStart, SendExtend, AwaitDone, OpenTunnel, OpenTunnelFails, Building,
              routerVars
<1>4. CASE TunnelRead \/ SocketRead \/ \E h \in Host : UserPings(h)
  BY <1>1, <1>4 DEF TunnelRead, SocketRead, UserPings
<1>5. CASE \E r \in Router : UdpRead(r) \/ RawReply(r)
  BY <1>2, <1>5 DEF UdpRead, NewExtend, ForwardExtend, ForwardDone, RelayFwd, ExitFwd,
                    RelayBack, RawReply, Building, proxyVars
<1>6. CASE Internet \/ \E q \in world : InternetLoses(q) \/ InternetRefuses(q)
  <2>1. world # {}
    BY <1>6 DEF Internet
  <2> QED
    BY <2>1 DEF CircuitInv, BuildInv
<1>7. CASE \E r \in Router : RouterIsKilled(r)
  BY <1>2, <1>7 DEF RouterIsKilled, Building
<1>8. CASE UNCHANGED vars
  BY <1>8 DEF vars, proxyVars, Building
<1> QED
  BY <1>3, <1>4, <1>5, <1>6, <1>7, <1>8 DEF Next, Failure

LEMMA RelayingOnce ==
  ASSUME CircuitInv, ~ Building, PingsOnce, [Next]_vars
  PROVE  PingsOnce'
<1>1. TypeOK /\ phase \in {"relay", "exited"}
  BY RelayFacts
<1>2. CASE Build \/ OpenTunnelFails
  BY <1>1, <1>2 DEF Build, BuildStart, SendExtend, AwaitDone, OpenTunnel, OpenTunnelFails
<1>3. CASE TunnelRead \/ SocketRead \/ \E h \in Host : UserPings(h)
  BY <1>3, TunnelReadOnce, SocketReadOnce, UserPingsOnce
<1>4. CASE \E r \in Router : NewExtend(r) \/ ForwardExtend(r) \/ ForwardDone(r)
  BY <1>1, <1>4, HeadMessage DEF NewExtend, ForwardExtend, ForwardDone, Receives
<1>5. CASE \E r \in Router : RelayFwd(r) \/ ExitFwd(r) \/ RelayBack(r) \/ RawReply(r)
  BY <1>5, RelayFwdOnce, ExitFwdOnce, RelayBackOnce, RawReplyOnce
<1>6. CASE Internet \/ \E q \in world : InternetLoses(q) \/ InternetRefuses(q)
  BY <1>6, InternetOnce DEF Internet
<1>7. CASE \E r \in Router : RouterIsKilled(r)
  BY <1>1, <1>7, RouterEndsOnce DEF RouterIsKilled
<1>8. CASE UNCHANGED vars
  BY <1>8, SameGenuine DEF vars, proxyVars, routerVars, PingsOnce
<1> QED
  BY <1>2, <1>3, <1>4, <1>5, <1>6, <1>7, <1>8 DEF Next, Failure, UdpRead

\* In a circuit that is built every packet belongs to a ping that was sent, and none
\* to the same ping as another.
THEOREM EveryPacketIsAPing == Spec => [](~ Building => PingsOnce)
<1>1. Init => (~ Building => PingsOnce)
  BY DEF Init, Building
<1>2. CircuitInv /\ (~ Building => PingsOnce) /\ [Next]_vars => (~ Building => PingsOnce)'
  BY HowBuildingEnds, StartsWithNone, RelayingOnce
<1> QED
  BY <1>1, <1>2, CircuitInvariant, PTL DEF Spec

LEMMA OnePlaceByInv ==
  ASSUME CircuitInv, ~ Building => PingsOnce
  PROVE  NoPingIsDuplicated
<1>1. CASE Building
  <2>1. PICK L : L = PingsIn(tun, delivered, Carried(inbox), raw, world)
    OBVIOUS
  <2>2. Shows(L, tun, delivered, Carried(inbox), raw, world)
    BY <2>1, WhatIsWhere
  <2>3. /\ tun = << >> /\ delivered = << >> /\ world = {}
        /\ \A r \in Router : raw[r] = << >>
    BY <1>1 DEF CircuitInv, BuildInv
  <2>4. ASSUME NEW n \in Ping
        PROVE  \A x \in Places : \A i \in DOMAIN L[x] : L[x][i].id # n
    <3>1. L[TunAt] = << >> /\ L[DeliveredAt] = << >> /\ \A r \in Router : L[RawAt(r)] = << >>
      BY <2>2, <2>3 DEF Shows
    <3>2. DOMAIN L[WorldAt] = {}
      BY <2>2, <2>3 DEF Shows, Each
    <3>3. NoPacket.id # n
      BY PlainAssumption DEF NoPacket, Ping, PlainAssumption
    <3>4. \A e \in Node : \A i \in DOMAIN L[InboxAt(e)] : L[InboxAt(e)][i] = NoPacket
      <4>1. NoPings
        BY <1>1, BuildingNoPings
      <4>2. \A e \in Node : L[InboxAt(e)] = Pkts(inbox[e])
        BY <2>2 DEF Shows, Carried
      <4>3. \A e \in Node : \A i \in DOMAIN Pkts(inbox[e]) : Pkts(inbox[e])[i] = NoPacket
        BY <4>1 DEF NoPings, Pkts
      <4> QED
        BY <4>2, <4>3
    <3> QED
      BY <3>1, <3>2, <3>3, <3>4, EmptyQueue, PlaceNames
  <2> QED
    BY <2>1, <2>4 DEF NoPingIsDuplicated, OnePlace
<1>2. CASE ~ Building
  BY <1>2, UniqueIsOnePlace DEF PingsOnce, Tracked, NoPingIsDuplicated
<1> QED
  BY <1>1, <1>2

\* A ping is in one place, whatever is lost or killed.
THEOREM NoDuplicates == Spec => []NoPingIsDuplicated
<1>1. CircuitInv /\ (~ Building => PingsOnce) => NoPingIsDuplicated
  BY OnePlaceByInv
<1> QED
  BY <1>1, CircuitInvariant, EveryPacketIsAPing, PTL

-----------------------------------------------------------------------------
(* The circuit service.                                                    *)

\* Counting a hop extends the path by a router that was not on it.
LEMMA CountingExtends ==
  ASSUME CircuitInv, AwaitDone
  PROVE  Service!Extend
<1>1. /\ phase = "await" /\ var' = var + 1
      /\ UNCHANGED <<myCctHops, delivered, pinged>>
  BY DEF AwaitDone
<1>2. HopsAre(myCctHops) /\ var \in 0 .. noOfHops /\ var < noOfHops /\ var \in Int
  BY <1>1, PathFacts DEF CircuitInv, HopsChosen
<1>3. PICK k, x, p, q : /\ k = var + 1 /\ x = myCctHops[k]
                        /\ p = SubSeq(myCctHops, 1, var) /\ q = SubSeq(myCctHops, 1, k)
  OBVIOUS
<1>4. q = SubSeq(myCctHops, 1, var)'
  BY <1>1, <1>3
<1>5. /\ Len(p) # noOfHops /\ x \in Router /\ q = Append(p, x)
      /\ \A j \in DOMAIN p : p[j] # x
  BY <1>2, <1>3, PathGrows
<1>6. SubSeq(myCctHops, 1, var)' = Append(SubSeq(myCctHops, 1, var), x)
  BY <1>3, <1>4, <1>5
<1> QED
  BY <1>1, <1>3, <1>5, <1>6 DEF Service!Extend, Service!Complete

\* Users ping through a path that is complete.
LEMMA PingingAsks ==
  ASSUME CircuitInv, NEW h \in Host, UserPings(h)
  PROVE  Service!Ask(h)
<1>1. /\ phase = "relay" /\ Len(pinged) < MaxPings /\ pinged' = Append(pinged, h)
      /\ UNCHANGED <<myCctHops, var, delivered>>
  BY DEF UserPings
<1>2. HopsAre(myCctHops) /\ var \in 0 .. noOfHops /\ var = noOfHops
  BY <1>1, PathFacts DEF CircuitInv, HopsChosen
<1>3. Len(SubSeq(myCctHops, 1, var)) = noOfHops
  BY <1>2, PathGrows
<1> QED
  BY <1>1, <1>3 DEF Service!Ask, Service!Complete

\* What is written to the tunnel is the answer of a ping that had none.
LEMMA WritingAnswers ==
  ASSUME CircuitInv, ~ Building, PingsOnce, SocketRead
  PROVE  \E n \in 1 .. MaxPings : Service!AnswerPing(n)
<1>1. PICK p : p = Head(inbox[Proxy]).pkt
  OBVIOUS
<1>2. /\ inbox[Proxy] # << >> /\ delivered' = Append(delivered, p)
      /\ UNCHANGED <<myCctHops, var, pinged>>
  BY <1>1 DEF SocketRead
<1>3. p \in Genuine /\ \A k \in DOMAIN delivered : delivered[k].id # p.id
  BY <1>1, SocketReadOnce
<1>4. p.type = "reply" /\ delivered \in Seq(Packet \cup {NoPacket})
  <2>1. inbox[Proxy] \in Seq(Message)
    BY Numbers DEF CircuitInv, TypeOK
  <2>2. 1 \in DOMAIN inbox[Proxy] /\ Head(inbox[Proxy]) = inbox[Proxy][1]
    BY <1>2, <2>1, Shortened
  <2> QED
    BY <1>1, <2>2 DEF CircuitInv, TypeOK, RelayInv, HomeOK
<1>5. PICK n : n = p.id
  OBVIOUS
<1>6. /\ n \in 1 .. MaxPings /\ n \in DOMAIN pinged /\ p \in Packet
      /\ p.saddr = pinged[n]
  BY <1>3, <1>4, <1>5 DEF Genuine, Packet, IcmpError, Ping
<1>7. \A k \in DOMAIN AnswersOf(delivered) : AnswersOf(delivered)[k].ping # n
  BY <1>3, <1>5 DEF AnswersOf
<1>8. AnswersOf(delivered') = Append(AnswersOf(delivered), [ping |-> n, by |-> pinged[n]])
  <2>1. PICK M : M = Packet \cup {NoPacket}
    OBVIOUS
  <2>2. delivered \in Seq(M) /\ p \in M
    BY <1>4, <1>6, <2>1
  <2>3. AnswersOf(Append(delivered, p))
          = Append(AnswersOf(delivered), [ping |-> p.id, by |-> p.saddr])
    BY <2>2, AnswersAppended
  <2> QED
    BY <1>2, <1>5, <1>6, <2>3
<1>9. Service!AnswerPing(n)
  BY <1>2, <1>6, <1>7, <1>8
     DEF Service!AnswerPing, Service!IsAnswered, Service!Answer
<1> QED
  BY <1>6, <1>9

\* Any other step is none of the service.
LEMMA OtherStepsStutter ==
  ASSUME CircuitInv, [Next]_vars, ~ AwaitDone, ~ SocketRead, ~ \E h \in Host : UserPings(h)
  PROVE  UNCHANGED <<SubSeq(myCctHops, 1, var), pinged, AnswersOf(delivered)>>
<1>1. pinged' = pinged /\ delivered' = delivered
  BY DEF Next, Build, BuildStart, SendExtend, OpenTunnel, TunnelRead, UdpRead, NewExtend,
         ForwardExtend, ForwardDone, RelayFwd, ExitFwd, RelayBack, RawReply, Internet,
         InternetReplies, Failure, OpenTunnelFails, InternetLoses, InternetRefuses,
         RouterIsKilled, vars, proxyVars
<1>2. CASE BuildStart
  <2>1. /\ phase = "start" /\ var' = 0
        /\ \E i \in 0 .. noOfRouters - 1 : myCctHops' = RandomlySelectHops2(i)
    BY <1>2 DEF BuildStart
  <2>2. var = 0 /\ myCctHops = << >>
    BY <2>1 DEF CircuitInv, HopsChosen
  <2>3. SubSeq(<< >>, 1, 0) = << >>
    BY SubSeqEmpty
  <2>4. \A i \in 0 .. noOfRouters - 1 : SubSeq(RandomlySelectHops2(i), 1, 0) = << >>
    BY SubSeqEmpty
  <2> QED
    BY <1>1, <2>1, <2>2, <2>3, <2>4
<1>3. CASE ~ BuildStart
  <2>1. myCctHops' = myCctHops /\ var' = var
    BY <1>3
       DEF Next, Build, SendExtend, OpenTunnel, TunnelRead, UdpRead, NewExtend,
           ForwardExtend, ForwardDone, RelayFwd, ExitFwd, RelayBack, RawReply, Internet,
           InternetReplies, Failure, OpenTunnelFails, InternetLoses, InternetRefuses,
           RouterIsKilled, vars, proxyVars
  <2> QED
    BY <1>1, <2>1
<1> QED
  BY <1>2, <1>3

\* Stage 5 implements the circuit service, whatever is lost or killed: a path of
\* different routers grows hop by hop, nobody pings before it is complete, and a
\* ping is answered once at most, by the host that was pinged.
THEOREM PlainImplementsService == Spec => ImplementsSafeService
<1>1. Init => Service!Init
  <2>1. SubSeq(<< >>, 1, 0) = << >>
    BY SubSeqEmpty
  <2> QED
    BY <2>1 DEF Init, Service!Init, AnswersOf
<1>2. CircuitInv /\ (~ Building => PingsOnce) /\ [Next]_vars =>
        [Service!Next]_<<SubSeq(myCctHops, 1, var), pinged, AnswersOf(delivered)>>
  <2> SUFFICES ASSUME CircuitInv, ~ Building => PingsOnce, [Next]_vars
               PROVE  [Service!Next]_<<SubSeq(myCctHops, 1, var), pinged, AnswersOf(delivered)>>
    OBVIOUS
  <2>1. CASE AwaitDone
    BY <2>1, CountingExtends DEF Service!Next
  <2>2. CASE \E h \in Host : UserPings(h)
    BY <2>2, PingingAsks DEF Service!Next
  <2>3. CASE SocketRead
    BY <2>3, WritingAnswers DEF Service!Next, SocketRead, Building
  <2> QED
    BY <2>1, <2>2, <2>3, OtherStepsStutter
<1> QED
  BY <1>1, <1>2, CircuitInvariant, EveryPacketIsAPing, PTL
     DEF Spec, ImplementsSafeService, Service!SafeSpec, Service!vars
=============================================================================
