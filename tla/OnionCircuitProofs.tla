------------------------- MODULE OnionCircuitProofs -------------------------
(***************************************************************************)
(* Proofs about OnionCircuit, for every number of routers and hops, and    *)
(* any number of hosts, pings, buffers and failures.  The inductive        *)
(* invariant is OnionInv (module OnionCircuit).  The second part, from     *)
(* BodiesOf on, adds which ping each packet belongs to, and that no two    *)
(* belong to the same one: stage 6 implements the circuit service, and no  *)
(* ping is duplicated.                                                     *)
(***************************************************************************)
EXTENDS OnionCircuit, MiniTorProofs, FiniteSetTheorems

-----------------------------------------------------------------------------
(* The invariant but for what follows from where the datagrams are.        *)

ControlOK ==
  /\ phase \in {"start", "key", "extend", "await", "built", "relay", "exited"}
  /\ HopsChosen
  /\ var \in 0 .. noOfHops
  /\ phase \in {"key", "extend", "await"} => var < noOfHops
  /\ phase \in {"built", "relay", "exited"} => var = noOfHops
  /\ up \subseteq Router
  /\ entry \in [Router -> CircuitInfoEntry]
  /\ TO_FORWARD_FDH \in [Router -> BOOLEAN] /\ TO_FORWARD_ECE \in [Router -> BOOLEAN]
  /\ pinged \in Seq(Host) /\ Len(pinged) <= MaxPings
  /\ faults \in 0 .. MaxFaults

Parts == ControlOK /\ IF Building THEN BuildInv ELSE ServeInv

-----------------------------------------------------------------------------
(* Numbers, hops and identifiers.                                          *)

LEMMA Numbers ==
  /\ noOfRouters \in Nat /\ noOfHops \in Nat \ {0}
  /\ Proxy \in Node /\ Proxy \notin Router /\ NoAddress \notin Node
  /\ LAST_HOP_PortNumber \notin Node /\ NoAddress # LAST_HOP_PortNumber
  /\ NoKey \notin Router
  /\ \A n : n \in Node <=> n \in Router \/ n = Proxy
  /\ \A n \in Node : Eth(n) \in IP /\ Eth(n) = n
  /\ NoIP \in IP /\ Eth(0) \in IP /\ Host \subseteq IP
  /\ 0 \in Word /\ 1 \in Word
  /\ MaxPings \in Nat /\ RcvBuf \in Nat \ {0} /\ MaxFaults \in Nat
BY RoutersAssumption, HopsAssumption, OnionAssumption
   DEF RoutersAssumption, HopsAssumption, OnionAssumption, Proxy, Router, Node, NoAddress,
       LAST_HOP_PortNumber, NoKey, Eth, IP, NoIP, Word

\* What is known of the path once it is chosen.
LEMMA Path ==
  ASSUME ControlOK, phase # "start"
  PROVE  /\ HopsAre(TOR_CCt_HOPs)
         /\ CircuitID \in Word
         /\ 1 \in 1 .. noOfHops
         /\ \A i \in 1 .. noOfHops :
              /\ TOR_CCt_HOPs[i] \in Router /\ TOR_CCt_HOPs[i] \in Node
              /\ PrevHop(i) \in Node /\ PrevHop(i) # NoAddress
              /\ GivenAt(i) \in Word
              /\ TOR_CCt_HOPs[i + 1] \in HopPort /\ TOR_CCt_HOPs[i + 1] # NoAddress
<1>1. HopsAre(TOR_CCt_HOPs)
  BY SelectedHops DEF ControlOK, HopsChosen
<1>2. CircuitID \in Word
  <2>1. s = 2 /\ CircuitID = 1
    BY DEF ControlOK, HopsChosen, CircuitID
  <2> QED
    BY <2>1, Numbers
<1>3. 1 \in 1 .. noOfHops
  BY Numbers
<1>4. ASSUME NEW i \in 1 .. noOfHops
      PROVE  /\ TOR_CCt_HOPs[i] \in Router /\ TOR_CCt_HOPs[i] \in Node
             /\ PrevHop(i) \in Node /\ PrevHop(i) # NoAddress
             /\ GivenAt(i) \in Word
             /\ TOR_CCt_HOPs[i + 1] \in HopPort /\ TOR_CCt_HOPs[i + 1] # NoAddress
  <2>1. /\ i # 1 => i - 1 \in 1 .. noOfHops
        /\ i + 1 \in 1 .. noOfHops \/ i + 1 = noOfHops + 1
    BY Numbers
  <2>2. TOR_CCt_HOPs[i] \in Router /\ TOR_CCt_HOPs[i] \in Node
    BY <1>1, Numbers DEF HopsAre
  <2>3. PrevHop(i) \in Node /\ PrevHop(i) # NoAddress
    BY <1>1, <2>1, Numbers DEF PrevHop, HopsAre
  <2>4. GivenAt(i) \in Word
    <3>1. \A r \in Router : entry[r].myCircuitID \in Word
      BY DEF ControlOK, CircuitInfoEntry
    <3> QED
      BY <1>1, <1>2, <2>1, <3>1 DEF GivenAt, HopsAre
  <2>5. TOR_CCt_HOPs[i + 1] \in HopPort /\ TOR_CCt_HOPs[i + 1] # NoAddress
    BY <1>1, <2>1, Numbers DEF HopsAre, HopPort
  <2> QED
    BY <2>2, <2>3, <2>4, <2>5
<1> QED
  BY <1>1, <1>2, <1>3, <1>4

\* Links between consecutive hops.
LEMMA NextHopOf ==
  ASSUME ControlOK, phase # "start", NEW i \in 1 .. noOfHops
  PROVE  /\ PrevHop(i + 1) = TOR_CCt_HOPs[i]
         /\ GivenAt(i + 1) = entry[TOR_CCt_HOPs[i]].myCircuitID
         /\ PrevHop(1) = Proxy /\ GivenAt(1) = CircuitID
         /\ i # 1 => /\ i - 1 \in 1 .. noOfHops /\ PrevHop(i) = TOR_CCt_HOPs[i - 1]
                     /\ GivenAt(i) = entry[TOR_CCt_HOPs[i - 1]].myCircuitID
<1>1. i \in Int /\ i + 1 # 1 /\ (i + 1) - 1 = i /\ (i # 1 => i - 1 \in 1 .. noOfHops)
  BY Numbers
<1> QED
  BY <1>1 DEF PrevHop, GivenAt

\* A node that precedes a hop determines that hop.
LEMMA PrevHopsDistinct ==
  ASSUME ControlOK, phase # "start"
  PROVE  /\ \A i, j \in 1 .. noOfHops : TOR_CCt_HOPs[i] = TOR_CCt_HOPs[j] => i = j
         /\ \A i, j \in 1 .. noOfHops : PrevHop(i) = PrevHop(j) => i = j
         /\ \A i \in 1 .. noOfHops : PrevHop(i) = Proxy => i = 1
<1>1. \A i, j \in 1 .. noOfHops : TOR_CCt_HOPs[i] = TOR_CCt_HOPs[j] => i = j
  BY Path DEF HopsAre
<1>2. ASSUME NEW i \in 1 .. noOfHops, i # 1
      PROVE  i - 1 \in 1 .. noOfHops /\ PrevHop(i) = TOR_CCt_HOPs[i - 1] /\ PrevHop(i) # Proxy
  BY <1>2, NextHopOf, Path, Numbers
<1>3. PrevHop(1) = Proxy
  BY DEF PrevHop
<1>4. ASSUME NEW i \in 1 .. noOfHops, NEW j \in 1 .. noOfHops, PrevHop(i) = PrevHop(j)
      PROVE  i = j
  <2>1. CASE i = 1 \/ j = 1
    BY <1>2, <1>3, <1>4, <2>1
  <2>2. CASE i # 1 /\ j # 1
    <3>1. i - 1 = j - 1
      BY <1>1, <1>2, <1>4, <2>2
    <3> QED
      BY <3>1
  <2> QED
    BY <2>1, <2>2
<1> QED
  BY <1>1, <1>2, <1>4

-----------------------------------------------------------------------------
(* Layers.                                                                 *)

LEMMA LayersOf ==
  ASSUME HopsAre(TOR_CCt_HOPs), NEW i \in 1 .. noOfHops + 1, NEW j \in 0 .. noOfHops
  PROVE  /\ HopsFrom(i, j) \in Seq(Router)
         /\ j < i => HopsFrom(i, j) = << >>
         /\ i <= j => /\ HopsFrom(i, j) # << >> /\ Head(HopsFrom(i, j)) = TOR_CCt_HOPs[i]
                      /\ Tail(HopsFrom(i, j)) = HopsFrom(i + 1, j)
                      /\ <<TOR_CCt_HOPs[i]>> \o HopsFrom(i + 1, j) = HopsFrom(i, j)
BY PathPieces DEF HopsFrom

\* Bodies without layers.
Bare == [layers : {<< >>}, key : Router \cup {NoKey}, next : HopPort, pkt : Packet \cup {NoPacket}]

LEMMA NoPacketIsNone == NoPacket \notin Packet
BY DEF NoPacket, Packet

LEMMA BareBodies ==
  /\ \A k \in Router : KeyBody(k) \in Bare /\ IsKey(KeyBody(k)) /\ KeyBody(k).key = k
  /\ \A p \in HopPort : /\ PortBody(p) \in Bare /\ PortBody(p).next = p
                        /\ p # NoAddress => IsPort(PortBody(p))
  /\ \A q \in Packet : PacketBody(q) \in Bare /\ IsPacket(PacketBody(q)) /\ PacketBody(q).pkt = q
  /\ Empty \in Bare
<1>1. NoAddress \in HopPort /\ \A q \in Packet : IsPing(q)
  BY DEF HopPort, Packet, IsPing
<1> QED
  BY <1>1, Numbers, NoPacketIsNone
     DEF Bare, KeyBody, PortBody, PacketBody, Empty, IsKey, IsPort, IsPacket

LEMMA BodyTypes ==
  ASSUME HopsAre(TOR_CCt_HOPs), NEW b \in Bare, NEW i \in 1 .. noOfHops + 1,
         NEW j \in 0 .. noOfHops
  PROVE  /\ Wrapped(b, i, j) \in Body /\ b \in Body
         /\ j < i => Wrapped(b, i, j) = b
<1>1. PICK z : z = HopsFrom(i, j)
  OBVIOUS
<1>2. z \in Seq(Router) /\ << >> \in Seq(Router) /\ (j < i => z = << >>)
  <2>1. z \in Seq(Router) /\ (j < i => z = << >>)
    BY <1>1, LayersOf
  <2> QED
    BY <2>1, EmptySeq
<1>3. Wrapped(b, i, j) = [b EXCEPT !.layers = z]
  BY <1>1 DEF Wrapped
<1> QED
  BY <1>2, <1>3 DEF Bare, Body

\* A hop removes the layer that is its own, or adds it.
LEMMA HopPeels ==
  ASSUME HopsAre(TOR_CCt_HOPs), NEW b \in Bare, NEW i \in 1 .. noOfHops,
         NEW j \in 1 .. noOfHops, i <= j
  PROVE  /\ Opens(TOR_CCt_HOPs[i], Wrapped(b, i, j))
         /\ DecryptThisMessage(Wrapped(b, i, j)) = Wrapped(b, i + 1, j)
         /\ EncryptThisMessage(TOR_CCt_HOPs[i], Wrapped(b, i + 1, j)) = Wrapped(b, i, j)
<1>1. i \in 1 .. noOfHops + 1 /\ j \in 0 .. noOfHops
  BY Numbers
<1>2. PICK x, y, h : x = HopsFrom(i, j) /\ y = HopsFrom(i + 1, j) /\ h = TOR_CCt_HOPs[i]
  OBVIOUS
<1>3. x # << >> /\ Head(x) = h /\ Tail(x) = y /\ <<h>> \o y = x
  BY <1>1, <1>2, LayersOf
<1>4. Wrapped(b, i, j) = [b EXCEPT !.layers = x] /\ Wrapped(b, i + 1, j) = [b EXCEPT !.layers = y]
  BY <1>2 DEF Wrapped
<1>5. [b EXCEPT !.layers = x].layers = x /\ [b EXCEPT !.layers = y].layers = y
  BY DEF Bare
<1>6. /\ [[b EXCEPT !.layers = x] EXCEPT !.layers = y] = [b EXCEPT !.layers = y]
      /\ [[b EXCEPT !.layers = y] EXCEPT !.layers = x] = [b EXCEPT !.layers = x]
  BY DEF Bare
<1>7. Opens(h, Wrapped(b, i, j))
  BY <1>3, <1>4, <1>5 DEF Opens
<1>8. DecryptThisMessage(Wrapped(b, i, j)) = Wrapped(b, i + 1, j)
  BY <1>3, <1>4, <1>5, <1>6 DEF DecryptThisMessage
<1>9. EncryptThisMessage(h, Wrapped(b, i + 1, j)) = Wrapped(b, i, j)
  BY <1>3, <1>4, <1>5, <1>6 DEF EncryptThisMessage
<1> QED
  BY <1>2, <1>7, <1>8, <1>9

\* The proxy wraps for the first hop on, and unwraps what all hops have wrapped.
LEMMA ProxyWraps ==
  ASSUME HopsAre(TOR_CCt_HOPs), NEW b \in Bare, NEW j \in 0 .. noOfHops
  PROVE  OnionEncrypt(b, j) = Wrapped(b, 1, j)
<1>1. PICK z : z = HopsFrom(1, j)
  OBVIOUS
<1>2. z \in Seq(Router)
  <2>1. 1 \in 1 .. noOfHops + 1
    BY Numbers
  <2> QED
    BY <1>1, <2>1, LayersOf
<1>3. z \o << >> = z
  BY <1>2, ConcatEmptySeq
<1>4. OnionEncrypt(b, j) = [b EXCEPT !.layers = z \o << >>]
  BY <1>1 DEF OnionEncrypt, HopsFrom, Bare
<1> QED
  BY <1>1, <1>3, <1>4 DEF Wrapped

LEMMA ProxyUnwraps ==
  ASSUME HopsAre(TOR_CCt_HOPs), NEW b \in Bare
  PROVE  /\ OnionOpens(Wrapped(b, 1, noOfHops))
         /\ OnionDecrypt(Wrapped(b, 1, noOfHops)) = b
<1>1. PICK z : z = HopsFrom(1, noOfHops)
  OBVIOUS
<1>2. noOfHops \in Nat \ {0} /\ z = SubSeq(TOR_CCt_HOPs, 1, noOfHops)
  BY <1>1, Numbers DEF HopsFrom
<1>3. \A k \in 1 .. noOfHops : TOR_CCt_HOPs[k] \in Router
  BY DEF HopsAre
<1>4. /\ Len(z) = noOfHops
      /\ \A k \in 1 .. noOfHops : z[k] = TOR_CCt_HOPs[k]
  <2>1. /\ Len(z) = IF 1 <= noOfHops THEN noOfHops - 1 + 1 ELSE 0
        /\ \A k \in 1 .. noOfHops - 1 + 1 : z[k] = TOR_CCt_HOPs[1 + k - 1]
    BY <1>2, <1>3, SubSeqProperties
  <2> QED
    BY <1>2, <2>1
<1>5. PICK y : y = SubSeq(z, noOfHops + 1, Len(z))
  OBVIOUS
<1>6. y = << >>
  BY <1>2, <1>4, <1>5, SubSeqEmpty
<1>7. Wrapped(b, 1, noOfHops) = [b EXCEPT !.layers = z] /\ [b EXCEPT !.layers = z].layers = z
  BY <1>1 DEF Wrapped, Bare
<1>8. OnionDecrypt(Wrapped(b, 1, noOfHops)) = b
  BY <1>5, <1>6, <1>7 DEF OnionDecrypt, Bare
<1>9. OnionOpens(Wrapped(b, 1, noOfHops))
  <2>1. PICK w : w = Wrapped(b, 1, noOfHops)
    OBVIOUS
  <2>2. w.layers = z
    BY <1>7, <2>1
  <2>3. OnionOpens(w)
    BY <1>2, <1>4, <2>2 DEF OnionOpens
  <2> QED
    BY <2>1, <2>3
<1> QED
  BY <1>8, <1>9

-----------------------------------------------------------------------------
(* Messages and queues.                                                    *)

LEMMA MessageOf ==
  ASSUME ControlOK, phase # "start", NEW i \in 1 .. noOfHops, NEW cmd \in Commands,
         NEW b \in Body
  PROVE  /\ ToHop(i, cmd, b) \in Message /\ FromHop(i, cmd, b) \in Message
         /\ ToHop(i, cmd, b).cmd = cmd /\ FromHop(i, cmd, b).cmd = cmd
         /\ ToHop(i, cmd, b).body = b /\ FromHop(i, cmd, b).body = b
         /\ ToHop(i, cmd, b).from = PrevHop(i) /\ FromHop(i, cmd, b).from = TOR_CCt_HOPs[i]
         /\ htons(ToHop(i, cmd, b).cid) = GivenAt(i) /\ htons(FromHop(i, cmd, b).cid) = GivenAt(i)
         /\ ToHop(i, cmd, b).cid = htons(GivenAt(i)) /\ FromHop(i, cmd, b).cid = htons(GivenAt(i))
<1>1. /\ PrevHop(i) \in Node /\ TOR_CCt_HOPs[i] \in Node /\ GivenAt(i) \in Word
      /\ htons(GivenAt(i)) \in Word /\ htons(htons(GivenAt(i))) = GivenAt(i)
  BY Path, HtonsType, HtonsInvolution
<1> QED
  BY <1>1 DEF ToHop, FromHop, Msg, Message

\* The three kinds of datagram while a hop is added.
LEMMA BuildMessages ==
  ASSUME ControlOK, phase \in {"key", "extend", "await"}
  PROVE  /\ var \in Nat /\ var + 1 \in 1 .. noOfHops /\ noOfHops \in Nat
         /\ TOR_CCt_HOPs[var + 1] \in Router
         /\ TOR_CCt_HOPs[var + 2] \in HopPort /\ TOR_CCt_HOPs[var + 2] # NoAddress
         /\ KeyBody(TOR_CCt_HOPs[var + 1]) \in Bare /\ PortBody(TOR_CCt_HOPs[var + 2]) \in Bare
         /\ \A i \in 1 .. var + 1 :
              /\ i \in 1 .. noOfHops
              /\ KeyTo(i) \in Message /\ ExtendTo(i) \in Message /\ DoneBy(i) \in Message
              /\ KeyTo(i).cmd = "FAKE_DIFFIE_HELLMAN"
              /\ KeyTo(i).from = PrevHop(i) /\ htons(KeyTo(i).cid) = GivenAt(i)
              /\ KeyTo(i).body = Wrapped(KeyBody(TOR_CCt_HOPs[var + 1]), i, var)
              /\ ExtendTo(i).cmd = "ENC_CIRCUIT_EXTEND" /\ ExtendTo(i).from = PrevHop(i)
              /\ ExtendTo(i).cid = htons(GivenAt(i))
              /\ ExtendTo(i).body = Wrapped(PortBody(TOR_CCt_HOPs[var + 2]), i, var + 1)
              /\ DoneBy(i).cmd = "ENC_CIRCUIT_EXTEND_DONE" /\ DoneBy(i).body = Empty
              /\ DoneBy(i).from = TOR_CCt_HOPs[i]
              /\ DoneBy(i).cid = htons(GivenAt(i)) /\ htons(DoneBy(i).cid) = GivenAt(i)
<1>1. /\ var \in Nat /\ var + 1 \in 1 .. noOfHops /\ noOfHops \in Nat
      /\ var \in 0 .. noOfHops /\ (var + 1) + 1 = var + 2
  BY Numbers DEF ControlOK
<1>2. /\ HopsAre(TOR_CCt_HOPs)
      /\ TOR_CCt_HOPs[var + 1] \in Router
      /\ TOR_CCt_HOPs[var + 2] \in HopPort /\ TOR_CCt_HOPs[var + 2] # NoAddress
  BY <1>1, Path
<1>3. /\ KeyBody(TOR_CCt_HOPs[var + 1]) \in Bare /\ PortBody(TOR_CCt_HOPs[var + 2]) \in Bare
      /\ Empty \in Bare
  BY <1>2, BareBodies
<1>4. ASSUME NEW i \in 1 .. var + 1
      PROVE  /\ i \in 1 .. noOfHops
             /\ Wrapped(KeyBody(TOR_CCt_HOPs[var + 1]), i, var) \in Body
             /\ Wrapped(PortBody(TOR_CCt_HOPs[var + 2]), i, var + 1) \in Body
             /\ Empty \in Body
  <2>1. i \in 1 .. noOfHops /\ i \in 1 .. noOfHops + 1 /\ var + 1 \in 0 .. noOfHops
    BY <1>1
  <2> QED
    BY <1>1, <1>2, <1>3, <2>1, BodyTypes
<1>5. {"FAKE_DIFFIE_HELLMAN", "ENC_CIRCUIT_EXTEND", "ENC_CIRCUIT_EXTEND_DONE"} \subseteq Commands
  BY DEF Commands
<1> QED
  BY <1>1, <1>2, <1>3, <1>4, <1>5, MessageOf DEF KeyTo, ExtendTo, DoneBy

\* Where At points.
LEMMA AtHop ==
  ASSUME ControlOK, phase # "start", NEW k \in 0 .. noOfHops
  PROVE  /\ At(0) = NoAddress
         /\ k # 0 => k \in 1 .. noOfHops /\ At(k) = TOR_CCt_HOPs[k] /\ At(k) \in Router
         /\ \A r \in Node : r = At(k) => k # 0 /\ r = TOR_CCt_HOPs[k]
         /\ \A e \in 0 .. noOfHops : At(k) = At(e) => k = e
<1>1. k # 0 => k \in 1 .. noOfHops
  BY Numbers
<1>2. \A e \in 0 .. noOfHops : e # 0 => e \in 1 .. noOfHops
  BY Numbers
<1>3. \A j \in 1 .. noOfHops : TOR_CCt_HOPs[j] \in Router /\ TOR_CCt_HOPs[j] # NoAddress
  BY Path, Numbers
<1> QED
  BY <1>1, <1>2, <1>3, PrevHopsDistinct, Numbers DEF At

\* The pieces of the queues.
LEMMA QueueOf ==
  ASSUME ControlOK, phase \in {"key", "extend", "await"}, NEW k \in 0 .. var + 1,
         NEW e \in 0 .. var + 1, inbox = KeyAndExtend(k, e), NEW n \in Node
  PROVE  /\ n = At(k) => /\ k \in 1 .. var + 1
                         /\ inbox[n] = IF e = k THEN <<KeyTo(k), ExtendTo(e)>> ELSE <<KeyTo(k)>>
         /\ n # At(k) /\ n = At(e) => e \in 1 .. var + 1 /\ inbox[n] = <<ExtendTo(e)>>
         /\ n # At(k) /\ n # At(e) => inbox[n] = << >>
<1>1. var \in Nat /\ noOfHops \in Nat /\ k \in 0 .. noOfHops /\ e \in 0 .. noOfHops
  BY BuildMessages
<1>2. /\ n = At(k) => k \in 1 .. var + 1
      /\ n = At(e) => e \in 1 .. var + 1
  BY <1>1, AtHop
<1> QED
  BY <1>2 DEF KeyAndExtend

LEMMA ExtendAt ==
  ASSUME ControlOK, phase \in {"key", "extend", "await"}, NEW k \in 0 .. var + 1,
         NEW e \in 0 .. var + 1, inbox = KeyAndExtend(k, e), NEW n \in Node,
         n # At(k), n = At(e)
  PROVE  e \in 1 .. var + 1 /\ inbox[n] = <<ExtendTo(e)>>
BY QueueOf

LEMMA NothingAt ==
  ASSUME ControlOK, phase \in {"key", "extend", "await"}, NEW k \in 0 .. var + 1,
         NEW e \in 0 .. var + 1, inbox = KeyAndExtend(k, e), NEW n \in Node,
         n # At(k), n # At(e)
  PROVE  inbox[n] = << >>
BY DEF KeyAndExtend

LEMMA AnswerOf ==
  ASSUME ControlOK, phase \in {"key", "extend", "await"}, NEW i \in 0 .. var + 1,
         inbox = Answer(i), NEW n \in Node
  PROVE  /\ i # 0 /\ n = PrevHop(i) => i \in 1 .. var + 1 /\ inbox[n] = <<DoneBy(i)>>
         /\ ~ (i # 0 /\ n = PrevHop(i)) => inbox[n] = << >>
<1>1. i # 0 => i \in 1 .. var + 1
  BY BuildMessages
<1> QED
  BY <1>1 DEF Answer

-----------------------------------------------------------------------------
(* The invariant gives the types.                                          *)

LEMMA BuildTypes ==
  ASSUME ControlOK, Building, BuildInv
  PROVE  inbox \in [Node -> Seq(Message)]
<1> USE DEF Building
<1>1. CASE Resting
  BY <1>1, EmptySeq DEF BuildInv, Silent
<1>2. CASE ~ Resting /\ Adding
  <2>1. PICK k, e \in 0 .. var + 1 : inbox = KeyAndExtend(k, e)
    BY <1>2 DEF Adding
  <2>2. phase \in {"key", "extend", "await"}
    BY <1>2 DEF Resting
  <2>3. inbox = [n \in Node |-> inbox[n]]
    BY <2>1 DEF KeyAndExtend
  <2>4. ASSUME NEW n \in Node
        PROVE  inbox[n] \in Seq(Message)
    <3>1. \A x, y \in Message : <<x, y>> \in Seq(Message) /\ <<x>> \in Seq(Message)
      OBVIOUS
    <3>2. << >> \in Seq(Message)
      BY EmptySeq
    <3> QED
      <4>1. \A j \in 1 .. var + 1 : KeyTo(j) \in Message /\ ExtendTo(j) \in Message
        BY <2>2, BuildMessages
      <4>2. CASE n = At(k)
        <5>1. k \in 1 .. var + 1 /\ (e = k => e \in 1 .. var + 1)
          BY <2>1, <2>2, <4>2, QueueOf
        <5>2. (inbox[n] = <<KeyTo(k), ExtendTo(e)>> /\ e = k) \/ inbox[n] = <<KeyTo(k)>>
          BY <2>1, <2>2, <4>2, QueueOf
        <5> QED
          BY <3>1, <4>1, <5>1, <5>2
      <4>3. CASE n # At(k) /\ n = At(e)
        BY <2>1, <2>2, <3>1, <4>1, <4>3, ExtendAt
      <4>4. CASE n # At(k) /\ n # At(e)
        BY <2>1, <2>2, <3>2, <4>4, NothingAt
      <4> QED
        BY <4>2, <4>3, <4>4
  <2> QED
    BY <2>3, <2>4
<1>3. CASE ~ Resting /\ Added
  <2>1. PICK i \in 0 .. var + 1 : inbox = Answer(i)
    BY <1>3 DEF Added
  <2>2. phase \in {"key", "extend", "await"}
    BY <1>3 DEF Resting
  <2>3. inbox = [n \in Node |-> inbox[n]]
    BY <2>1 DEF Answer
  <2>4. ASSUME NEW n \in Node
        PROVE  inbox[n] \in Seq(Message)
    <3>1. \A x \in Message : <<x>> \in Seq(Message)
      OBVIOUS
    <3>2. << >> \in Seq(Message)
      BY EmptySeq
    <3> QED
      BY <2>1, <2>2, <3>1, <3>2, AnswerOf, BuildMessages
  <2> QED
    BY <2>3, <2>4
<1> QED
  BY <1>1, <1>2, <1>3 DEF BuildInv

\* What a queue may hold once the circuit serves.
LEMMA WhatIsReceivable ==
  ASSUME ControlOK, ~ Building, NEW d \in Node, NEW m \in Receivable(d)
  PROVE  \E i \in 1 .. noOfHops :
           \/ d = TOR_CCt_HOPs[i] /\ m \in Forward(i)
           \/ d = PrevHop(i) /\ m \in Backward(i)
BY DEF Receivable

LEMMA ServeMessages ==
  ASSUME ControlOK, ~ Building, NEW i \in 1 .. noOfHops
  PROVE  /\ \A p \in Packet :
              /\ PacketBody(p) \in Bare
              /\ Wrapped(PacketBody(p), i, noOfHops) \in Body
              /\ Wrapped(PacketBody(p), i + 1, noOfHops) \in Body
         /\ Forward(i) \subseteq Message /\ Backward(i) \subseteq Message
         /\ Forward(i) \subseteq Receivable(TOR_CCt_HOPs[i])
         /\ Backward(i) \subseteq Receivable(PrevHop(i))
<1>1. phase # "start" /\ HopsAre(TOR_CCt_HOPs)
  BY Path DEF Building
<1>2. i \in 1 .. noOfHops + 1 /\ i + 1 \in 1 .. noOfHops + 1 /\ noOfHops \in 0 .. noOfHops
  BY Numbers
<1>3. \A p \in Packet : /\ PacketBody(p) \in Bare
                        /\ Wrapped(PacketBody(p), i, noOfHops) \in Body
                        /\ Wrapped(PacketBody(p), i + 1, noOfHops) \in Body
  BY <1>1, <1>2, BareBodies, BodyTypes
<1>4. "RELAY_DATA_FWD_ENC" \in Commands /\ "RELAY_DATA_BWD_ENC" \in Commands
  BY DEF Commands
<1>5. Forward(i) \subseteq Message /\ Backward(i) \subseteq Message
  BY <1>1, <1>3, <1>4, MessageOf DEF Forward, Backward, Requests, Replies
<1>6. Forward(i) \subseteq Receivable(TOR_CCt_HOPs[i]) /\ Backward(i) \subseteq Receivable(PrevHop(i))
  BY DEF Receivable
<1> QED
  BY <1>3, <1>5, <1>6

LEMMA ServeTypes ==
  ASSUME ControlOK, ~ Building, ServeInv
  PROVE  /\ inbox \in [Node -> Seq(Message)]
         /\ tun \in Seq(Packet) /\ delivered \in Seq(Packet) /\ world \subseteq Packet
         /\ raw \in [Router -> Seq(Packet \cup IcmpError)]
<1>1. ASSUME NEW d \in Node
      PROVE  inbox[d] \in Seq(Message)
  <2>1. Receivable(d) \subseteq Message
    BY WhatIsReceivable, ServeMessages
  <2> QED
    BY <2>1, SeqWidened DEF ServeInv
<1>2. inbox \in [Node -> Seq(Message)]
  BY <1>1 DEF ServeInv
<1>3. Replies \subseteq Packet /\ \A a : Requests(a) \subseteq Packet
  BY DEF Replies, Requests
<1>4. tun \in Seq(Packet) /\ delivered \in Seq(Packet) /\ world \subseteq Packet
  BY <1>3, SeqWidened DEF ServeInv
<1>5. \A r \in Router : raw[r] \in Seq(Packet \cup IcmpError)
  <2>1. Replies \cup IcmpError \subseteq Packet \cup IcmpError
    BY <1>3
  <2> QED
    BY <2>1, SeqWidened DEF ServeInv
<1> QED
  BY <1>2, <1>4, <1>5 DEF ServeInv

LEMMA PartsTypes ==
  ASSUME Parts
  PROVE  TypeOK
<1>1. ControlOK
  BY DEF Parts
<1>2. /\ s \in Word
      /\ TOR_CCt_HOPs \in {<< >>} \cup {RandomlySelectHops2(i) : i \in 0 .. noOfRouters - 1}
  <2>1. 2 \in Word /\ 1 \in Word
    BY DEF Word
  <2> QED
    BY <1>1, <2>1 DEF ControlOK, HopsChosen
<1>3. /\ inbox \in [Node -> Seq(Message)]
      /\ tun \in Seq(Packet) /\ delivered \in Seq(Packet) /\ world \subseteq Packet
      /\ raw \in [Router -> Seq(Packet \cup IcmpError)]
  <2>1. CASE Building
    <3>1. << >> \in Seq(Packet) /\ << >> \in Seq(Packet \cup IcmpError)
      BY EmptySeq
    <3> QED
      BY <1>1, <2>1, <3>1, BuildTypes DEF Parts, BuildInv
  <2>2. CASE ~ Building
    BY <1>1, <2>2, ServeTypes DEF Parts
  <2> QED
    BY <2>1, <2>2
<1>4. phase \in {"start", "key", "extend", "await", "built", "relay", "exited", "aborted"}
  BY <1>1 DEF ControlOK
<1>5. /\ var \in 0 .. noOfHops
      /\ up \subseteq Router
      /\ entry \in [Router -> CircuitInfoEntry]
      /\ TO_FORWARD_FDH \in [Router -> BOOLEAN] /\ TO_FORWARD_ECE \in [Router -> BOOLEAN]
      /\ pinged \in Seq(Host) /\ Len(pinged) <= MaxPings
      /\ faults \in 0 .. MaxFaults
  BY <1>1 DEF ControlOK
<1> QED
  BY <1>2, <1>3, <1>4, <1>5 DEF TypeOK

-----------------------------------------------------------------------------
(* Two datagrams at most: x in the queue of a, y in the queue of b, behind *)
(* x when a is b.                                                          *)

Two(a, b, x, y) ==
  [n \in Node |-> IF n = a THEN IF b = a THEN <<x, y>> ELSE <<x>>
                  ELSE IF n = b THEN <<y>> ELSE << >>]

LEMMA AppendedToOne ==
  ASSUME NEW x, NEW y
  PROVE  Append(<<x>>, y) = <<x, y>> /\ Append(<< >>, y) = <<y>>
<1>1. PICK S : S = {x, y}
  OBVIOUS
<1>2. PICK p, q : p = <<x>> /\ q = <<x, y>>
  OBVIOUS
<1>3. PICK t : t = Append(p, y)
  OBVIOUS
<1>4. p \in Seq(S) /\ Len(p) = 1 /\ p[1] = x /\ y \in S /\ x \in S
  BY <1>1, <1>2
<1>5. t \in Seq(S) /\ Len(t) = 2 /\ t[1] = x /\ t[2] = y
  BY <1>2, <1>3, <1>4
<1>6. q \in Seq(S) /\ Len(q) = 2 /\ q[1] = x /\ q[2] = y
  BY <1>1, <1>2
<1>7. \A n \in 1 .. 2 : n = 1 \/ n = 2
  OBVIOUS
<1>8. t = q
  BY <1>5, <1>6, <1>7, SeqEqual
<1>9. Append(<< >>, y) = <<y>>
  OBVIOUS
<1> QED
  BY <1>2, <1>3, <1>8, <1>9

LEMMA Tuples ==
  \A x, y : /\ Tail(<<x, y>>) = <<y>> /\ Tail(<<x>>) = << >>
            /\ Head(<<x, y>>) = x /\ Head(<<x>>) = x
            /\ Append(<<x>>, y) = <<x, y>> /\ Append(<< >>, y) = <<y>>
            /\ Len(<< >>) = 0 /\ Len(<<x>>) = 1
            /\ <<x>> # << >> /\ <<x, y>> # << >>
<1> TAKE x, y
<1>1. Tail(<<x, y>>) = <<y>> /\ Tail(<<x>>) = << >>
  OBVIOUS
<1>2. Head(<<x, y>>) = x /\ Head(<<x>>) = x
  OBVIOUS
<1>3. Append(<<x>>, y) = <<x, y>> /\ Append(<< >>, y) = <<y>>
  BY AppendedToOne
<1>4. Len(<< >>) = 0 /\ Len(<<x>>) = 1
  OBVIOUS
<1>5. <<x>> # << >> /\ <<x, y>> # << >>
  OBVIOUS
<1> QED
  BY <1>1, <1>2, <1>3, <1>4, <1>5

LEMMA FirstTaken ==
  ASSUME NEW a \in Node, NEW b, NEW x, NEW y, NEW z
  PROVE  Consume(Two(a, b, x, y), a) = Two(NoAddress, b, z, y)
<1>1. NoAddress \notin Node
  BY Numbers
<1>2. Tail(Two(a, b, x, y)[a]) = IF b = a THEN <<y>> ELSE << >>
  BY Tuples DEF Two
<1>3. PICK w : w = Tail(Two(a, b, x, y)[a])
  OBVIOUS
<1>4. Consume(Two(a, b, x, y), a) = [Two(a, b, x, y) EXCEPT ![a] = w]
  BY <1>3 DEF Consume
<1>5. w = IF b = a THEN <<y>> ELSE << >>
  BY <1>2, <1>3
<1> QED
  BY <1>1, <1>4, <1>5 DEF Two

LEMMA SecondTaken ==
  ASSUME NEW b \in Node, NEW a, a # b, NEW x, NEW y, NEW z
  PROVE  Consume(Two(a, b, x, y), b) = Two(a, NoAddress, x, z)
<1>1. NoAddress \notin Node
  BY Numbers
<1>2. PICK w : w = Tail(Two(a, b, x, y)[b])
  OBVIOUS
<1>3. Consume(Two(a, b, x, y), b) = [Two(a, b, x, y) EXCEPT ![b] = w]
  BY <1>2 DEF Consume
<1>4. w = << >>
  BY <1>2, Tuples DEF Two
<1> QED
  BY <1>1, <1>3, <1>4 DEF Two

LEMMA FirstSent ==
  ASSUME NEW a \in Node, NEW b, b # a, NEW x, NEW y, NEW z, NEW live
  PROVE  Deliver(Two(NoAddress, b, z, y), live, RcvBuf, a, x) =
           IF a \in live THEN Two(a, b, x, y) ELSE Two(NoAddress, b, z, y)
<1>1. NoAddress \notin Node /\ RcvBuf \in Nat \ {0}
  BY Numbers
<1>2. PICK q : q = Two(NoAddress, b, z, y)
  OBVIOUS
<1>3. q[a] = << >> /\ Len(q[a]) < RcvBuf
  BY <1>1, <1>2, Tuples DEF Two
<1>4. Append(q[a], x) = <<x>>
  BY <1>3, Tuples
<1>5. [q EXCEPT ![a] = <<x>>] = Two(a, b, x, y)
  BY <1>1, <1>2 DEF Two
<1>6. Deliver(q, live, RcvBuf, a, x) = IF a \in live THEN [q EXCEPT ![a] = <<x>>] ELSE q
  BY <1>3, <1>4 DEF Deliver
<1> QED
  BY <1>2, <1>5, <1>6

LEMMA SecondSent ==
  ASSUME NEW b \in Node, NEW a, NEW x, NEW y, NEW z, NEW live,
         NEW q, q = Two(a, NoAddress, x, z), NEW p, p = Deliver(q, live, RcvBuf, b, y)
  PROVE  p = q \/ (p = Two(a, b, x, y) /\ b \in live)
<1>1. NoAddress \notin Node
  BY Numbers
<1>2. q[b] = IF b = a THEN <<x>> ELSE << >>
  BY <1>1 DEF Two
<1>3. PICK w : w = Append(q[b], y)
  OBVIOUS
<1>4. w = IF b = a THEN <<x, y>> ELSE <<y>>
  BY <1>2, <1>3, Tuples
<1>5. [q EXCEPT ![b] = w] = Two(a, b, x, y)
  BY <1>1, <1>4 DEF Two
<1>6. p = q \/ (p = [q EXCEPT ![b] = w] /\ b \in live)
  BY <1>3 DEF Deliver
<1> QED
  BY <1>5, <1>6

\* The same of the key and the extend message of the hop that is added.
LEMMA KeyAndExtendAreTwo ==
  ASSUME ControlOK, phase \in {"key", "extend", "await"},
         NEW k \in 0 .. var + 1, NEW e \in 0 .. var + 1
  PROVE  KeyAndExtend(k, e) = Two(At(k), At(e), KeyTo(k), ExtendTo(e))
<1>1. k \in 0 .. noOfHops /\ e \in 0 .. noOfHops
  BY BuildMessages
<1>2. At(e) = At(k) <=> e = k
  BY <1>1, AtHop
<1>3. PICK a, b, x, y : a = At(k) /\ b = At(e) /\ x = KeyTo(k) /\ y = ExtendTo(e)
  OBVIOUS
<1>4. KeyAndExtend(k, e) = [n \in Node |-> IF n = a THEN IF e = k THEN <<x, y>> ELSE <<x>>
                                         ELSE IF n = b THEN <<y>> ELSE << >>]
  BY <1>3 DEF KeyAndExtend
<1>5. KeyAndExtend(k, e) = Two(a, b, x, y)
  BY <1>2, <1>3, <1>4 DEF Two
<1> QED
  BY <1>3, <1>5

LEMMA AnswerIsTwo ==
  ASSUME ControlOK, phase \in {"key", "extend", "await"}, NEW i \in 0 .. var + 1, NEW y
  PROVE  /\ Answer(0) = Two(NoAddress, NoAddress, DoneBy(0), y)
         /\ i # 0 => Answer(i) = Two(PrevHop(i), NoAddress, DoneBy(i), y)
         /\ Answer(0) = [n \in Node |-> << >>] /\ KeyAndExtend(0, 0) = [n \in Node |-> << >>]
<1>1. NoAddress \notin Node
  BY Numbers
<1>2. i # 0 => PrevHop(i) # NoAddress
  BY BuildMessages, Path
<1> QED
  BY <1>1, <1>2 DEF Answer, Two, KeyAndExtend, At

-----------------------------------------------------------------------------
(* What does not change.                                                   *)

LEMMA SameControl ==
  ASSUME ControlOK, UNCHANGED <<phase, s, TOR_CCt_HOPs, var, entry, flags, pinged>>,
         up' \subseteq Router, faults' \in 0 .. MaxFaults
  PROVE  ControlOK'
BY DEF ControlOK, HopsChosen, flags

LEMMA SameEntries ==
  ASSUME UNCHANGED <<s, TOR_CCt_HOPs, entry, flags>>
  PROVE  /\ \A i : /\ Linked(i)' = Linked(i) /\ Keyed(i)' = Keyed(i)
                   /\ PrevHop(i)' = PrevHop(i) /\ GivenAt(i)' = GivenAt(i)
         /\ \A r : Fresh(r)' = Fresh(r)
         /\ \A n, m : Placed(n, m)' = Placed(n, m)
BY DEF Linked, LinkedEntry, Keyed, KeyedEntry, Holds, Fresh, Placed, PrevHop, GivenAt, CircuitID,
       flags

\* Entries behind the hops that are linked are not part of the path.
LEMMA SamePath ==
  ASSUME ControlOK, phase \in {"key", "extend", "await"},
         UNCHANGED <<s, TOR_CCt_HOPs, var>>,
         \A i \in 1 .. var : entry'[TOR_CCt_HOPs[i]] = entry[TOR_CCt_HOPs[i]]
  PROVE  /\ \A i \in 1 .. var + 1 :
              /\ PrevHop(i)' = PrevHop(i) /\ GivenAt(i)' = GivenAt(i)
              /\ LinkedEntry(i)' = LinkedEntry(i) /\ KeyedEntry(i)' = KeyedEntry(i)
         /\ \A k, e \in 0 .. var + 1 : KeyAndExtend(k, e)' = KeyAndExtend(k, e)
         /\ \A i \in 0 .. var + 1 : Answer(i)' = Answer(i)
<1>1. \A i : PrevHop(i)' = PrevHop(i)
  BY DEF PrevHop
<1>2. ASSUME NEW i \in 1 .. var + 1
      PROVE  GivenAt(i)' = GivenAt(i)
  <2>1. i # 1 => i - 1 \in 1 .. var
    BY BuildMessages
  <2> QED
    BY <2>1 DEF GivenAt, CircuitID
<1>3. ASSUME NEW i \in 1 .. var + 1
      PROVE  /\ LinkedEntry(i)' = LinkedEntry(i) /\ KeyedEntry(i)' = KeyedEntry(i)
             /\ KeyTo(i)' = KeyTo(i) /\ ExtendTo(i)' = ExtendTo(i) /\ DoneBy(i)' = DoneBy(i)
  BY <1>1, <1>2 DEF LinkedEntry, KeyedEntry, KeyTo, ExtendTo, DoneBy, ToHop, FromHop, Wrapped,
                    HopsFrom
<1>4. \A k : At(k)' = At(k)
  BY DEF At
<1>5. NoAddress \notin Node /\ \A k \in 0 .. var + 1 : k # 0 => k \in 1 .. var + 1
  BY BuildMessages, Numbers
<1>6. ASSUME NEW k \in 0 .. var + 1, NEW e \in 0 .. var + 1
      PROVE  KeyAndExtend(k, e)' = KeyAndExtend(k, e)
  <2>1. \A n \in Node : n = At(k) => KeyTo(k)' = KeyTo(k)
    BY <1>3, <1>5 DEF At
  <2>2. \A n \in Node : n = At(e) => ExtendTo(e)' = ExtendTo(e)
    BY <1>3, <1>5 DEF At
  <2>3. \A n \in Node : n = At(k) /\ e = k => ExtendTo(e)' = ExtendTo(e)
    BY <2>2
  <2> QED
    BY <1>4, <2>1, <2>2, <2>3 DEF KeyAndExtend
<1>7. ASSUME NEW i \in 0 .. var + 1
      PROVE  Answer(i)' = Answer(i)
  BY <1>1, <1>3, <1>5 DEF Answer
<1> QED
  BY <1>1, <1>2, <1>3, <1>6, <1>7

-----------------------------------------------------------------------------
(* What a process finds in its queue while the circuit is built.           *)

LEMMA WhatArrives ==
  ASSUME Parts, Building, NEW n \in Node, inbox[n] # << >>
  PROVE  /\ phase \in {"extend", "await"}
         /\ \/ /\ Placed(var, var + 1)
               /\ \E k, e \in 0 .. var + 1 :
                    /\ inbox = KeyAndExtend(k, e) /\ KeyedOrNot(k, e)
                    /\ phase = "extend" => e = 0
                    /\ \/ k # 0 /\ n = TOR_CCt_HOPs[k] /\ Head(inbox[n]) = KeyTo(k)
                       \/ e # 0 /\ k # e /\ n = TOR_CCt_HOPs[e] /\ Head(inbox[n]) = ExtendTo(e)
            \/ /\ phase = "await" /\ Placed(var + 1, var + 1)
               /\ \E i \in 1 .. var + 1 : /\ inbox = Answer(i) /\ n = PrevHop(i)
                                          /\ Head(inbox[n]) = DoneBy(i)
<1>1. ControlOK /\ BuildInv
  BY DEF Parts
<1>2. ~ Resting
  BY <1>1 DEF BuildInv, Silent
<1>3. phase \in {"extend", "await"}
  BY <1>1, <1>2 DEF Building, Resting
<1>4. CASE Adding
  <2>1. PICK k, e \in 0 .. var + 1 :
          inbox = KeyAndExtend(k, e) /\ KeyedOrNot(k, e) /\ (phase = "extend" => e = 0)
    BY <1>4 DEF Adding
  <2>2. k \in 0 .. noOfHops /\ e \in 0 .. noOfHops /\ phase # "start"
    BY <1>1, <1>3, BuildMessages
  <2>3. /\ n = At(k) => k # 0 /\ n = TOR_CCt_HOPs[k]
        /\ n = At(e) => e # 0 /\ n = TOR_CCt_HOPs[e]
        /\ n # At(k) /\ n = At(e) => k # e
    BY <1>1, <2>2, AtHop
  <2>4. CASE n = At(k)
    <3>1. Head(inbox[n]) = KeyTo(k)
      <4>1. inbox[n] = <<KeyTo(k), ExtendTo(e)>> \/ inbox[n] = <<KeyTo(k)>>
        BY <1>1, <1>3, <2>1, <2>4, QueueOf
      <4> QED
        BY <4>1, Tuples
    <3> QED
      BY <1>3, <1>4, <2>1, <2>3, <2>4, <3>1 DEF Adding
  <2>5. CASE n # At(k) /\ n = At(e)
    <3>1. Head(inbox[n]) = ExtendTo(e)
      BY <1>1, <1>3, <2>1, <2>5, QueueOf, Tuples
    <3> QED
      BY <1>3, <1>4, <2>1, <2>3, <2>5, <3>1 DEF Adding
  <2>6. CASE n # At(k) /\ n # At(e)
    BY <1>1, <1>3, <2>1, <2>6, NothingAt
  <2> QED
    BY <2>4, <2>5, <2>6
<1>5. CASE Added
  <2>1. PICK i \in 0 .. var + 1 : inbox = Answer(i)
    BY <1>5 DEF Added
  <2>2. i # 0 /\ n = PrevHop(i) /\ i \in 1 .. var + 1 /\ inbox[n] = <<DoneBy(i)>>
    BY <1>1, <1>3, <2>1, AnswerOf
  <2>3. Head(inbox[n]) = DoneBy(i)
    BY <2>2, Tuples
  <2> QED
    BY <1>3, <1>5, <2>1, <2>2, <2>3 DEF Added
<1> QED
  BY <1>1, <1>2, <1>4, <1>5 DEF BuildInv

\* The commands of the build tell the cases apart.
LEMMA KeyArrives ==
  ASSUME Parts, Building, NEW r \in Router, Receives(r, "FAKE_DIFFIE_HELLMAN")
  PROVE  \E k, e \in 0 .. var + 1 :
           /\ k # 0 /\ r = TOR_CCt_HOPs[k] /\ Head(inbox[r]) = KeyTo(k)
           /\ inbox = KeyAndExtend(k, e) /\ e <= k /\ (phase = "extend" => e = 0)
           /\ phase \in {"extend", "await"} /\ r \in up
           /\ Placed(var, var + 1) /\ Fresh(TOR_CCt_HOPs[var + 1])
<1>1. r \in Node /\ inbox[r] # << >> /\ Head(inbox[r]).cmd = "FAKE_DIFFIE_HELLMAN" /\ r \in up
  BY Numbers DEF Receives
<1>2. ControlOK
  BY DEF Parts
<1>3. phase \in {"extend", "await"}
  BY <1>1, WhatArrives
<1>4. \A i \in 1 .. var + 1 : /\ KeyTo(i).cmd = "FAKE_DIFFIE_HELLMAN"
                              /\ ExtendTo(i).cmd = "ENC_CIRCUIT_EXTEND"
                              /\ DoneBy(i).cmd = "ENC_CIRCUIT_EXTEND_DONE"
                              /\ var \in Nat
  BY <1>2, <1>3, BuildMessages
<1>5. \A i \in 0 .. var + 1 : i # 0 => i \in 1 .. var + 1
  BY <1>2, <1>3, BuildMessages
<1> QED
  BY <1>1, <1>3, <1>4, <1>5, WhatArrives DEF KeyedOrNot

LEMMA ExtendArrives ==
  ASSUME Parts, Building, NEW r \in Router, Receives(r, "ENC_CIRCUIT_EXTEND")
  PROVE  \E k, e \in 0 .. var + 1 :
           /\ e # 0 /\ k # e /\ r = TOR_CCt_HOPs[e] /\ Head(inbox[r]) = ExtendTo(e)
           /\ inbox = KeyAndExtend(k, e) /\ KeyedOrNot(k, e)
           /\ phase = "await" /\ r \in up
           /\ Placed(var, var + 1)
<1>1. r \in Node /\ inbox[r] # << >> /\ Head(inbox[r]).cmd = "ENC_CIRCUIT_EXTEND" /\ r \in up
  BY Numbers DEF Receives
<1>2. ControlOK
  BY DEF Parts
<1>3. phase \in {"extend", "await"}
  BY <1>1, WhatArrives
<1>4. \A i \in 1 .. var + 1 : /\ KeyTo(i).cmd = "FAKE_DIFFIE_HELLMAN"
                              /\ ExtendTo(i).cmd = "ENC_CIRCUIT_EXTEND"
                              /\ DoneBy(i).cmd = "ENC_CIRCUIT_EXTEND_DONE"
  BY <1>2, <1>3, BuildMessages
<1>5. \A i \in 0 .. var + 1 : i # 0 => i \in 1 .. var + 1
  BY <1>2, <1>3, BuildMessages
<1> QED
  BY <1>1, <1>3, <1>4, <1>5, WhatArrives

LEMMA DoneArrives ==
  ASSUME Parts, Building, NEW n \in Node, inbox[n] # << >>,
         n = Proxy \/ Head(inbox[n]).cmd = "ENC_CIRCUIT_EXTEND_DONE"
  PROVE  /\ phase = "await" /\ Placed(var + 1, var + 1)
         /\ \E i \in 1 .. var + 1 :
              inbox = Answer(i) /\ n = PrevHop(i) /\ Head(inbox[n]) = DoneBy(i)
<1>1. ControlOK
  BY DEF Parts
<1>2. phase \in {"extend", "await"}
  BY WhatArrives
<1>3. \A i \in 1 .. var + 1 : /\ KeyTo(i).cmd = "FAKE_DIFFIE_HELLMAN"
                              /\ ExtendTo(i).cmd = "ENC_CIRCUIT_EXTEND"
                              /\ TOR_CCt_HOPs[i] # Proxy
  BY <1>1, <1>2, BuildMessages, Path, Numbers
<1>4. \A i \in 0 .. var + 1 : i # 0 => i \in 1 .. var + 1
  BY <1>1, <1>2, BuildMessages
<1> QED
  BY <1>2, <1>3, <1>4, WhatArrives

\* Nothing is relayed yet.
LEMMA NoRelayYet ==
  ASSUME Parts, Building
  PROVE  /\ \A r \in Router : \A cmd \in {"RELAY_DATA_FWD_ENC", "RELAY_DATA_BWD_ENC"} :
              ~ Receives(r, cmd)
         /\ ~ (\E r \in Router : RawReply(r)) /\ ~ (\E q \in world : TRUE)
         /\ ~ TunnelRead /\ ~ SocketRead /\ ~ (\E h \in Host : UserPings(h))
<1>1. ControlOK /\ BuildInv
  BY DEF Parts
<1>2. ASSUME NEW r \in Router, NEW cmd \in {"RELAY_DATA_FWD_ENC", "RELAY_DATA_BWD_ENC"},
             Receives(r, cmd)
      PROVE  FALSE
  <2>1. r \in Node /\ inbox[r] # << >> /\ Head(inbox[r]).cmd = cmd
    BY <1>2, Numbers DEF Receives
  <2>2. phase \in {"extend", "await"}
    BY <2>1, WhatArrives
  <2>3. \A i \in 1 .. var + 1 : /\ KeyTo(i).cmd = "FAKE_DIFFIE_HELLMAN"
                                /\ ExtendTo(i).cmd = "ENC_CIRCUIT_EXTEND"
                                /\ DoneBy(i).cmd = "ENC_CIRCUIT_EXTEND_DONE"
    BY <1>1, <2>2, BuildMessages
  <2>4. \A i \in 0 .. var + 1 : i # 0 => i \in 1 .. var + 1
    BY <1>1, <2>2, BuildMessages
  <2> QED
    BY <2>1, <2>3, <2>4, WhatArrives
<1>3. ~ (\E r \in Router : RawReply(r)) /\ ~ (\E q \in world : TRUE)
  BY <1>1 DEF BuildInv, RawReply
<1>4. ~ TunnelRead /\ ~ SocketRead /\ ~ (\E h \in Host : UserPings(h))
  BY DEF Building, TunnelRead, SocketRead, UserPings
<1> QED
  BY <1>2, <1>3, <1>4

-----------------------------------------------------------------------------
(* The proxy builds.                                                       *)

LEMMA BuildStartStep ==
  ASSUME Parts, BuildStart
  PROVE  Parts' /\ up' = up
<1>1. ControlOK /\ BuildInv
  BY DEF Parts, BuildStart, Building
<1>2. /\ phase = "start" /\ s' = s + 1 /\ var' = 0 /\ phase' = "key"
      /\ \E i \in 0 .. noOfRouters - 1 : TOR_CCt_HOPs' = RandomlySelectHops2(i)
      /\ UNCHANGED <<tun, delivered, routerVars, inbox, world, pinged, faults>>
  BY DEF BuildStart
<1>3. s = 1 /\ var = 0 /\ Silent /\ Placed(0, 0)
  BY <1>1, <1>2 DEF ControlOK, HopsChosen, BuildInv, Resting
<1>4. ControlOK'
  BY <1>1, <1>2, <1>3, Numbers DEF ControlOK, HopsChosen, routerVars, flags
<1>5. Placed(0, 0)'
  BY <1>2, <1>3 DEF Placed, Fresh, Holds, routerVars, flags
<1>6. BuildInv' /\ Building'
  BY <1>1, <1>2, <1>3, <1>5 DEF BuildInv, Resting, Building, Silent, routerVars
<1> QED
  BY <1>2, <1>4, <1>6 DEF Parts, routerVars

\* The first hop, when the proxy sends to it.
LEMMA SendKeyStep ==
  ASSUME Parts, SendKey
  PROVE  Parts' /\ up' = up
<1>1. ControlOK /\ BuildInv
  BY DEF Parts, SendKey, Building
<1>2. /\ phase = "key" /\ phase' = "extend"
      /\ ToFirstHop("FAKE_DIFFIE_HELLMAN", OnionEncrypt(KeyBody(TOR_CCt_HOPs[var + 1]), var))
      /\ UNCHANGED <<s, TOR_CCt_HOPs, var, tun, delivered, routerVars, world, pinged, faults>>
  BY DEF SendKey
<1>3. /\ var \in Nat /\ 0 \in 0 .. var + 1 /\ 1 \in 0 .. var + 1 /\ 1 \in 1 .. var + 1
      /\ 1 # 0 /\ 0 + 1 = 1
  BY <1>1, <1>2, BuildMessages
<1>4. inbox = KeyAndExtend(0, 0) /\ Placed(var, var)
  BY <1>1, <1>2, <1>3, AnswerIsTwo DEF BuildInv, Silent, Resting
<1>5. inbox' = Sent(inbox, TOR_CCt_HOPs[1], KeyTo(1))
  <2>1. OnionEncrypt(KeyBody(TOR_CCt_HOPs[var + 1]), var) =
          Wrapped(KeyBody(TOR_CCt_HOPs[var + 1]), 1, var)
    <3>1. var \in 0 .. noOfHops /\ HopsAre(TOR_CCt_HOPs)
      BY <1>1, <1>2, Path DEF ControlOK
    <3> QED
      BY <1>1, <1>2, <3>1, ProxyWraps, BuildMessages
  <2> QED
    BY <1>2, <2>1 DEF ToFirstHop, KeyTo, ToHop, PrevHop, GivenAt
<1>6. /\ At(1) = TOR_CCt_HOPs[1] /\ At(0) = NoAddress /\ At(1) \in Router /\ At(1) \in Node
      /\ At(1) # NoAddress
  BY <1>1, <1>2, AtHop, Numbers
<1>7. inbox' = IF TOR_CCt_HOPs[1] \in LiveNodes THEN KeyAndExtend(1, 0) ELSE KeyAndExtend(0, 0)
  BY <1>1, <1>2, <1>3, <1>4, <1>5, <1>6, KeyAndExtendAreTwo, FirstSent DEF Sent
<1>8. TOR_CCt_HOPs[1] \in LiveNodes <=> TOR_CCt_HOPs[1] \in up
  BY <1>6, Numbers DEF LiveNodes
<1>9. Fresh(TOR_CCt_HOPs[var + 1]) /\ Placed(var, var + 1)
  <2>1. \A i \in 1 .. var : TOR_CCt_HOPs[var + 1] # TOR_CCt_HOPs[i]
    BY <1>1, <1>2, <1>3, BuildMessages, PrevHopsDistinct
  <2>2. TOR_CCt_HOPs[var + 1] \in Router
    BY <1>1, <1>2, BuildMessages
  <2> QED
    BY <1>3, <1>4, <2>1, <2>2 DEF Placed
<1>10. \E k, e \in 0 .. var + 1 :
         inbox' = KeyAndExtend(k, e) /\ KeyedOrNot(k, e) /\ e = 0
  BY <1>3, <1>7, <1>8, <1>9 DEF KeyedOrNot
<1>11. ControlOK'
  BY <1>1, <1>2 DEF ControlOK, HopsChosen, routerVars, flags
<1>12. Adding'
  <2>1. Placed(var, var + 1)'
    BY <1>2, <1>9, SameEntries DEF routerVars
  <2>2. PICK k, e \in 0 .. var + 1 : inbox' = KeyAndExtend(k, e) /\ KeyedOrNot(k, e) /\ e = 0
    BY <1>10
  <2>3. KeyAndExtend(k, e)' = KeyAndExtend(k, e)
    BY <1>1, <1>2, SamePath DEF routerVars
  <2>4. KeyedOrNot(k, e)'
    BY <1>2, <2>2, SameEntries DEF KeyedOrNot, routerVars
  <2> QED
    BY <1>2, <2>1, <2>2, <2>3, <2>4 DEF Adding
<1> QED
  BY <1>1, <1>2, <1>11, <1>12 DEF Parts, BuildInv, Building, Resting, routerVars

LEMMA SendExtendStep ==
  ASSUME Parts, SendExtend
  PROVE  Parts' /\ up' = up
<1>1. ControlOK /\ BuildInv
  BY DEF Parts, SendExtend, Building
<1>2. /\ phase = "extend" /\ phase' = "await"
      /\ ToFirstHop("ENC_CIRCUIT_EXTEND", OnionEncrypt(PortBody(TOR_CCt_HOPs[var + 2]), var + 1))
      /\ UNCHANGED <<s, TOR_CCt_HOPs, var, tun, delivered, routerVars, world, pinged, faults>>
  BY DEF SendExtend
<1>3. /\ var \in Nat /\ 0 \in 0 .. var + 1 /\ 1 \in 0 .. var + 1 /\ 1 \in 1 .. var + 1
      /\ 1 # 0 /\ 0 + 1 = 1 /\ \A k \in 0 .. var + 1 : k # 0 => 1 <= k
  BY <1>1, <1>2, BuildMessages
<1>4. Adding
  BY <1>1, <1>2 DEF BuildInv, Resting, Added
<1>5. PICK k \in 0 .. var + 1 : inbox = KeyAndExtend(k, 0) /\ KeyedOrNot(k, 0)
  BY <1>2, <1>4 DEF Adding
<1>6. inbox' = Sent(inbox, TOR_CCt_HOPs[1], ExtendTo(1))
  <2>1. OnionEncrypt(PortBody(TOR_CCt_HOPs[var + 2]), var + 1) =
          Wrapped(PortBody(TOR_CCt_HOPs[var + 2]), 1, var + 1)
    <3>1. var + 1 \in 0 .. noOfHops /\ HopsAre(TOR_CCt_HOPs)
      BY <1>1, <1>2, Path, BuildMessages
    <3> QED
      BY <1>1, <1>2, <3>1, ProxyWraps, BuildMessages
  <2> QED
    BY <1>2, <2>1 DEF ToFirstHop, ExtendTo, ToHop, PrevHop, GivenAt
<1>7. At(1) = TOR_CCt_HOPs[1] /\ At(0) = NoAddress /\ At(1) \in Router /\ At(1) \in Node
  BY <1>1, <1>2, AtHop, Numbers
<1>8. inbox' = inbox \/ (inbox' = KeyAndExtend(k, 1) /\ TOR_CCt_HOPs[1] \in LiveNodes)
  <2>1. inbox = Two(At(k), NoAddress, KeyTo(k), ExtendTo(0))
    BY <1>1, <1>2, <1>3, <1>5, <1>7, KeyAndExtendAreTwo
  <2>2. KeyAndExtend(k, 1) = Two(At(k), At(1), KeyTo(k), ExtendTo(1))
    BY <1>1, <1>2, <1>3, KeyAndExtendAreTwo
  <2>3. inbox' = Deliver(inbox, LiveNodes, RcvBuf, At(1), ExtendTo(1))
    BY <1>6, <1>7 DEF Sent
  <2> QED
    BY <1>7, <2>1, <2>2, <2>3, SecondSent
<1>9. \E e \in 0 .. var + 1 : inbox' = KeyAndExtend(k, e) /\ KeyedOrNot(k, e)
  <2>1. CASE inbox' = inbox
    BY <1>3, <1>5, <2>1
  <2>2. CASE inbox' = KeyAndExtend(k, 1) /\ TOR_CCt_HOPs[1] \in LiveNodes
    <3>1. TOR_CCt_HOPs[1] \in up
      BY <1>7, <2>2, Numbers DEF LiveNodes
    <3>2. \A d \in 0 + 1 .. var + 1 : TOR_CCt_HOPs[d] \notin up => d \in 1 + 1 .. var + 1
      <4>1. \A d \in 1 .. var + 1 : d # 1 => d \in 1 + 1 .. var + 1
        BY <1>3
      <4> QED
        BY <1>3, <3>1, <4>1
    <3>3. KeyedOrNot(k, 1)
      BY <1>3, <1>5, <3>2 DEF KeyedOrNot
    <3> QED
      BY <1>3, <2>2, <3>3
  <2> QED
    BY <1>8, <2>1, <2>2
<1>10. ControlOK'
  BY <1>1, <1>2 DEF ControlOK, HopsChosen, routerVars, flags
<1>11. Adding'
  <2>1. Placed(var, var + 1)'
    BY <1>2, <1>4, SameEntries DEF routerVars, Adding
  <2>2. PICK e \in 0 .. var + 1 : inbox' = KeyAndExtend(k, e) /\ KeyedOrNot(k, e)
    BY <1>9
  <2>3. KeyAndExtend(k, e)' = KeyAndExtend(k, e)
    BY <1>1, <1>2, SamePath DEF routerVars
  <2>4. KeyedOrNot(k, e)'
    BY <1>2, <2>2, SameEntries DEF KeyedOrNot, routerVars
  <2> QED
    BY <1>2, <2>1, <2>2, <2>3, <2>4 DEF Adding
<1> QED
  BY <1>1, <1>2, <1>10, <1>11 DEF Parts, BuildInv, Building, Resting, routerVars

LEMMA AwaitDoneStep ==
  ASSUME Parts, AwaitDone
  PROVE  Parts' /\ up' = up
<1>1. ControlOK /\ BuildInv /\ Building
  BY DEF Parts, AwaitDone, Building
<1>2. /\ phase = "await" /\ inbox[Proxy] # << >> /\ inbox' = Consume(inbox, Proxy)
      /\ UNCHANGED <<s, TOR_CCt_HOPs, tun, delivered, routerVars, world, pinged, faults>>
  BY DEF AwaitDone
<1>3. Proxy \in Node
  BY Numbers
<1>4. PICK i \in 1 .. var + 1 :
        inbox = Answer(i) /\ Proxy = PrevHop(i) /\ Head(inbox[Proxy]) = DoneBy(i)
  BY <1>1, <1>2, <1>3, DoneArrives
<1>5. /\ i = 1 /\ 1 \in 1 .. noOfHops /\ 1 \in 0 .. var + 1 /\ 0 \in 0 .. var + 1 /\ var \in Nat
      /\ noOfHops \in Nat /\ var + 1 \in 1 .. noOfHops
  BY <1>1, <1>2, <1>4, PrevHopsDistinct, BuildMessages
<1>6. IsDone(DoneBy(1)) /\ CircuitID = htons(DoneBy(1).cid)
  BY <1>1, <1>2, <1>4, <1>5, BuildMessages, NextHopOf DEF IsDone
<1>7. var' = var + 1 /\ phase' = IF var + 1 = noOfHops THEN "built" ELSE "key"
  BY <1>4, <1>5, <1>6 DEF AwaitDone
<1>8. inbox' = [n \in Node |-> << >>]
  <2>1. inbox = Two(Proxy, NoAddress, DoneBy(1), DoneBy(1))
    BY <1>1, <1>2, <1>4, <1>5, AnswerIsTwo
  <2>2. inbox' = Two(NoAddress, NoAddress, DoneBy(0), DoneBy(1))
    BY <1>2, <1>3, <2>1, FirstTaken
  <2> QED
    BY <1>1, <1>2, <1>5, <2>2, AnswerIsTwo
<1>9. Placed(var + 1, var + 1)
  BY <1>1, <1>2, <1>3, DoneArrives
<1>10. Placed(var, var)'
  <2>1. PICK v : v = var + 1
    OBVIOUS
  <2>2. Placed(v, v)'
    BY <1>2, <1>9, <2>1, SameEntries DEF routerVars
  <2> QED
    BY <1>7, <2>1, <2>2
<1>11. ControlOK'
  BY <1>1, <1>2, <1>5, <1>7 DEF ControlOK, HopsChosen, routerVars, flags
<1> QED
  BY <1>1, <1>2, <1>7, <1>8, <1>10, <1>11
     DEF Parts, BuildInv, Building, Resting, Silent, routerVars

LEMMA OpenTunnelStep ==
  ASSUME Parts, OpenTunnel \/ OpenTunnelFails
  PROVE  Parts' /\ up' = up
<1>1. ControlOK /\ BuildInv /\ phase = "built"
  BY DEF Parts, OpenTunnel, OpenTunnelFails, Building
<1>2. /\ phase' \in {"relay", "exited"} /\ faults' \in 0 .. MaxFaults
      /\ UNCHANGED <<s, TOR_CCt_HOPs, var, tun, delivered, routerVars, inbox, world, pinged>>
  BY <1>1, Numbers DEF OpenTunnel, OpenTunnelFails, ControlOK
<1>3. var = noOfHops /\ Silent /\ Placed(noOfHops, noOfHops)
  BY <1>1 DEF ControlOK, BuildInv, Resting
<1>4. ControlOK' /\ ~ Building'
  BY <1>1, <1>2 DEF ControlOK, HopsChosen, routerVars, flags, Building
<1>5. Placed(noOfHops, noOfHops)'
  BY <1>2, <1>3, SameEntries DEF routerVars
<1>6. \A S : << >> \in Seq(S)
  BY EmptySeq
<1>7. /\ tun' \in Seq(Requests(Eth(0))) /\ delivered' \in Seq(Replies)
      /\ world' \subseteq Requests(Eth(Exit'))
  BY <1>1, <1>2, <1>6 DEF BuildInv
<1>8. raw' = [r \in Router |-> << >>]
  BY <1>1, <1>2 DEF BuildInv, routerVars
<1>9. /\ raw' = [r \in Router |-> raw'[r]]
      /\ \A r \in Router : raw'[r] \in Seq(Replies) /\ (raw'[r] # << >> => r = Exit')
  BY <1>6, <1>8
<1>10. inbox' = [n \in Node |-> << >>]
  BY <1>2, <1>3 DEF Silent
<1>11. /\ inbox' = [n \in Node |-> inbox'[n]]
       /\ \A n \in Node : inbox'[n] \in Seq(Receivable(n)')
  BY <1>6, <1>10
<1>12. ServeInv'
  BY <1>5, <1>7, <1>9, <1>11 DEF ServeInv, Requests, Replies
<1> QED
  BY <1>2, <1>4, <1>12 DEF Parts, routerVars

-----------------------------------------------------------------------------
(* The routers take part in building.                                      *)

\* A step that leaves the entries alone.
LEMMA StillAdding ==
  ASSUME Parts, Building, phase \in {"extend", "await"},
         UNCHANGED <<phase, s, TOR_CCt_HOPs, var, tun, delivered, entry, flags, raw, world,
                     pinged>>,
         up' \subseteq Router, faults' \in 0 .. MaxFaults,
         Placed(var, var + 1),
         NEW k \in 0 .. var + 1, NEW e \in 0 .. var + 1, inbox' = KeyAndExtend(k, e),
         phase = "extend" => e = 0,
         \/ k = 0 /\ Keyed(var + 1)
         \/ k # 0 /\ e <= k /\ Fresh(TOR_CCt_HOPs[var + 1])
         \/ /\ k = 0 /\ Fresh(TOR_CCt_HOPs[var + 1])
            /\ \E d \in e + 1 .. var + 1 : TOR_CCt_HOPs[d] \notin up'
  PROVE  Parts'
<1>1. ControlOK /\ BuildInv
  BY DEF Parts
<1>2. Placed(var, var + 1)'
  BY SameEntries
<1>3. KeyAndExtend(k, e)' = KeyAndExtend(k, e)
  BY <1>1, SamePath
<1>4. KeyedOrNot(k, e)'
  BY SameEntries DEF KeyedOrNot
<1>5. Adding'
  BY <1>2, <1>3, <1>4 DEF Adding
<1>6. ControlOK'
  BY <1>1, SameControl
<1> QED
  BY <1>1, <1>5, <1>6 DEF Parts, BuildInv, Building, Resting

LEMMA StillAdded ==
  ASSUME Parts, Building, phase = "await",
         UNCHANGED <<phase, s, TOR_CCt_HOPs, var, tun, delivered, entry, flags, raw, world,
                     pinged>>,
         up' \subseteq Router, faults' \in 0 .. MaxFaults,
         Placed(var + 1, var + 1),
         NEW i \in 0 .. var + 1, inbox' = Answer(i)
  PROVE  Parts'
<1>1. ControlOK /\ BuildInv
  BY DEF Parts
<1>2. Placed(var + 1, var + 1)'
  BY SameEntries
<1>3. Answer(i)' = Answer(i)
  BY <1>1, SamePath
<1>4. Added'
  BY <1>2, <1>3 DEF Added
<1>5. ControlOK'
  BY <1>1, SameControl
<1> QED
  BY <1>1, <1>4, <1>5 DEF Parts, BuildInv, Building, Resting

LEMMA ForwardKeyStep ==
  ASSUME Parts, Building, NEW r \in Router, ForwardKey(r)
  PROVE  Parts' /\ up' = up
<1>1. ControlOK
  BY DEF Parts
<1>2. PICK k, e \in 0 .. var + 1 :
        /\ k # 0 /\ r = TOR_CCt_HOPs[k] /\ Head(inbox[r]) = KeyTo(k)
        /\ inbox = KeyAndExtend(k, e) /\ e <= k /\ (phase = "extend" => e = 0)
        /\ phase \in {"extend", "await"} /\ r \in up
        /\ Placed(var, var + 1) /\ Fresh(TOR_CCt_HOPs[var + 1])
  BY KeyArrives DEF ForwardKey
<1>3. k # var + 1
  BY <1>2 DEF ForwardKey, Fresh, Holds
<1>4. /\ k \in 1 .. var /\ k \in 1 .. noOfHops /\ k + 1 \in 1 .. var + 1 /\ k + 1 \in 0 .. var + 1
      /\ k + 1 \in 1 .. noOfHops /\ k \in 1 .. var + 1
      /\ 0 \in 0 .. var + 1 /\ var \in Nat /\ e <= k + 1 /\ e # k + 1 /\ k + 1 # 0
      /\ k + 1 \in e + 1 .. var + 1 /\ var \in 1 .. noOfHops /\ k <= var
  BY <1>1, <1>2, <1>3, BuildMessages
<1>5. Linked(k)
  BY <1>2, <1>4 DEF Placed
<1>6. /\ entry[r].key = TOR_CCt_HOPs[k] /\ entry[r].nextHop = TOR_CCt_HOPs[k + 1]
      /\ GivenAt(k + 1) = entry[r].myCircuitID /\ PrevHop(k + 1) = r
      /\ TOR_CCt_HOPs[k + 1] \in Router /\ TOR_CCt_HOPs[k + 1] \in Node
      /\ TOR_CCt_HOPs[k + 1] # NoAddress
  BY <1>1, <1>2, <1>4, <1>5, NextHopOf, Path, Numbers DEF Linked, Holds, LinkedEntry
<1>7. PICK b : b = KeyBody(TOR_CCt_HOPs[var + 1])
  OBVIOUS
<1>8. b \in Bare /\ HopsAre(TOR_CCt_HOPs) /\ KeyTo(k).body = Wrapped(b, k, var)
  BY <1>1, <1>2, <1>4, <1>7, BuildMessages, Path
<1>9. OpensAt(r) /\ PeeledAt(r) = Wrapped(b, k + 1, var)
  BY <1>2, <1>4, <1>6, <1>8, HopPeels DEF OpensAt, PeeledAt, BodyAt
<1>10. Onward(r, "FAKE_DIFFIE_HELLMAN") = KeyTo(k + 1)
  BY <1>6, <1>7, <1>9 DEF Onward, KeyTo, ToHop
<1>11. /\ inbox' = Sent(Consume(inbox, r), TOR_CCt_HOPs[k + 1], KeyTo(k + 1))
       /\ UNCHANGED <<up, raw, phase>>
       /\ UNCHANGED <<s, TOR_CCt_HOPs, var, tun, delivered, entry, flags, world, pinged, faults>>
  BY <1>6, <1>9, <1>10 DEF ForwardKey, RouterSends
<1>12. /\ At(k) = r /\ At(k + 1) = TOR_CCt_HOPs[k + 1] /\ At(0) = NoAddress /\ At(e) # At(k + 1)
       /\ r \in Node
  BY <1>1, <1>2, <1>4, AtHop, Numbers, BuildMessages
<1>13. PICK q : q = Consume(inbox, r)
  OBVIOUS
<1>14. q = Two(NoAddress, At(e), KeyTo(0), ExtendTo(e))
  <2>1. inbox = Two(r, At(e), KeyTo(k), ExtendTo(e))
    BY <1>1, <1>2, <1>12, KeyAndExtendAreTwo
  <2> QED
    BY <1>12, <1>13, <2>1, FirstTaken
<1>15. /\ KeyAndExtend(0, e) = Two(NoAddress, At(e), KeyTo(0), ExtendTo(e))
       /\ KeyAndExtend(k + 1, e) = Two(TOR_CCt_HOPs[k + 1], At(e), KeyTo(k + 1), ExtendTo(e))
  BY <1>1, <1>2, <1>4, <1>12, KeyAndExtendAreTwo
<1>16. inbox' = IF TOR_CCt_HOPs[k + 1] \in LiveNodes
                  THEN KeyAndExtend(k + 1, e) ELSE KeyAndExtend(0, e)
  <2>1. inbox' = Deliver(q, LiveNodes, RcvBuf, TOR_CCt_HOPs[k + 1], KeyTo(k + 1))
    BY <1>11, <1>13 DEF Sent
  <2> QED
    BY <1>6, <1>12, <1>14, <1>15, <2>1, FirstSent
<1>17. up \subseteq Router /\ faults \in 0 .. MaxFaults
  BY <1>1 DEF ControlOK
<1>18. CASE TOR_CCt_HOPs[k + 1] \in LiveNodes
  BY <1>2, <1>4, <1>11, <1>16, <1>17, <1>18, StillAdding
<1>19. CASE TOR_CCt_HOPs[k + 1] \notin LiveNodes
  <2>1. TOR_CCt_HOPs[k + 1] \notin up
    BY <1>19 DEF LiveNodes
  <2> QED
    BY <1>2, <1>4, <1>11, <1>16, <1>17, <1>19, <2>1, StillAdding
<1> QED
  BY <1>11, <1>18, <1>19

LEMMA ForwardExtendStep ==
  ASSUME Parts, Building, NEW r \in Router, ForwardExtend(r)
  PROVE  Parts' /\ up' = up
<1>1. ControlOK
  BY DEF Parts
<1>2. PICK k, e \in 0 .. var + 1 :
        /\ e # 0 /\ k # e /\ r = TOR_CCt_HOPs[e] /\ Head(inbox[r]) = ExtendTo(e)
        /\ inbox = KeyAndExtend(k, e) /\ KeyedOrNot(k, e)
        /\ phase = "await" /\ r \in up
        /\ Placed(var, var + 1)
  BY ExtendArrives DEF ForwardExtend
<1>3. e # var + 1
  BY <1>2 DEF ForwardExtend, KeyedOrNot, Fresh, Keyed, Holds
<1>4. /\ e \in 1 .. var /\ e \in 1 .. noOfHops /\ e + 1 \in 1 .. var + 1 /\ e + 1 \in 0 .. var + 1
      /\ e + 1 \in 1 .. noOfHops /\ e \in 1 .. var + 1
      /\ 0 \in 0 .. var + 1 /\ var \in Nat /\ var + 1 \in 1 .. noOfHops /\ e <= var + 1
      /\ k # 0 /\ e <= k => e + 1 <= k /\ 0 <= k
  BY <1>1, <1>2, <1>3, BuildMessages
<1>5. Linked(e)
  BY <1>2, <1>4 DEF Placed
<1>6. /\ entry[r].key = TOR_CCt_HOPs[e] /\ entry[r].nextHop = TOR_CCt_HOPs[e + 1]
      /\ GivenAt(e + 1) = entry[r].myCircuitID /\ PrevHop(e + 1) = r
      /\ TOR_CCt_HOPs[e + 1] \in Router /\ TOR_CCt_HOPs[e + 1] \in Node
      /\ TOR_CCt_HOPs[e + 1] # NoAddress
  BY <1>1, <1>2, <1>4, <1>5, NextHopOf, Path, Numbers DEF Linked, Holds, LinkedEntry
<1>7. PICK b : b = PortBody(TOR_CCt_HOPs[var + 2])
  OBVIOUS
<1>8. b \in Bare /\ HopsAre(TOR_CCt_HOPs) /\ ExtendTo(e).body = Wrapped(b, e, var + 1)
  BY <1>1, <1>2, <1>4, <1>7, BuildMessages, Path
<1>9. OpensAt(r) /\ PeeledAt(r) = Wrapped(b, e + 1, var + 1)
  BY <1>2, <1>4, <1>6, <1>8, HopPeels DEF OpensAt, PeeledAt, BodyAt
<1>10. Onward(r, "ENC_CIRCUIT_EXTEND") = ExtendTo(e + 1)
  BY <1>6, <1>7, <1>9 DEF Onward, ExtendTo, ToHop
<1>11. /\ inbox' = Sent(Consume(inbox, r), TOR_CCt_HOPs[e + 1], ExtendTo(e + 1))
       /\ UNCHANGED <<up, raw, phase>>
       /\ UNCHANGED <<s, TOR_CCt_HOPs, var, tun, delivered, entry, flags, world, pinged, faults>>
  BY <1>6, <1>9, <1>10 DEF ForwardExtend, RouterSends
<1>12. /\ At(e) = r /\ At(e + 1) = TOR_CCt_HOPs[e + 1] /\ At(0) = NoAddress /\ At(k) # At(e)
       /\ r \in Node
  BY <1>1, <1>2, <1>4, AtHop, Numbers, BuildMessages
<1>13. PICK q : q = Consume(inbox, r)
  OBVIOUS
<1>14. q = KeyAndExtend(k, 0)
  <2>1. inbox = Two(At(k), r, KeyTo(k), ExtendTo(e))
    BY <1>1, <1>2, <1>12, KeyAndExtendAreTwo
  <2>2. KeyAndExtend(k, 0) = Two(At(k), NoAddress, KeyTo(k), ExtendTo(0))
    BY <1>1, <1>2, <1>4, <1>12, KeyAndExtendAreTwo
  <2> QED
    BY <1>12, <1>13, <2>1, <2>2, SecondTaken
<1>15. inbox' = KeyAndExtend(k, 0) \/
         (inbox' = KeyAndExtend(k, e + 1) /\ TOR_CCt_HOPs[e + 1] \in LiveNodes)
  <2>1. inbox' = Deliver(q, LiveNodes, RcvBuf, TOR_CCt_HOPs[e + 1], ExtendTo(e + 1))
    BY <1>11, <1>13 DEF Sent
  <2>2. /\ q = Two(At(k), NoAddress, KeyTo(k), ExtendTo(0))
        /\ KeyAndExtend(k, e + 1) = Two(At(k), TOR_CCt_HOPs[e + 1], KeyTo(k), ExtendTo(e + 1))
    BY <1>1, <1>2, <1>4, <1>12, <1>14, KeyAndExtendAreTwo
  <2> QED
    BY <1>6, <1>14, <2>1, <2>2, SecondSent
<1>16. up \subseteq Router /\ faults \in 0 .. MaxFaults
  BY <1>1 DEF ControlOK
<1>17. CASE inbox' = KeyAndExtend(k, 0)
  <2>1. \/ k = 0 /\ Keyed(var + 1)
        \/ k # 0 /\ 0 <= k /\ Fresh(TOR_CCt_HOPs[var + 1])
        \/ /\ k = 0 /\ Fresh(TOR_CCt_HOPs[var + 1])
           /\ \E d \in 0 + 1 .. var + 1 : TOR_CCt_HOPs[d] \notin up'
    <3>1. \A d \in e + 1 .. var + 1 : d \in 0 + 1 .. var + 1
      BY <1>4
    <3> QED
      BY <1>2, <1>4, <1>11, <3>1 DEF KeyedOrNot
  <2> QED
    BY <1>2, <1>4, <1>11, <1>16, <1>17, <2>1, StillAdding
<1>18. CASE inbox' = KeyAndExtend(k, e + 1) /\ TOR_CCt_HOPs[e + 1] \in LiveNodes
  <2>1. TOR_CCt_HOPs[e + 1] \in up
    BY <1>6, <1>18, Numbers DEF LiveNodes
  <2>2. \/ k = 0 /\ Keyed(var + 1)
        \/ k # 0 /\ e + 1 <= k /\ Fresh(TOR_CCt_HOPs[var + 1])
        \/ /\ k = 0 /\ Fresh(TOR_CCt_HOPs[var + 1])
           /\ \E d \in (e + 1) + 1 .. var + 1 : TOR_CCt_HOPs[d] \notin up'
    <3>1. \A d \in e + 1 .. var + 1 : d # e + 1 => d \in (e + 1) + 1 .. var + 1
      BY <1>4
    <3>2. e <= k /\ k # 0 => e + 1 <= k
      BY <1>2
    <3> QED
      BY <1>2, <1>11, <2>1, <3>1, <3>2 DEF KeyedOrNot
  <2> QED
    BY <1>2, <1>4, <1>11, <1>16, <1>18, <2>2, StillAdding
<1> QED
  BY <1>11, <1>15, <1>17, <1>18

LEMMA ForwardDoneStep ==
  ASSUME Parts, Building, NEW r \in Router, ForwardDone(r)
  PROVE  Parts' /\ up' = up
<1>1. ControlOK /\ r \in Node /\ r # Proxy
  BY Numbers DEF Parts
<1>2. inbox[r] # << >> /\ Head(inbox[r]).cmd = "ENC_CIRCUIT_EXTEND_DONE"
  BY DEF ForwardDone, Receives
<1>3. phase = "await" /\ Placed(var + 1, var + 1)
  BY <1>1, <1>2, DoneArrives
<1>4. PICK i \in 1 .. var + 1 : inbox = Answer(i) /\ r = PrevHop(i) /\ Head(inbox[r]) = DoneBy(i)
  BY <1>1, <1>2, DoneArrives
<1>5. /\ i \in 1 .. noOfHops /\ i # 1 /\ PrevHop(1) = Proxy
  BY <1>1, <1>3, <1>4, BuildMessages DEF PrevHop
<1>6. PICK j : j = i - 1
  OBVIOUS
<1>7. /\ j \in 1 .. var + 1 /\ j \in 0 .. var + 1
      /\ 0 \in 0 .. var + 1 /\ j # 0 /\ j \in 1 .. noOfHops
      /\ i \in 0 .. var + 1 /\ i # 0
  BY <1>1, <1>3, <1>5, <1>6, BuildMessages
<1>8. r = TOR_CCt_HOPs[j] /\ GivenAt(i) = entry[r].myCircuitID
  BY <1>1, <1>3, <1>4, <1>5, <1>6, NextHopOf
<1>9. Linked(j)
  BY <1>3, <1>7 DEF Placed
<1>10. /\ entry[r].circuitRequesterAddr = PrevHop(j) /\ entry[r].givenCicuitID = GivenAt(j)
       /\ PrevHop(j) \in Node /\ PrevHop(j) # NoAddress
  BY <1>1, <1>3, <1>7, <1>8, <1>9, Path DEF Linked, Holds, LinkedEntry
<1>11. DoneBy(i).cid = htons(entry[r].myCircuitID) /\ DoneBy(i).body = Empty
  BY <1>1, <1>3, <1>8, BuildMessages
<1>12. Msg(r, "ENC_CIRCUIT_EXTEND_DONE", htons(entry[r].givenCicuitID), Empty) = DoneBy(j)
  BY <1>8, <1>10 DEF DoneBy, FromHop
<1>13. /\ inbox' = Sent(Consume(inbox, r), PrevHop(j), DoneBy(j))
       /\ UNCHANGED <<up, raw, phase>>
       /\ UNCHANGED <<s, TOR_CCt_HOPs, var, tun, delivered, entry, flags, world, pinged, faults>>
  BY <1>4, <1>10, <1>11, <1>12 DEF ForwardDone, RouterSends
<1>14. Consume(inbox, r) = Answer(0)
  <2>1. inbox = Two(r, NoAddress, DoneBy(i), DoneBy(0))
    BY <1>1, <1>3, <1>4, <1>7, AnswerIsTwo
  <2>2. Answer(0) = Two(NoAddress, NoAddress, DoneBy(0), DoneBy(0))
    BY <1>1, <1>3, <1>7, AnswerIsTwo
  <2> QED
    BY <1>1, <2>1, <2>2, FirstTaken
<1>15. inbox' = Answer(j) \/ inbox' = Answer(0)
  <2>1. /\ Answer(0) = Two(NoAddress, NoAddress, DoneBy(0), DoneBy(0))
        /\ Answer(j) = Two(PrevHop(j), NoAddress, DoneBy(j), DoneBy(0))
    BY <1>1, <1>3, <1>7, AnswerIsTwo
  <2>2. inbox' = Deliver(Answer(0), LiveNodes, RcvBuf, PrevHop(j), DoneBy(j))
    BY <1>13, <1>14 DEF Sent
  <2> QED
    BY <1>10, <2>1, <2>2, FirstSent
<1>16. up \subseteq Router /\ faults \in 0 .. MaxFaults
  BY <1>1 DEF ControlOK
<1>17. Parts'
  BY <1>3, <1>7, <1>13, <1>15, <1>16, StillAdded
<1> QED
  BY <1>13, <1>17

LEMMA NewKeyStep ==
  ASSUME Parts, Building, NEW r \in Router, NewKey(r)
  PROVE  Parts' /\ up' = up
<1>1. ControlOK /\ BuildInv
  BY DEF Parts
<1>2. PICK k, e \in 0 .. var + 1 :
        /\ k # 0 /\ r = TOR_CCt_HOPs[k] /\ Head(inbox[r]) = KeyTo(k)
        /\ inbox = KeyAndExtend(k, e) /\ e <= k /\ (phase = "extend" => e = 0)
        /\ phase \in {"extend", "await"} /\ r \in up
        /\ Placed(var, var + 1) /\ Fresh(TOR_CCt_HOPs[var + 1])
  BY KeyArrives DEF NewKey
<1>3. k \notin 1 .. var
  BY <1>2 DEF NewKey, Placed, Linked, Holds
<1>4. /\ k = var + 1 /\ k \in 1 .. noOfHops /\ k \in 1 .. var + 1
      /\ 0 \in 0 .. var + 1 /\ var \in Nat
      /\ k \in 1 .. noOfHops + 1 /\ var \in 0 .. noOfHops /\ var < k
  BY <1>1, <1>2, <1>3, BuildMessages
<1>5. /\ r \in Node /\ Fresh(r) /\ HopsAre(TOR_CCt_HOPs)
      /\ \A i \in 1 .. var : TOR_CCt_HOPs[i] # r /\ i \in 1 .. noOfHops
      /\ PrevHop(k) \in Node /\ GivenAt(k) \in Word
  BY <1>1, <1>2, <1>4, PrevHopsDistinct, Path, Numbers
<1>6. /\ KeyTo(k).from = PrevHop(k) /\ htons(KeyTo(k).cid) = GivenAt(k)
      /\ KeyTo(k).body = KeyBody(r) /\ IsKey(KeyBody(r)) /\ KeyBody(r).key = r
  <2>1. KeyBody(r) \in Bare /\ IsKey(KeyBody(r)) /\ KeyBody(r).key = r
    BY BareBodies
  <2>2. KeyTo(k).body = Wrapped(KeyBody(r), k, var)
    BY <1>1, <1>2, <1>4, BuildMessages
  <2>3. Wrapped(KeyBody(r), k, var) = KeyBody(r)
    BY <1>4, <1>5, <2>1, BodyTypes
  <2> QED
    BY <1>1, <1>2, <1>4, <2>1, <2>2, <2>3, BuildMessages
<1>7. /\ TO_FORWARD_FDH' = [TO_FORWARD_FDH EXCEPT ![r] = TRUE]
      /\ entry' = [entry EXCEPT ![r].circuitRequesterAddr = PrevHop(k),
                                ![r].givenCicuitID = GivenAt(k), ![r].key = r]
      /\ inbox' = Consume(inbox, r) /\ UNCHANGED <<up, raw, phase>>
      /\ UNCHANGED <<s, TOR_CCt_HOPs, var, tun, delivered, TO_FORWARD_ECE, world, pinged, faults>>
  BY <1>2, <1>6 DEF NewKey, RouterTakes
<1>8. PICK x : x = KeyedEntry(k)
  OBVIOUS
<1>9. entry' = [entry EXCEPT ![r] = x]
  <2>1. entry[r] = ZeroEntry
    BY <1>5 DEF Fresh, Holds
  <2>2. x = [entry[r] EXCEPT !.circuitRequesterAddr = PrevHop(k), !.givenCicuitID = GivenAt(k),
                             !.key = r]
    <3>1. PICK a, g, o, z : a = PrevHop(k) /\ g = GivenAt(k) /\ o = 0 /\ z = entry[r]
      OBVIOUS
    <3>2. x = [circuitRequesterAddr |-> a, givenCicuitID |-> g, myCircuitID |-> o,
               nextHop |-> NoAddress, key |-> r]
      BY <1>2, <1>8, <3>1 DEF KeyedEntry
    <3>3. z = [circuitRequesterAddr |-> NoAddress, givenCicuitID |-> o, myCircuitID |-> o,
               nextHop |-> NoAddress, key |-> NoKey]
      BY <2>1, <3>1 DEF ZeroEntry
    <3>4. x = [z EXCEPT !.circuitRequesterAddr = a, !.givenCicuitID = g, !.key = r]
      <4>1. PICK y : y = [z EXCEPT !.circuitRequesterAddr = a]
        OBVIOUS
      <4>2. y = [circuitRequesterAddr |-> a, givenCicuitID |-> o, myCircuitID |-> o,
                 nextHop |-> NoAddress, key |-> NoKey]
        BY <3>3, <4>1
      <4>3. PICK w : w = [y EXCEPT !.givenCicuitID = g]
        OBVIOUS
      <4>4. w = [circuitRequesterAddr |-> a, givenCicuitID |-> g, myCircuitID |-> o,
                 nextHop |-> NoAddress, key |-> NoKey]
        BY <4>2, <4>3
      <4>5. x = [w EXCEPT !.key = r]
        BY <3>2, <4>4
      <4> QED
        BY <4>1, <4>3, <4>5
    <3> QED
      BY <3>1, <3>4
  <2> QED
    BY <1>7, <2>2
<1>10. x \in CircuitInfoEntry
  <2>1. NoAddress \in HopPort /\ 0 \in Word
    BY Numbers DEF HopPort
  <2> QED
    BY <1>2, <1>5, <1>8, <2>1 DEF KeyedEntry, CircuitInfoEntry
<1>11. /\ entry' \in [Router -> CircuitInfoEntry] /\ TO_FORWARD_FDH' \in [Router -> BOOLEAN]
       /\ entry'[r] = x /\ TO_FORWARD_FDH'[r] = TRUE /\ TO_FORWARD_ECE'[r] = FALSE
       /\ \A n \in Router : n # r => entry'[n] = entry[n] /\ TO_FORWARD_FDH'[n] = TO_FORWARD_FDH[n]
                                     /\ TO_FORWARD_ECE'[n] = TO_FORWARD_ECE[n]
  <2>1. entry' \in [Router -> CircuitInfoEntry] /\ entry'[r] = x
        /\ \A n \in Router : n # r => entry'[n] = entry[n]
    BY <1>1, <1>9, <1>10 DEF ControlOK
  <2>2. TO_FORWARD_FDH' \in [Router -> BOOLEAN] /\ TO_FORWARD_FDH'[r] = TRUE
        /\ \A n \in Router : n # r => TO_FORWARD_FDH'[n] = TO_FORWARD_FDH[n]
    BY <1>1, <1>7 DEF ControlOK
  <2>3. TO_FORWARD_ECE' = TO_FORWARD_ECE /\ TO_FORWARD_ECE[r] = FALSE
    BY <1>5, <1>7 DEF Fresh, Holds
  <2> QED
    BY <2>1, <2>2, <2>3
<1>12. /\ \A i \in 1 .. var + 1 : LinkedEntry(i)' = LinkedEntry(i) /\ KeyedEntry(i)' = KeyedEntry(i)
       /\ \A n, m \in 0 .. var + 1 : KeyAndExtend(n, m)' = KeyAndExtend(n, m)
  <2>1. \A i \in 1 .. var : entry'[TOR_CCt_HOPs[i]] = entry[TOR_CCt_HOPs[i]]
    BY <1>1, <1>2, <1>5, <1>11, Path
  <2> QED
    BY <1>1, <1>2, <1>7, <2>1, SamePath
<1>13. Keyed(var + 1)'
  <2>1. Keyed(k)'
    BY <1>2, <1>4, <1>7, <1>8, <1>11, <1>12 DEF Keyed, Holds
  <2> QED
    BY <1>4, <1>7, <2>1
<1>14. Placed(var, var + 1)'
  <2>1. \A i \in 1 .. var : Linked(i)'
    <3> TAKE i \in 1 .. var
    <3>1. Linked(i) /\ i \in 1 .. var + 1 /\ TOR_CCt_HOPs[i] # r /\ TOR_CCt_HOPs[i] \in Router
      BY <1>1, <1>2, <1>4, <1>5, Path DEF Placed
    <3> QED
      BY <1>7, <1>11, <1>12, <3>1 DEF Linked, Holds
  <2>2. ASSUME NEW n \in Router, \A i \in 1 .. var + 1 : n # TOR_CCt_HOPs[i]
        PROVE  Fresh(n)'
    <3>1. n # r /\ Fresh(n)
      BY <1>2, <1>4, <2>2 DEF Placed
    <3> QED
      BY <1>11, <3>1 DEF Fresh, Holds
  <2> QED
    BY <1>7, <2>1, <2>2 DEF Placed
<1>15. inbox' = KeyAndExtend(0, e)
  <2>1. inbox = Two(r, At(e), KeyTo(k), ExtendTo(e)) /\ At(0) = NoAddress
    BY <1>1, <1>2, <1>4, KeyAndExtendAreTwo DEF At
  <2>2. KeyAndExtend(0, e) = Two(NoAddress, At(e), KeyTo(0), ExtendTo(e))
    BY <1>1, <1>2, <1>4, <2>1, KeyAndExtendAreTwo
  <2> QED
    BY <1>5, <1>7, <2>1, <2>2, FirstTaken
<1>16. Adding'
  <2>1. KeyedOrNot(0, e)'
    BY <1>13 DEF KeyedOrNot
  <2> QED
    BY <1>2, <1>4, <1>7, <1>12, <1>14, <1>15, <2>1 DEF Adding
<1>17. ControlOK'
  BY <1>1, <1>7, <1>11 DEF ControlOK, HopsChosen
<1> QED
  BY <1>1, <1>2, <1>7, <1>16, <1>17 DEF Parts, BuildInv, Building, Resting

LEMMA NewExtendStep ==
  ASSUME Parts, Building, NEW r \in Router, NewExtend(r)
  PROVE  Parts' /\ up' = up
<1>1. ControlOK /\ BuildInv
  BY DEF Parts
<1>2. PICK k, e \in 0 .. var + 1 :
        /\ e # 0 /\ k # e /\ r = TOR_CCt_HOPs[e] /\ Head(inbox[r]) = ExtendTo(e)
        /\ inbox = KeyAndExtend(k, e) /\ KeyedOrNot(k, e)
        /\ phase = "await" /\ r \in up
        /\ Placed(var, var + 1)
  BY ExtendArrives DEF NewExtend
<1>3. e \notin 1 .. var
  BY <1>2 DEF NewExtend, Placed, Linked, Holds
<1>4. /\ e = var + 1 /\ e \in 1 .. noOfHops /\ e \in 1 .. var + 1
      /\ 0 \in 0 .. var + 1 /\ var \in Nat
      /\ e \in 1 .. noOfHops + 1 /\ var + 1 \in 0 .. noOfHops /\ var + 1 < e + 1
      /\ e + 1 \in 1 .. noOfHops + 1 /\ e + 1 = var + 2
  BY <1>1, <1>2, <1>3, BuildMessages
<1>5. k = 0 /\ Keyed(e)
  <2>1. k # 0 => ~ (e <= k)
    BY <1>2, <1>4
  <2>2. e + 1 .. var + 1 = {}
    BY <1>4
  <2> QED
    BY <1>2, <1>4, <2>1, <2>2 DEF KeyedOrNot
<1>6. /\ r \in Node /\ HopsAre(TOR_CCt_HOPs)
      /\ \A i \in 1 .. var : TOR_CCt_HOPs[i] # r /\ i \in 1 .. noOfHops
      /\ PrevHop(e) \in Node /\ PrevHop(e) # NoAddress /\ GivenAt(e) \in Word
      /\ TOR_CCt_HOPs[var + 2] \in HopPort /\ TOR_CCt_HOPs[var + 2] # NoAddress
  BY <1>1, <1>2, <1>4, PrevHopsDistinct, Path, Numbers
<1>7. PICK b : b = PortBody(TOR_CCt_HOPs[var + 2])
  OBVIOUS
<1>8. /\ b \in Bare /\ IsPort(b) /\ b.next = TOR_CCt_HOPs[var + 2]
      /\ ExtendTo(e).from = PrevHop(e) /\ ExtendTo(e).cid = htons(GivenAt(e))
      /\ ExtendTo(e).body = Wrapped(b, e, var + 1)
      /\ ExtendTo(e).body.next = b.next
  <2>1. b \in Bare /\ IsPort(b) /\ b.next = TOR_CCt_HOPs[var + 2]
    BY <1>6, <1>7, BareBodies
  <2>2. Wrapped(b, e, var + 1).next = b.next
    BY <2>1 DEF Bare, Wrapped
  <2>3. /\ ExtendTo(e).from = PrevHop(e) /\ ExtendTo(e).cid = htons(GivenAt(e))
        /\ ExtendTo(e).body = Wrapped(b, e, var + 1)
    BY <1>1, <1>2, <1>4, <1>7, BuildMessages
  <2> QED
    BY <2>1, <2>2, <2>3
<1>9. /\ entry[r] = KeyedEntry(e) /\ TO_FORWARD_FDH[r] = TRUE
      /\ entry[r].key = r /\ entry[r].givenCicuitID = GivenAt(e)
  BY <1>2, <1>5 DEF Keyed, Holds, KeyedEntry
<1>10. OpensAt(r) /\ IsPort(PeeledAt(r))
  <2>1. /\ Opens(r, Wrapped(b, e, var + 1))
        /\ DecryptThisMessage(Wrapped(b, e, var + 1)) = Wrapped(b, e + 1, var + 1)
    BY <1>2, <1>4, <1>6, <1>8, HopPeels
  <2>2. Wrapped(b, e + 1, var + 1) = b
    BY <1>4, <1>6, <1>8, BodyTypes
  <2> QED
    BY <1>2, <1>8, <1>9, <2>1, <2>2 DEF OpensAt, PeeledAt, BodyAt
<1>11. Msg(r, "ENC_CIRCUIT_EXTEND_DONE", ExtendTo(e).cid, Empty) = DoneBy(e)
  BY <1>2, <1>8 DEF DoneBy, FromHop
<1>12. PICK g : g = GivenAt(e)
  OBVIOUS
<1>13. /\ TO_FORWARD_ECE' = [TO_FORWARD_ECE EXCEPT ![r] = TRUE]
       /\ entry' = [entry EXCEPT ![r].myCircuitID = MyCircuitID(g, r),
                                 ![r].nextHop = TOR_CCt_HOPs[var + 2]]
       /\ inbox' = Sent(Consume(inbox, r), PrevHop(e), DoneBy(e)) /\ UNCHANGED <<up, raw, phase>>
       /\ UNCHANGED <<s, TOR_CCt_HOPs, var, tun, delivered, TO_FORWARD_FDH, world, pinged, faults>>
  BY <1>2, <1>6, <1>8, <1>9, <1>10, <1>11, <1>12 DEF NewExtend, RouterSends
<1>14. PICK x : x = LinkedEntry(e)
  OBVIOUS
<1>15. entry' = [entry EXCEPT ![r] = x]
  <2>1. PICK a, c, h, z : /\ a = PrevHop(e) /\ c = MyCircuitID(g, r)
                          /\ h = TOR_CCt_HOPs[var + 2] /\ z = entry[r]
    OBVIOUS
  <2>2. x = [circuitRequesterAddr |-> a, givenCicuitID |-> g, myCircuitID |-> c,
             nextHop |-> h, key |-> r]
    BY <1>2, <1>4, <1>12, <1>14, <2>1 DEF LinkedEntry
  <2>3. PICK o : o = 0
    OBVIOUS
  <2>4. z = [circuitRequesterAddr |-> a, givenCicuitID |-> g, myCircuitID |-> o,
             nextHop |-> NoAddress, key |-> r]
    BY <1>2, <1>9, <1>12, <2>1, <2>3 DEF KeyedEntry
  <2>5. PICK y : y = [z EXCEPT !.myCircuitID = c]
    OBVIOUS
  <2>6. y = [circuitRequesterAddr |-> a, givenCicuitID |-> g, myCircuitID |-> c,
             nextHop |-> NoAddress, key |-> r]
    BY <2>4, <2>5
  <2>7. x = [y EXCEPT !.nextHop = h]
    BY <2>2, <2>6
  <2> QED
    BY <1>13, <2>1, <2>5, <2>7
<1>16. x \in CircuitInfoEntry
  <2>1. MyCircuitID(GivenAt(e), r) \in Word
    BY <1>6, MyCircuitIDType
  <2> QED
    BY <1>2, <1>4, <1>6, <1>14, <2>1 DEF LinkedEntry, CircuitInfoEntry
<1>17. /\ entry' \in [Router -> CircuitInfoEntry] /\ TO_FORWARD_ECE' \in [Router -> BOOLEAN]
       /\ entry'[r] = x /\ TO_FORWARD_ECE'[r] = TRUE /\ TO_FORWARD_FDH'[r] = TRUE
       /\ \A n \in Router : n # r => entry'[n] = entry[n] /\ TO_FORWARD_FDH'[n] = TO_FORWARD_FDH[n]
                                     /\ TO_FORWARD_ECE'[n] = TO_FORWARD_ECE[n]
  <2>1. entry' \in [Router -> CircuitInfoEntry] /\ entry'[r] = x
        /\ \A n \in Router : n # r => entry'[n] = entry[n]
    BY <1>1, <1>15, <1>16 DEF ControlOK
  <2>2. TO_FORWARD_ECE' \in [Router -> BOOLEAN] /\ TO_FORWARD_ECE'[r] = TRUE
        /\ \A n \in Router : n # r => TO_FORWARD_ECE'[n] = TO_FORWARD_ECE[n]
    BY <1>1, <1>13 DEF ControlOK
  <2>3. TO_FORWARD_FDH' = TO_FORWARD_FDH
    BY <1>13
  <2> QED
    BY <1>9, <2>1, <2>2, <2>3
<1>18. /\ \A i \in 1 .. var + 1 : LinkedEntry(i)' = LinkedEntry(i)
       /\ \A i \in 0 .. var + 1 : Answer(i)' = Answer(i)
  <2>1. \A i \in 1 .. var : entry'[TOR_CCt_HOPs[i]] = entry[TOR_CCt_HOPs[i]]
    BY <1>1, <1>2, <1>6, <1>17, Path
  <2> QED
    BY <1>1, <1>2, <1>13, <2>1, SamePath
<1>19. Placed(var + 1, var + 1)'
  <2>1. \A i \in 1 .. var + 1 : Linked(i)'
    <3> TAKE i \in 1 .. var + 1
    <3>1. CASE i = e
      BY <1>2, <1>4, <1>13, <1>14, <1>17, <1>18, <3>1 DEF Linked, Holds
    <3>2. CASE i # e
      <4>1. i \in 1 .. var
        BY <1>4, <3>2
      <4>2. Linked(i) /\ TOR_CCt_HOPs[i] # r /\ TOR_CCt_HOPs[i] \in Router
        BY <1>1, <1>2, <1>6, <4>1, Path DEF Placed
      <4> QED
        BY <1>13, <1>17, <1>18, <4>2 DEF Linked, Holds
    <3> QED
      BY <3>1, <3>2
  <2>2. ASSUME NEW n \in Router, \A i \in 1 .. var + 1 : n # TOR_CCt_HOPs[i]
        PROVE  Fresh(n)'
    <3>1. n # r /\ Fresh(n)
      BY <1>2, <1>4, <2>2 DEF Placed
    <3> QED
      BY <1>17, <3>1 DEF Fresh, Holds
  <2> QED
    BY <1>13, <2>1, <2>2 DEF Placed
<1>20. inbox' = Answer(e) \/ inbox' = Answer(0)
  <2>1. /\ inbox = Two(NoAddress, r, KeyTo(0), ExtendTo(e)) /\ NoAddress # r
        /\ Answer(0) = Two(NoAddress, NoAddress, KeyTo(0), ExtendTo(e))
    <3>1. At(0) = NoAddress /\ At(e) = r /\ NoAddress # r
      BY <1>2, <1>6, Numbers DEF At
    <3>2. Answer(0) = [n \in Node |-> << >>] /\ KeyAndExtend(0, 0) = [n \in Node |-> << >>]
      BY <1>1, <1>2, <1>4, AnswerIsTwo
    <3>3. Two(NoAddress, NoAddress, KeyTo(0), ExtendTo(e)) = [n \in Node |-> << >>]
      BY Numbers DEF Two
    <3> QED
      BY <1>1, <1>2, <1>4, <1>5, <3>1, <3>2, <3>3, KeyAndExtendAreTwo
  <2>2. Consume(inbox, r) = Answer(0)
    BY <1>6, <2>1, SecondTaken
  <2>3. /\ Answer(0) = Two(NoAddress, NoAddress, DoneBy(0), DoneBy(0))
        /\ Answer(e) = Two(PrevHop(e), NoAddress, DoneBy(e), DoneBy(0))
    BY <1>1, <1>2, <1>4, AnswerIsTwo
  <2>4. inbox' = Deliver(Answer(0), LiveNodes, RcvBuf, PrevHop(e), DoneBy(e))
    BY <1>13, <2>2 DEF Sent
  <2> QED
    BY <1>6, <2>3, <2>4, FirstSent
<1>21. Added'
  <2>1. PICK i \in 0 .. var + 1 : inbox' = Answer(i)
    BY <1>4, <1>20
  <2>2. inbox' = Answer(i)'
    BY <1>18, <2>1
  <2> QED
    BY <1>2, <1>13, <1>19, <2>2 DEF Added
<1>22. ControlOK'
  BY <1>1, <1>13, <1>17 DEF ControlOK, HopsChosen
<1> QED
  BY <1>1, <1>2, <1>13, <1>21, <1>22 DEF Parts, BuildInv, Building, Resting

\* A router ends: its queues are gone, and with them what was on its way there.
LEMMA RouterEndsWhileBuilding ==
  ASSUME Parts, Building, NEW r \in Router, RouterEnds(r), faults' \in 0 .. MaxFaults,
         UNCHANGED <<s, TOR_CCt_HOPs, var, tun, delivered, entry, flags, world, pinged>>
  PROVE  Parts'
<1>1. ControlOK /\ BuildInv /\ r \in Node
  BY Numbers DEF Parts
<1>2. /\ up' = up \ {r} /\ inbox' = [inbox EXCEPT ![r] = << >>]
      /\ raw' = [raw EXCEPT ![r] = << >>] /\ phase' = phase
  BY DEF RouterEnds, Building
<1>3. raw' = raw
  BY <1>1, <1>2 DEF BuildInv
<1>4. up' \subseteq Router
  BY <1>1, <1>2 DEF ControlOK
<1>5. CASE Resting
  <2>1. Silent' /\ Placed(var, var)
    BY <1>1, <1>2, <1>5 DEF BuildInv, Silent
  <2>2. Placed(var, var)'
    BY <2>1, SameEntries
  <2>3. ControlOK'
    BY <1>1, <1>2, <1>4, SameControl
  <2> QED
    BY <1>1, <1>2, <1>3, <1>5, <2>1, <2>2, <2>3 DEF Parts, BuildInv, Building, Resting
<1>6. CASE ~ Resting /\ Adding
  <2>1. PICK k, e \in 0 .. var + 1 :
          inbox = KeyAndExtend(k, e) /\ KeyedOrNot(k, e) /\ (phase = "extend" => e = 0)
    BY <1>6 DEF Adding
  <2>2. /\ phase \in {"extend", "await"} /\ 0 \in 0 .. var + 1
        /\ k \in 0 .. noOfHops /\ e \in 0 .. noOfHops
        /\ Placed(var, var + 1) /\ var \in Nat
    BY <1>1, <1>6, BuildMessages DEF Resting, Building, Adding
  <2>3. PICK k1, e1 \in 0 .. var + 1 : /\ k1 = (IF r = At(k) THEN 0 ELSE k)
                                       /\ e1 = (IF r = At(e) THEN 0 ELSE e)
    BY <2>2
  <2>4. inbox' = KeyAndExtend(k1, e1)
    <3>1. inbox = Two(At(k), At(e), KeyTo(k), ExtendTo(e))
      BY <1>1, <2>1, <2>2, KeyAndExtendAreTwo
    <3>2. /\ r = At(k) => At(k1) = NoAddress
          /\ r # At(k) => At(k1) = At(k) /\ KeyTo(k1) = KeyTo(k)
          /\ r = At(e) => At(e1) = NoAddress
          /\ r # At(e) => At(e1) = At(e) /\ ExtendTo(e1) = ExtendTo(e)
      BY <2>3 DEF At
    <3>3. inbox' = Two(At(k1), At(e1), KeyTo(k1), ExtendTo(e1))
      <4>1. PICK a, b, x, y, a1, b1, x1, y1 :
              /\ a = At(k) /\ b = At(e) /\ x = KeyTo(k) /\ y = ExtendTo(e)
              /\ a1 = At(k1) /\ b1 = At(e1) /\ x1 = KeyTo(k1) /\ y1 = ExtendTo(e1)
        OBVIOUS
      <4>2. [Two(a, b, x, y) EXCEPT ![r] = << >>] = Two(a1, b1, x1, y1)
        <5>1. r \in Node
          BY <1>1
        <5>2. /\ r = a => a1 = NoAddress
              /\ r # a => a1 = a /\ x1 = x
              /\ r = b => b1 = NoAddress
              /\ r # b => b1 = b /\ y1 = y
          BY <3>2, <4>1
        <5> QED
          BY <5>1, <5>2, Numbers DEF Two
      <4> QED
        BY <1>2, <3>1, <4>1, <4>2
    <3> QED
      BY <1>1, <2>2, <3>3, KeyAndExtendAreTwo
  <2>5. \/ k1 = 0 /\ Keyed(var + 1)
        \/ k1 # 0 /\ e1 <= k1 /\ Fresh(TOR_CCt_HOPs[var + 1])
        \/ /\ k1 = 0 /\ Fresh(TOR_CCt_HOPs[var + 1])
           /\ \E d \in e1 + 1 .. var + 1 : TOR_CCt_HOPs[d] \notin up'
    <3>1. CASE k = 0 /\ Keyed(var + 1)
      BY <2>3, <3>1
    <3>2. CASE k # 0 /\ e <= k /\ Fresh(TOR_CCt_HOPs[var + 1]) /\ r # At(k)
      BY <2>2, <2>3, <3>2
    <3>3. CASE k # 0 /\ e <= k /\ Fresh(TOR_CCt_HOPs[var + 1]) /\ r = At(k)
      <4>1. r = TOR_CCt_HOPs[k] /\ (r # At(e) => e # k)
        BY <3>3 DEF At
      <4>2. k \in e1 + 1 .. var + 1
        BY <2>2, <2>3, <3>3, <4>1
      <4> QED
        BY <1>2, <2>3, <3>3, <4>1, <4>2
    <3>4. CASE /\ k = 0 /\ Fresh(TOR_CCt_HOPs[var + 1])
               /\ \E d \in e + 1 .. var + 1 : TOR_CCt_HOPs[d] \notin up
      <4>1. \A d \in e + 1 .. var + 1 : d \in e1 + 1 .. var + 1
        BY <2>2, <2>3
      <4> QED
        BY <1>2, <2>3, <3>4, <4>1
    <3> QED
      BY <2>1, <3>1, <3>2, <3>3, <3>4 DEF KeyedOrNot
  <2>6. phase = "extend" => e1 = 0
    BY <2>1, <2>3
  <2> QED
    BY <1>2, <1>3, <1>4, <2>2, <2>4, <2>5, <2>6, StillAdding
<1>7. CASE ~ Resting /\ Added
  <2>1. PICK i \in 0 .. var + 1 : inbox = Answer(i)
    BY <1>7 DEF Added
  <2>2. phase = "await" /\ Placed(var + 1, var + 1) /\ 0 \in 0 .. var + 1
    BY <1>1, <1>7, BuildMessages DEF Added
  <2>3. inbox' = Answer(i) \/ inbox' = Answer(0)
    BY <1>2, <2>1 DEF Answer
  <2> QED
    BY <1>2, <1>3, <1>4, <2>2, <2>3, StillAdded
<1> QED
  BY <1>1, <1>5, <1>6, <1>7 DEF BuildInv
-----------------------------------------------------------------------------
(* The circuit serves.                                                     *)

Queues == [n \in Node |-> Receivable(n)]

\* The entries and the queues of a circuit that serves.
LEMMA Serving ==
  ASSUME Parts, ~ Building
  PROVE  /\ ControlOK /\ ServeInv /\ phase # "start" /\ HopsAre(TOR_CCt_HOPs)
         /\ Within(inbox, Queues)
         /\ Exit \in Router /\ noOfHops \in 1 .. noOfHops
         /\ \A i \in 1 .. noOfHops :
              /\ entry[TOR_CCt_HOPs[i]].key = TOR_CCt_HOPs[i]
              /\ entry[TOR_CCt_HOPs[i]].circuitRequesterAddr = PrevHop(i)
              /\ entry[TOR_CCt_HOPs[i]].givenCicuitID = GivenAt(i)
              /\ entry[TOR_CCt_HOPs[i]].nextHop = TOR_CCt_HOPs[i + 1]
              /\ entry[TOR_CCt_HOPs[i]].myCircuitID = GivenAt(i + 1)
<1>1. ControlOK /\ ServeInv /\ phase # "start"
  BY DEF Parts, Building
<1>2. HopsAre(TOR_CCt_HOPs)
  BY <1>1, Path
<1>3. Within(inbox, Queues)
  BY <1>1 DEF ServeInv, Within, Queues
<1>4. noOfHops \in 1 .. noOfHops
  BY Numbers
<1>5. Exit \in Router
  BY <1>2, <1>4 DEF Exit, HopsAre
<1>6. ASSUME NEW i \in 1 .. noOfHops
      PROVE  /\ entry[TOR_CCt_HOPs[i]].key = TOR_CCt_HOPs[i]
             /\ entry[TOR_CCt_HOPs[i]].circuitRequesterAddr = PrevHop(i)
             /\ entry[TOR_CCt_HOPs[i]].givenCicuitID = GivenAt(i)
             /\ entry[TOR_CCt_HOPs[i]].nextHop = TOR_CCt_HOPs[i + 1]
             /\ entry[TOR_CCt_HOPs[i]].myCircuitID = GivenAt(i + 1)
  <2>1. PICK e : e = entry[TOR_CCt_HOPs[i]]
    OBVIOUS
  <2>2. e = LinkedEntry(i) /\ GivenAt(i + 1) = e.myCircuitID
    BY <1>1, <2>1, NextHopOf DEF ServeInv, Placed, Linked, Holds
  <2>3. /\ e.key = TOR_CCt_HOPs[i] /\ e.circuitRequesterAddr = PrevHop(i)
        /\ e.givenCicuitID = GivenAt(i) /\ e.nextHop = TOR_CCt_HOPs[i + 1]
    BY <2>2 DEF LinkedEntry
  <2> QED
    BY <2>1, <2>2, <2>3
<1> QED
  BY <1>1, <1>2, <1>3, <1>4, <1>5, <1>6

\* What a datagram that serves is.
LEMMA RelayMessages ==
  ASSUME Parts, ~ Building, NEW i \in 1 .. noOfHops, NEW p \in Packet
  PROVE  /\ PacketBody(p) \in Bare
         /\ ToHop(i, "RELAY_DATA_FWD_ENC", Wrapped(PacketBody(p), i, noOfHops)).cmd =
              "RELAY_DATA_FWD_ENC"
         /\ FromHop(i, "RELAY_DATA_BWD_ENC", Wrapped(PacketBody(p), i, noOfHops)).cmd =
              "RELAY_DATA_BWD_ENC"
         /\ ToHop(i, "RELAY_DATA_FWD_ENC", Wrapped(PacketBody(p), i, noOfHops)).body =
              Wrapped(PacketBody(p), i, noOfHops)
         /\ FromHop(i, "RELAY_DATA_BWD_ENC", Wrapped(PacketBody(p), i, noOfHops)).body =
              Wrapped(PacketBody(p), i, noOfHops)
<1>1. ControlOK /\ phase # "start"
  BY Serving
<1>2. "RELAY_DATA_FWD_ENC" \in Commands /\ "RELAY_DATA_BWD_ENC" \in Commands
  BY DEF Commands
<1>3. PacketBody(p) \in Bare /\ Wrapped(PacketBody(p), i, noOfHops) \in Body
  BY <1>1, ServeMessages
<1> QED
  BY <1>1, <1>2, <1>3, MessageOf

\* What a node finds in its queue.
LEMMA WhatServes ==
  ASSUME Parts, ~ Building, NEW d \in Node, inbox[d] # << >>, NEW m, m = Head(inbox[d])
  PROVE  /\ Within(Consume(inbox, d), Queues)
         /\ \/ /\ m.cmd = "RELAY_DATA_FWD_ENC"
               /\ \E i \in 1 .. noOfHops : \E p \in Requests(NoIP) :
                    d = TOR_CCt_HOPs[i] /\ m.body = Wrapped(PacketBody(p), i, noOfHops)
            \/ /\ m.cmd = "RELAY_DATA_BWD_ENC"
               /\ \E i \in 1 .. noOfHops : \E p \in Replies :
                    d = PrevHop(i) /\ m.body = Wrapped(PacketBody(p), i, noOfHops)
<1>1. ControlOK /\ Within(inbox, Queues)
  BY Serving
<1>2. m \in Queues[d] /\ Within(Consume(inbox, d), Queues)
  BY <1>1, ConsumeWithin
<1>3. m \in Receivable(d)
  BY <1>2 DEF Queues
<1>4. PICK i \in 1 .. noOfHops : \/ d = TOR_CCt_HOPs[i] /\ m \in Forward(i)
                                 \/ d = PrevHop(i) /\ m \in Backward(i)
  BY <1>1, <1>3, WhatIsReceivable
<1>5. Replies \subseteq Packet /\ Requests(NoIP) \subseteq Packet
  BY DEF Replies, Requests
<1>6. CASE d = TOR_CCt_HOPs[i] /\ m \in Forward(i)
  <2>1. PICK p \in Requests(NoIP) :
          m = ToHop(i, "RELAY_DATA_FWD_ENC", Wrapped(PacketBody(p), i, noOfHops))
    BY <1>6 DEF Forward
  <2> QED
    BY <1>2, <1>5, <1>6, <2>1, RelayMessages
<1>7. CASE d = PrevHop(i) /\ m \in Backward(i)
  <2>1. PICK p \in Replies :
          m = FromHop(i, "RELAY_DATA_BWD_ENC", Wrapped(PacketBody(p), i, noOfHops))
    BY <1>7 DEF Backward
  <2> QED
    BY <1>2, <1>5, <1>7, <2>1, RelayMessages
<1> QED
  BY <1>4, <1>6, <1>7

\* The circuit is complete: no step of its construction is left.
LEMMA NoMoreBuilding ==
  ASSUME Parts, ~ Building
  PROVE  /\ ~ Build /\ ~ OpenTunnelFails
         /\ \A r \in Router : /\ ~ NewKey(r) /\ ~ ForwardKey(r) /\ ~ NewExtend(r)
                              /\ ~ ForwardExtend(r) /\ ~ ForwardDone(r)
<1>1. ~ Build /\ ~ OpenTunnelFails
  BY DEF Building, Build, BuildStart, SendKey, SendExtend, AwaitDone, OpenTunnel, OpenTunnelFails
<1>2. ASSUME NEW r \in Router, NEW cmd, Receives(r, cmd)
      PROVE  cmd \in {"RELAY_DATA_FWD_ENC", "RELAY_DATA_BWD_ENC"}
  BY <1>2, WhatServes, Numbers DEF Receives
<1>3. /\ "FAKE_DIFFIE_HELLMAN" \notin {"RELAY_DATA_FWD_ENC", "RELAY_DATA_BWD_ENC"}
      /\ "ENC_CIRCUIT_EXTEND" \notin {"RELAY_DATA_FWD_ENC", "RELAY_DATA_BWD_ENC"}
      /\ "ENC_CIRCUIT_EXTEND_DONE" \notin {"RELAY_DATA_FWD_ENC", "RELAY_DATA_BWD_ENC"}
  OBVIOUS
<1> QED
  BY <1>1, <1>2, <1>3 DEF NewKey, ForwardKey, NewExtend, ForwardExtend, ForwardDone

\* A step that leaves the circuit in place keeps the invariant when the queues do.
LEMMA StillServing ==
  ASSUME Parts, ~ Building,
         UNCHANGED <<s, TOR_CCt_HOPs, var, entry, flags>>,
         phase' \in {"relay", "exited"}, up' \subseteq Router, faults' \in 0 .. MaxFaults,
         pinged' \in Seq(Host), Len(pinged') <= MaxPings,
         tun' \in Seq(Requests(Eth(0))), delivered' \in Seq(Replies),
         world' \subseteq Requests(Eth(Exit)),
         raw' = [r \in Router |-> raw'[r]],
         \A r \in Router : /\ raw'[r] \in Seq(Replies \cup IcmpError)
                           /\ raw'[r] # << >> => r = Exit,
         Within(inbox', Queues)
  PROVE  Parts'
<1>1. ControlOK /\ ServeInv /\ phase # "start" /\ phase \in {"relay", "exited"}
  BY Serving DEF ControlOK, Building
<1>2. ControlOK' /\ ~ Building'
  BY <1>1 DEF ControlOK, HopsChosen, Building, flags
<1>3. \A i : PrevHop(i)' = PrevHop(i) /\ GivenAt(i)' = GivenAt(i)
  BY SameEntries
<1>4. Placed(noOfHops, noOfHops)'
  BY <1>1, SameEntries DEF ServeInv
<1>5. \A i : Forward(i)' = Forward(i) /\ Backward(i)' = Backward(i)
  BY <1>3 DEF Forward, Backward, ToHop, FromHop, Wrapped, HopsFrom, Requests, Replies
<1>6. \A d : Receivable(d)' = Receivable(d)
  BY <1>3, <1>5 DEF Receivable
<1>7. inbox' = [n \in Node |-> inbox'[n]] /\ \A n \in Node : inbox'[n] \in Seq(Receivable(n)')
  BY <1>6 DEF Within, Queues
<1>8. Exit' = Exit
  BY DEF Exit
<1>9. ServeInv'
  BY <1>4, <1>7, <1>8 DEF ServeInv, Requests, Replies, IcmpError
<1> QED
  BY <1>2, <1>9 DEF Parts

\* Sending a datagram that the receiver may hold.
LEMMA QueuesKept ==
  ASSUME NEW q, Within(q, Queues), NEW d \in Node, NEW m \in Receivable(d)
  PROVE  Within(Sent(q, d, m), Queues)
<1>1. m \in Queues[d]
  BY DEF Queues
<1> QED
  BY <1>1, DeliverWithin DEF Sent

\* Changing one address or the type of a packet.
LEMMA Readdressed ==
  /\ \A a \in IP : \A p \in Requests(a) : \A b \in IP : [p EXCEPT !.saddr = b] \in Requests(b)
  /\ \A p \in Replies : \A b \in IP : [p EXCEPT !.daddr = b] \in Replies
  /\ \A a \in IP : \A p \in Requests(a) :
       Answering(p, "reply") \in Replies /\ Answering(p, "error") \in IcmpError
  /\ \A a \in IP : \A p \in Requests(a) : p \in Packet /\ p.saddr = a /\ p.type = "request"
  /\ Replies \subseteq Packet
<1>1. \A a \in IP : \A p \in Requests(a) : \A b \in IP : [p EXCEPT !.saddr = b] \in Requests(b)
  BY DEF Requests, Packet
<1>2. \A p \in Replies : \A b \in IP : [p EXCEPT !.daddr = b] \in Replies
  BY DEF Replies, Packet
<1>3. ASSUME NEW a \in IP, NEW p \in Requests(a)
      PROVE  Answering(p, "reply") \in Replies /\ Answering(p, "error") \in IcmpError
  <2>1. PICK x, y : x = p.saddr /\ y = p.daddr
    OBVIOUS
  <2>2. p \in Packet /\ x \in IP /\ y \in IP
    BY <2>1 DEF Requests, Packet
  <2>3. [p EXCEPT !.type = "reply", !.saddr = y, !.daddr = x] \in Replies
    BY <2>2 DEF Packet, Replies
  <2>4. [p EXCEPT !.type = "error", !.saddr = y, !.daddr = x] \in IcmpError
    BY <2>2 DEF Packet, IcmpError
  <2> QED
    BY <2>1, <2>3, <2>4 DEF Answering
<1> QED
  BY <1>1, <1>2, <1>3 DEF Requests, Replies

\* A datagram made for a hop, or by a hop, is one its receiver may hold.
LEMMA MadeForHop ==
  ASSUME Parts, ~ Building, NEW i \in 1 .. noOfHops, NEW p
  PROVE  /\ p \in Requests(NoIP) =>
              ToHop(i, "RELAY_DATA_FWD_ENC", Wrapped(PacketBody(p), i, noOfHops))
                \in Receivable(TOR_CCt_HOPs[i])
         /\ p \in Replies =>
              FromHop(i, "RELAY_DATA_BWD_ENC", Wrapped(PacketBody(p), i, noOfHops))
                \in Receivable(PrevHop(i))
<1>1. Forward(i) \subseteq Receivable(TOR_CCt_HOPs[i]) /\ Backward(i) \subseteq Receivable(PrevHop(i))
  BY Serving, ServeMessages
<1> QED
  BY <1>1 DEF Forward, Backward

LEMMA UserPingsStep ==
  ASSUME Parts, NEW h \in Host, UserPings(h)
  PROVE  Parts' /\ up' = up
<1>1. /\ phase = "relay" /\ Len(pinged) < MaxPings /\ pinged' = Append(pinged, h)
      /\ tun' = Append(tun, [id |-> Len(pinged) + 1, type |-> "request",
                             saddr |-> Eth(0), daddr |-> h])
      /\ UNCHANGED <<phase, s, TOR_CCt_HOPs, var, delivered, routerVars, inbox, world, faults>>
  BY DEF UserPings
<1>2. ~ Building
  BY <1>1 DEF Building
<1>3. ControlOK /\ ServeInv /\ Within(inbox, Queues)
  BY <1>2, Serving
<1>4. pinged' \in Seq(Host) /\ Len(pinged') <= MaxPings
  BY <1>1, <1>3, Numbers DEF ControlOK
<1>5. PICK q : q = [id |-> Len(pinged) + 1, type |-> "request", saddr |-> Eth(0), daddr |-> h]
  OBVIOUS
<1>6. Len(pinged) + 1 \in Ping
  BY <1>1, <1>3, Numbers DEF ControlOK, Ping
<1>7. q \in Requests(Eth(0))
  BY <1>5, <1>6, Numbers DEF Requests, Packet
<1>8. tun' \in Seq(Requests(Eth(0)))
  BY <1>1, <1>3, <1>5, <1>7, SeqElements DEF ServeInv
<1> QED
  BY <1>1, <1>2, <1>3, <1>4, <1>8, StillServing DEF ControlOK, ServeInv, routerVars

LEMMA TunnelReadStep ==
  ASSUME Parts, TunnelRead
  PROVE  Parts' /\ up' = up
<1>1. /\ phase = "relay" /\ tun # << >> /\ tun' = Tail(tun)
      /\ ToFirstHop("RELAY_DATA_FWD_ENC",
                    OnionEncrypt(PacketBody([Head(tun) EXCEPT !.saddr = NoIP]), noOfHops))
      /\ UNCHANGED <<phase, s, TOR_CCt_HOPs, var, delivered, routerVars, world, pinged, faults>>
  BY DEF TunnelRead
<1>2. ~ Building
  BY <1>1 DEF Building
<1>3. ControlOK /\ ServeInv /\ Within(inbox, Queues) /\ HopsAre(TOR_CCt_HOPs)
  BY <1>2, Serving
<1>4. tun \in Seq(Requests(Eth(0)))
  BY <1>3 DEF ServeInv
<1>5. Head(tun) \in Requests(Eth(0)) /\ tun' \in Seq(Requests(Eth(0)))
  BY <1>1, <1>4, SeqElements
<1>6. PICK p : p = [Head(tun) EXCEPT !.saddr = NoIP]
  OBVIOUS
<1>7. p \in Requests(NoIP) /\ p \in Packet
  BY <1>5, <1>6, Readdressed, Numbers
<1>8. 1 \in 1 .. noOfHops /\ noOfHops \in 0 .. noOfHops
  BY Numbers
<1>9. OnionEncrypt(PacketBody(p), noOfHops) = Wrapped(PacketBody(p), 1, noOfHops)
  BY <1>2, <1>3, <1>7, <1>8, RelayMessages, ProxyWraps
<1>10. PICK m : m = ToHop(1, "RELAY_DATA_FWD_ENC", Wrapped(PacketBody(p), 1, noOfHops))
  OBVIOUS
<1>11. m \in Receivable(TOR_CCt_HOPs[1]) /\ TOR_CCt_HOPs[1] \in Node
  BY <1>2, <1>3, <1>7, <1>8, <1>10, MadeForHop, Numbers DEF HopsAre
<1>12. inbox' = Sent(inbox, TOR_CCt_HOPs[1], m)
  BY <1>1, <1>6, <1>9, <1>10 DEF ToFirstHop, ToHop, PrevHop, GivenAt
<1>13. Within(inbox', Queues)
  BY <1>3, <1>11, <1>12, QueuesKept
<1> QED
  BY <1>1, <1>2, <1>3, <1>5, <1>13, StillServing DEF ControlOK, ServeInv, routerVars

LEMMA SocketReadStep ==
  ASSUME Parts, SocketRead
  PROVE  Parts' /\ up' = up
<1>1. /\ phase = "relay" /\ inbox[Proxy] # << >> /\ inbox' = Consume(inbox, Proxy)
      /\ UNCHANGED <<s, TOR_CCt_HOPs, var, tun, routerVars, world, pinged, faults>>
  BY DEF SocketRead
<1>2. ~ Building
  BY <1>1 DEF Building
<1>3. ControlOK /\ ServeInv /\ Within(inbox, Queues) /\ HopsAre(TOR_CCt_HOPs) /\ phase # "start"
  BY <1>2, Serving
<1>4. PICK m : m = Head(inbox[Proxy])
  OBVIOUS
<1>5. Proxy \in Node /\ \A i \in 1 .. noOfHops : Proxy # TOR_CCt_HOPs[i]
  BY <1>3, Numbers DEF HopsAre
<1>6. /\ Within(inbox', Queues) /\ m.cmd = "RELAY_DATA_BWD_ENC"
      /\ \E i \in 1 .. noOfHops : \E p \in Replies :
           Proxy = PrevHop(i) /\ m.body = Wrapped(PacketBody(p), i, noOfHops)
  BY <1>1, <1>2, <1>4, <1>5, WhatServes
<1>7. PICK p \in Replies : m.body = Wrapped(PacketBody(p), 1, noOfHops)
  BY <1>3, <1>6, PrevHopsDistinct
<1>8. p \in Packet /\ PacketBody(p) \in Bare
  BY Readdressed, BareBodies
<1>9. OnionOpens(m.body) /\ OnionDecrypt(m.body) = PacketBody(p)
  BY <1>3, <1>7, <1>8, ProxyUnwraps
<1>10. m.body.pkt = p
  BY <1>7 DEF Wrapped, PacketBody
<1>11. /\ delivered' = Append(delivered, [m.body.pkt EXCEPT !.daddr = Eth(0)])
       /\ phase' = phase
  BY <1>4, <1>6, <1>8, <1>9, BareBodies DEF SocketRead
<1>12. delivered' \in Seq(Replies)
  BY <1>3, <1>10, <1>11, Readdressed, SeqElements, Numbers DEF ServeInv
<1> QED
  BY <1>1, <1>2, <1>3, <1>6, <1>11, <1>12, StillServing DEF ControlOK, ServeInv, routerVars
\* A router sends a datagram on that its neighbour may hold.
LEMMA RouterPassesOn ==
  ASSUME Parts, ~ Building, NEW r \in Router, NEW d \in Node, NEW m \in Receivable(d),
         NEW asserted \in BOOLEAN, asserted, inbox[r] # << >>,
         RouterSends(r, asserted, d, m),
         UNCHANGED <<s, TOR_CCt_HOPs, var, tun, delivered, entry, flags, world, pinged, faults>>
  PROVE  Parts' /\ up' = up
<1>1. d # NoAddress /\ r \in Node
  BY Numbers
<1>2. inbox' = Sent(Consume(inbox, r), d, m) /\ UNCHANGED <<up, raw, phase>>
  BY <1>1 DEF RouterSends
<1>3. ControlOK /\ ServeInv /\ Within(inbox, Queues) /\ phase \in {"relay", "exited"}
  BY Serving DEF ControlOK, Building
<1>4. Within(Consume(inbox, r), Queues)
  BY <1>1, WhatServes
<1>5. Within(inbox', Queues)
  BY <1>2, <1>4, QueuesKept
<1> QED
  BY <1>2, <1>3, <1>5, StillServing DEF ControlOK, ServeInv

LEMMA RelayFwdStep ==
  ASSUME Parts, ~ Building, NEW r \in Router, RelayFwd(r)
  PROVE  Parts' /\ up' = up
<1>1. /\ inbox[r] # << >> /\ Head(inbox[r]).cmd = "RELAY_DATA_FWD_ENC" /\ ~ IsExit(r)
      /\ RouterSends(r, OpensAt(r), entry[r].nextHop, Onward(r, "RELAY_DATA_FWD_ENC"))
      /\ UNCHANGED <<s, TOR_CCt_HOPs, var, tun, delivered, entry, flags, world, pinged, faults>>
  BY DEF RelayFwd, Receives
<1>2. HopsAre(TOR_CCt_HOPs) /\ ControlOK /\ phase # "start"
  BY Serving
<1>3. PICK m : m = Head(inbox[r])
  OBVIOUS
<1>4. r \in Node
  BY Numbers
<1>5. PICK i \in 1 .. noOfHops : \E p \in Requests(NoIP) :
        r = TOR_CCt_HOPs[i] /\ m.body = Wrapped(PacketBody(p), i, noOfHops)
  BY <1>1, <1>3, <1>4, WhatServes
<1>6. PICK p \in Requests(NoIP) : /\ r = TOR_CCt_HOPs[i]
                                  /\ m.body = Wrapped(PacketBody(p), i, noOfHops)
  BY <1>5
<1>7. /\ entry[r].key = r /\ entry[r].nextHop = TOR_CCt_HOPs[i + 1]
      /\ entry[r].myCircuitID = GivenAt(i + 1)
  BY <1>6, Serving
<1>8. i \in Int /\ noOfHops \in Nat /\ i <= noOfHops /\ noOfHops \in 1 .. noOfHops
  BY Numbers
<1>9. i + 1 \in 1 .. noOfHops
  <2>1. i # noOfHops
    BY <1>1, <1>2, <1>7 DEF IsExit, HopsAre
  <2> QED
    BY <1>8, <2>1
<1>10. p \in Packet /\ PacketBody(p) \in Bare
  BY Readdressed, Numbers, BareBodies
<1>11. OpensAt(r) /\ PeeledAt(r) = Wrapped(PacketBody(p), i + 1, noOfHops)
  BY <1>2, <1>3, <1>6, <1>7, <1>8, <1>10, HopPeels DEF OpensAt, PeeledAt, BodyAt
<1>12. PICK w : w = ToHop(i + 1, "RELAY_DATA_FWD_ENC", Wrapped(PacketBody(p), i + 1, noOfHops))
  OBVIOUS
<1>13. w \in Receivable(TOR_CCt_HOPs[i + 1]) /\ TOR_CCt_HOPs[i + 1] \in Node
  BY <1>2, <1>9, <1>12, MadeForHop, Path
<1>14. PrevHop(i + 1) = r
  BY <1>2, <1>6, NextHopOf
<1>15. Onward(r, "RELAY_DATA_FWD_ENC") = w
  BY <1>7, <1>11, <1>12, <1>14 DEF Onward, ToHop
<1>16. RouterSends(r, TRUE, TOR_CCt_HOPs[i + 1], w)
  BY <1>1, <1>7, <1>11, <1>15 DEF RouterSends
<1> QED
  BY <1>1, <1>13, <1>16, RouterPassesOn

LEMMA ExitFwdStep ==
  ASSUME Parts, ~ Building, NEW r \in Router, ExitFwd(r)
  PROVE  Parts' /\ up' = up
<1>1. /\ inbox[r] # << >> /\ Head(inbox[r]).cmd = "RELAY_DATA_FWD_ENC" /\ IsExit(r)
      /\ UNCHANGED <<s, TOR_CCt_HOPs, var, tun, delivered, entry, flags, pinged, faults>>
  BY DEF ExitFwd, Receives
<1>2. /\ HopsAre(TOR_CCt_HOPs) /\ ControlOK /\ ServeInv /\ phase # "start"
      /\ phase \in {"relay", "exited"}
  BY Serving DEF ControlOK, Building
<1>3. PICK m : m = Head(inbox[r])
  OBVIOUS
<1>4. r \in Node
  BY Numbers
<1>5. /\ Within(Consume(inbox, r), Queues)
      /\ \E i \in 1 .. noOfHops : \E p \in Requests(NoIP) :
           r = TOR_CCt_HOPs[i] /\ m.body = Wrapped(PacketBody(p), i, noOfHops)
  BY <1>1, <1>3, <1>4, WhatServes
<1>6. PICK i \in 1 .. noOfHops : \E p \in Requests(NoIP) :
        r = TOR_CCt_HOPs[i] /\ m.body = Wrapped(PacketBody(p), i, noOfHops)
  BY <1>5
<1>7. PICK p \in Requests(NoIP) : /\ r = TOR_CCt_HOPs[i]
                                  /\ m.body = Wrapped(PacketBody(p), i, noOfHops)
  BY <1>6
<1>8. entry[r].key = r /\ entry[r].nextHop = TOR_CCt_HOPs[i + 1]
  BY <1>7, Serving
<1>9. i \in Int /\ noOfHops \in Nat /\ i <= noOfHops /\ noOfHops \in 1 .. noOfHops
  BY Numbers
<1>10. i = noOfHops
  <2>1. i # noOfHops => i + 1 \in 1 .. noOfHops
    BY <1>9
  <2>2. \A j \in 1 .. noOfHops : TOR_CCt_HOPs[j] # LAST_HOP_PortNumber
    BY <1>2, Path, Numbers
  <2> QED
    BY <1>1, <1>8, <2>1, <2>2 DEF IsExit
<1>11. p \in Packet /\ PacketBody(p) \in Bare /\ p.saddr = NoIP
  BY Readdressed, Numbers, BareBodies
<1>12. OpensAt(r) /\ PeeledAt(r) = PacketBody(p)
  <2>1. OpensAt(r) /\ PeeledAt(r) = Wrapped(PacketBody(p), noOfHops + 1, noOfHops)
    BY <1>2, <1>3, <1>7, <1>8, <1>9, <1>10, <1>11, HopPeels DEF OpensAt, PeeledAt, BodyAt
  <2>2. noOfHops + 1 \in 1 .. noOfHops + 1 /\ noOfHops \in 0 .. noOfHops /\ noOfHops < noOfHops + 1
    BY <1>9
  <2> QED
    BY <1>2, <1>11, <2>1, <2>2, BodyTypes
<1>13. IsPacket(PeeledAt(r)) /\ PeeledAt(r).pkt = p
  BY <1>11, <1>12, BareBodies
<1>14. /\ inbox' = Consume(inbox, r) /\ UNCHANGED <<up, raw, phase>>
       /\ world' = world \cup {[p EXCEPT !.saddr = Eth(r)]}
  <2>1. ExitFwd(r)
    OBVIOUS
  <2> QED
    BY <1>11, <1>12, <1>13, <2>1 DEF ExitFwd, RouterTakes
<1>15. [p EXCEPT !.saddr = Eth(r)] \in Requests(Eth(Exit))
  BY <1>4, <1>7, <1>10, Readdressed, Numbers DEF Exit
<1>16. world' \subseteq Requests(Eth(Exit))
  BY <1>2, <1>14, <1>15 DEF ServeInv
<1> QED
  BY <1>1, <1>2, <1>5, <1>14, <1>16, StillServing DEF ControlOK, ServeInv

\* What hop i makes of the body behind it is what it sends to the node before it.
LEMMA BackwardMade ==
  ASSUME Parts, ~ Building, NEW i \in 1 .. noOfHops, NEW p \in Replies
  PROVE  /\ BackwardMsg(TOR_CCt_HOPs[i], Wrapped(PacketBody(p), i + 1, noOfHops))
              \in Receivable(PrevHop(i))
         /\ entry[TOR_CCt_HOPs[i]].key # NoKey
         /\ entry[TOR_CCt_HOPs[i]].circuitRequesterAddr = PrevHop(i)
         /\ PrevHop(i) \in Node
         /\ i = noOfHops => Wrapped(PacketBody(p), i + 1, noOfHops) = PacketBody(p)
<1>1. /\ HopsAre(TOR_CCt_HOPs) /\ ControlOK /\ phase # "start"
      /\ entry[TOR_CCt_HOPs[i]].key = TOR_CCt_HOPs[i]
      /\ entry[TOR_CCt_HOPs[i]].circuitRequesterAddr = PrevHop(i)
      /\ entry[TOR_CCt_HOPs[i]].givenCicuitID = GivenAt(i)
  BY Serving
<1>2. PacketBody(p) \in Bare
  BY Readdressed, BareBodies
<1>3. i \in Int /\ noOfHops \in Nat /\ i <= noOfHops /\ noOfHops \in 1 .. noOfHops
  BY Numbers
<1>4. EncryptThisMessage(TOR_CCt_HOPs[i], Wrapped(PacketBody(p), i + 1, noOfHops)) =
        Wrapped(PacketBody(p), i, noOfHops)
  BY <1>1, <1>2, <1>3, HopPeels
<1>5. BackwardMsg(TOR_CCt_HOPs[i], Wrapped(PacketBody(p), i + 1, noOfHops)) =
        FromHop(i, "RELAY_DATA_BWD_ENC", Wrapped(PacketBody(p), i, noOfHops))
  BY <1>1, <1>4 DEF BackwardMsg, FromHop
<1>6. PrevHop(i) \in Node /\ TOR_CCt_HOPs[i] \in Router
  BY <1>1, Path
<1>7. i = noOfHops => Wrapped(PacketBody(p), i + 1, noOfHops) = PacketBody(p)
  <2>1. /\ i + 1 \in 1 .. noOfHops + 1 /\ noOfHops \in 0 .. noOfHops
        /\ (i = noOfHops => noOfHops < i + 1)
    BY <1>3
  <2> QED
    BY <1>1, <1>2, <2>1, BodyTypes
<1> QED
  BY <1>1, <1>5, <1>6, <1>7, MadeForHop, Numbers

LEMMA RelayBackStep ==
  ASSUME Parts, ~ Building, NEW r \in Router, RelayBack(r)
  PROVE  Parts' /\ up' = up
<1>1. /\ inbox[r] # << >> /\ Head(inbox[r]).cmd = "RELAY_DATA_BWD_ENC"
      /\ RouterSends(r, entry[r].key # NoKey, entry[r].circuitRequesterAddr,
                     BackwardMsg(r, BodyAt(r)))
      /\ UNCHANGED <<s, TOR_CCt_HOPs, var, tun, delivered, entry, flags, world, pinged, faults>>
  BY DEF RelayBack, Receives
<1>2. HopsAre(TOR_CCt_HOPs) /\ ControlOK /\ phase # "start"
  BY Serving
<1>3. PICK m : m = Head(inbox[r])
  OBVIOUS
<1>4. r \in Node /\ r # Proxy
  BY Numbers
<1>5. PICK j \in 1 .. noOfHops : \E p \in Replies :
        r = PrevHop(j) /\ m.body = Wrapped(PacketBody(p), j, noOfHops)
  BY <1>1, <1>3, <1>4, WhatServes
<1>6. PICK p \in Replies : r = PrevHop(j) /\ m.body = Wrapped(PacketBody(p), j, noOfHops)
  BY <1>5
<1>7. j # 1 /\ j - 1 \in 1 .. noOfHops /\ r = TOR_CCt_HOPs[j - 1] /\ (j - 1) + 1 = j
  BY <1>2, <1>4, <1>6, NextHopOf
<1>8. PICK i \in 1 .. noOfHops : i = j - 1 /\ i + 1 = j /\ r = TOR_CCt_HOPs[i]
  BY <1>7
<1>9. PICK w, d : w = BackwardMsg(r, BodyAt(r)) /\ d = PrevHop(i)
  OBVIOUS
<1>10. /\ w \in Receivable(d) /\ entry[r].key # NoKey /\ entry[r].circuitRequesterAddr = d
       /\ d \in Node
  BY <1>3, <1>6, <1>8, <1>9, BackwardMade DEF BodyAt
<1>11. RouterSends(r, TRUE, d, w)
  BY <1>1, <1>9, <1>10 DEF RouterSends
<1> QED
  BY <1>1, <1>10, <1>11, RouterPassesOn

LEMMA RouterEndsWhileServing ==
  ASSUME Parts, ~ Building, NEW r \in Router, RouterEnds(r), faults' \in 0 .. MaxFaults,
         UNCHANGED <<s, TOR_CCt_HOPs, var, tun, delivered, entry, flags, world, pinged>>
  PROVE  Parts'
<1>1. ControlOK /\ ServeInv /\ phase \in {"relay", "exited"} /\ Within(inbox, Queues)
  BY Serving DEF ControlOK, Building
<1>2. /\ up' = up \ {r} /\ inbox' = [inbox EXCEPT ![r] = << >>]
      /\ raw' = [raw EXCEPT ![r] = << >>] /\ phase' \in {"relay", "exited"}
  BY <1>1 DEF RouterEnds
<1>3. \A S : << >> \in Seq(S)
  BY EmptySeq
<1>4. Within(inbox', Queues)
  BY <1>1, <1>2, <1>3 DEF Within
<1>5. /\ raw' = [n \in Router |-> raw'[n]]
      /\ \A n \in Router : /\ raw'[n] \in Seq(Replies \cup IcmpError)
                           /\ raw'[n] # << >> => n = Exit
  BY <1>1, <1>2, <1>3 DEF ServeInv
<1> QED
  BY <1>1, <1>2, <1>4, <1>5, StillServing DEF ControlOK, ServeInv

\* A reply that the exit finds on its raw socket is wrapped; an error ends it.
LEMMA RawReplyStep ==
  ASSUME Parts, ~ Building, NEW r \in Router, RawReply(r)
  PROVE  /\ Parts'
         /\ \/ up' = up
            \/ up' = up \ {r} /\ r = Exit /\ raw[r] # << >> /\ Head(raw[r]).type = "error"
<1>1. /\ r \in up /\ raw[r] # << >>
      /\ UNCHANGED <<s, TOR_CCt_HOPs, var, tun, delivered, entry, flags, world, pinged, faults>>
  BY DEF RawReply
<1>2. /\ HopsAre(TOR_CCt_HOPs) /\ ControlOK /\ ServeInv /\ phase \in {"relay", "exited"}
      /\ Within(inbox, Queues)
  BY Serving DEF ControlOK, Building
<1>3. PICK S : S = Replies \cup IcmpError
  OBVIOUS
<1>4. r = Exit /\ raw[r] \in Seq(S) /\ noOfHops \in 1 .. noOfHops
  BY <1>1, <1>2, <1>3, Numbers DEF ServeInv
<1>5. Head(raw[r]) \in S /\ Tail(raw[r]) \in Seq(S)
  BY <1>1, <1>4, SeqElements
<1>6. \/ Head(raw[r]) \in IcmpError /\ Head(raw[r]).type = "error" /\ ~ IsPing(Head(raw[r]))
      \/ Head(raw[r]) \in Replies /\ IsPing(Head(raw[r]))
  BY <1>3, <1>5 DEF Replies, Packet, IcmpError, IsPing
<1>7. CASE Head(raw[r]).type = "error" /\ ~ IsPing(Head(raw[r]))
  <2>1. RouterEnds(r) /\ faults' \in 0 .. MaxFaults
    BY <1>1, <1>2, <1>7 DEF RawReply, ControlOK
  <2>2. Parts' /\ up' = up \ {r}
    BY <1>1, <2>1, RouterEndsWhileServing DEF RouterEnds
  <2> QED
    BY <1>1, <1>4, <1>7, <2>2
<1>8. CASE Head(raw[r]) \in Replies /\ IsPing(Head(raw[r]))
  <2>1. PICK p \in Replies : p = [Head(raw[r]) EXCEPT !.daddr = NoIP]
    BY <1>8, Readdressed, Numbers
  <2>2. PICK w, d : w = BackwardMsg(r, PacketBody(p)) /\ d = PrevHop(noOfHops)
    OBVIOUS
  <2>3. /\ w \in Receivable(d) /\ entry[r].key # NoKey /\ entry[r].circuitRequesterAddr = d
        /\ d \in Node
    BY <1>4, <2>2, BackwardMade DEF Exit
  <2>4. d # NoAddress
    BY <2>3, Numbers
  <2>5. /\ inbox' = Sent(inbox, d, w) /\ raw' = [raw EXCEPT ![r] = Tail(@)]
        /\ UNCHANGED <<up, phase>>
    <3>1. RawReply(r)
      OBVIOUS
    <3> QED
      BY <1>8, <2>1, <2>2, <2>3, <2>4, <3>1 DEF RawReply
  <2>6. Within(inbox', Queues)
    BY <1>2, <2>3, <2>5, QueuesKept
  <2>7. PICK z : z = Tail(raw[r])
    OBVIOUS
  <2>8. raw' = [raw EXCEPT ![r] = z] /\ z \in Seq(S)
    BY <1>5, <2>5, <2>7
  <2>9. /\ raw' = [n \in Router |-> raw'[n]]
        /\ \A n \in Router : raw'[n] \in Seq(S) /\ (raw'[n] # << >> => n = Exit)
    BY <1>2, <1>3, <1>4, <2>8 DEF ServeInv
  <2> QED
    BY <1>1, <1>2, <1>3, <2>5, <2>6, <2>9, StillServing DEF ControlOK, ServeInv
<1> QED
  BY <1>6, <1>7, <1>8

\* A reply or an error for a ping that left from the exit reaches its raw socket.
LEMMA BackAtTheExit ==
  ASSUME Parts, ~ Building, NEW q \in world, NEW type \in {"reply", "error"}, ComesBack(q, type)
  PROVE  /\ raw' = [n \in Router |-> raw'[n]]
         /\ \A n \in Router : /\ raw'[n] \in Seq(Replies \cup IcmpError)
                              /\ raw'[n] # << >> => n = Exit
<1>1. ServeInv /\ Exit \in Router
  BY Serving
<1>2. Exit \in Node /\ Eth(Exit) \in IP /\ Eth(Exit) = Exit
  BY <1>1, Numbers
<1>3. q \in Requests(Eth(Exit))
  BY <1>1 DEF ServeInv
<1>4. q.saddr = Exit
  BY <1>2, <1>3, Readdressed
<1>5. PICK S : S = Replies \cup IcmpError
  OBVIOUS
<1>6. PICK p : p = Answering(q, type)
  OBVIOUS
<1>7. p \in S
  BY <1>2, <1>3, <1>5, <1>6, Readdressed
<1>8. raw' = [raw EXCEPT ![Exit] = Append(@, p)] \/ raw' = raw
  BY <1>4, <1>6 DEF ComesBack
<1>9. raw[Exit] \in Seq(S)
  BY <1>1, <1>5 DEF ServeInv
<1>10. PICK z \in Seq(S) : z = Append(raw[Exit], p)
  BY <1>7, <1>9, SeqElements
<1>11. raw' = [raw EXCEPT ![Exit] = z] \/ raw' = raw
  BY <1>8, <1>10
<1>12. CASE raw' = raw
  BY <1>1, <1>12 DEF ServeInv
<1>13. CASE raw' = [raw EXCEPT ![Exit] = z]
  BY <1>1, <1>5, <1>13 DEF ServeInv
<1> QED
  BY <1>11, <1>12, <1>13

LEMMA InternetRepliesStep ==
  ASSUME Parts, ~ Building, NEW q \in world, InternetReplies(q)
  PROVE  Parts' /\ up' = up
<1>1. /\ world' = world \ {q} /\ ComesBack(q, "reply")
      /\ UNCHANGED <<proxyVars, up, entry, flags, inbox, pinged, faults>>
  BY DEF InternetReplies
<1>2. ControlOK /\ ServeInv /\ phase \in {"relay", "exited"} /\ Within(inbox, Queues)
  BY Serving DEF ControlOK, Building
<1>3. /\ raw' = [n \in Router |-> raw'[n]]
      /\ \A n \in Router : /\ raw'[n] \in Seq(Replies \cup IcmpError)
                           /\ raw'[n] # << >> => n = Exit
  BY <1>1, BackAtTheExit
<1> QED
  BY <1>1, <1>2, <1>3, StillServing DEF ControlOK, ServeInv, proxyVars

LEMMA InternetRefusesStep ==
  ASSUME Parts, ~ Building, NEW q \in world, InternetRefuses(q)
  PROVE  Parts' /\ up' = up
<1>1. /\ world' = world \ {q} /\ ComesBack(q, "error")
      /\ faults < MaxFaults /\ faults' = faults + 1
      /\ UNCHANGED <<proxyVars, up, entry, flags, inbox, pinged>>
  BY DEF InternetRefuses
<1>2. ControlOK /\ ServeInv /\ phase \in {"relay", "exited"} /\ Within(inbox, Queues)
  BY Serving DEF ControlOK, Building
<1>3. /\ raw' = [n \in Router |-> raw'[n]]
      /\ \A n \in Router : /\ raw'[n] \in Seq(Replies \cup IcmpError)
                           /\ raw'[n] # << >> => n = Exit
  BY <1>1, BackAtTheExit
<1>4. faults' \in 0 .. MaxFaults
  BY <1>1, <1>2, Numbers DEF ControlOK
<1> QED
  BY <1>1, <1>2, <1>3, <1>4, StillServing DEF ControlOK, ServeInv, proxyVars

LEMMA InternetLosesStep ==
  ASSUME Parts, ~ Building, NEW q \in world, InternetLoses(q)
  PROVE  Parts' /\ up' = up
<1>1. /\ world' = world \ {q} /\ faults < MaxFaults /\ faults' = faults + 1
      /\ UNCHANGED <<proxyVars, routerVars, inbox, pinged>>
  BY DEF InternetLoses
<1>2. ControlOK /\ ServeInv /\ phase \in {"relay", "exited"} /\ Within(inbox, Queues)
  BY Serving DEF ControlOK, Building
<1>3. faults' \in 0 .. MaxFaults
  BY <1>1, <1>2, Numbers DEF ControlOK
<1> QED
  BY <1>1, <1>2, <1>3, StillServing DEF ControlOK, ServeInv, proxyVars, routerVars

LEMMA RouterIsKilledStep ==
  ASSUME Parts, NEW r \in Router, RouterIsKilled(r)
  PROVE  Parts' /\ faults' = faults + 1
<1>1. /\ RouterEnds(r) /\ faults < MaxFaults /\ faults' = faults + 1
      /\ UNCHANGED <<s, TOR_CCt_HOPs, var, tun, delivered, entry, flags, world, pinged>>
  BY DEF RouterIsKilled
<1>2. faults' \in 0 .. MaxFaults
  BY <1>1, Numbers DEF Parts, ControlOK
<1> QED
  BY <1>1, <1>2, RouterEndsWhileBuilding, RouterEndsWhileServing

-----------------------------------------------------------------------------
(* The invariant holds at first, and every step keeps it.                  *)

LEMMA InitParts ==
  ASSUME Init
  PROVE  Parts
<1>1. /\ phase = "start" /\ s = 1 /\ TOR_CCt_HOPs = << >> /\ var = 0 /\ up = Router
      /\ entry = [r \in Router |-> ZeroEntry]
      /\ TO_FORWARD_FDH = [r \in Router |-> FALSE] /\ TO_FORWARD_ECE = [r \in Router |-> FALSE]
      /\ pinged = << >> /\ faults = 0
      /\ tun = << >> /\ delivered = << >> /\ world = {} /\ raw = [r \in Router |-> << >>]
      /\ inbox = [n \in Node |-> << >>]
  BY DEF Init
<1>2. << >> \in Seq(Host)
  BY EmptySeq
<1>3. Len(pinged) <= MaxPings
  BY <1>1, Numbers
<1>4. ZeroEntry \in CircuitInfoEntry
  BY Numbers DEF ZeroEntry, CircuitInfoEntry, HopPort
<1>5. \A r \in Router : Fresh(r)
  BY <1>1 DEF Fresh, Holds
<1>6. ControlOK
  BY <1>1, <1>2, <1>3, <1>4, Numbers DEF ControlOK, HopsChosen
<1>7. Placed(0, 0)
  BY <1>5 DEF Placed
<1> QED
  BY <1>1, <1>6, <1>7 DEF Parts, Building, BuildInv, Resting, Silent

\* A step keeps the invariant, and no router ends but by failure.
LEMMA NextParts ==
  ASSUME Parts, Next
  PROVE  /\ Parts'
         /\ \A r \in up \ up' :
              \/ faults' = faults + 1
              \/ r = Exit /\ raw[r] # << >> /\ Head(raw[r]).type = "error"
<1>1. CASE Build
  BY <1>1, BuildStartStep, SendKeyStep, SendExtendStep, AwaitDoneStep, OpenTunnelStep DEF Build
<1>2. CASE TunnelRead \/ SocketRead
  BY <1>2, TunnelReadStep, SocketReadStep
<1>3. CASE \E h \in Host : UserPings(h)
  BY <1>3, UserPingsStep
<1>4. ASSUME NEW r \in Router, UdpRead(r) \/ RawReply(r)
      PROVE  /\ Parts'
             /\ \/ up' = up
                \/ up' = up \ {r} /\ r = Exit /\ raw[r] # << >> /\ Head(raw[r]).type = "error"
  <2>1. CASE Building
    <3>1. ~ RelayFwd(r) /\ ~ ExitFwd(r) /\ ~ RelayBack(r) /\ ~ RawReply(r)
      BY <2>1, NoRelayYet DEF RelayFwd, ExitFwd, RelayBack
    <3> QED
      BY <1>4, <2>1, <3>1, NewKeyStep, ForwardKeyStep, NewExtendStep, ForwardExtendStep,
         ForwardDoneStep DEF UdpRead
  <2>2. CASE ~ Building
    BY <1>4, <2>2, NoMoreBuilding, RelayFwdStep, ExitFwdStep, RelayBackStep, RawReplyStep
       DEF UdpRead
  <2> QED
    BY <2>1, <2>2
<1>5. ASSUME NEW q \in world, InternetReplies(q) \/ InternetLoses(q) \/ InternetRefuses(q)
      PROVE  Parts' /\ up' = up
  <2>1. ~ Building
    BY NoRelayYet
  <2> QED
    BY <1>5, <2>1, InternetRepliesStep, InternetLosesStep, InternetRefusesStep
<1>6. CASE OpenTunnelFails
  BY <1>6, OpenTunnelStep
<1>7. CASE \E r \in Router : RouterIsKilled(r)
  BY <1>7, RouterIsKilledStep
<1> QED
  BY <1>1, <1>2, <1>3, <1>4, <1>5, <1>6, <1>7 DEF Next, Internet, Failure

LEMMA StutterParts ==
  ASSUME Parts, UNCHANGED vars
  PROVE  Parts'
<1>1. ControlOK' = ControlOK
  BY DEF vars, proxyVars, routerVars, flags, ControlOK, HopsChosen
<1>2. \A i : /\ PrevHop(i)' = PrevHop(i) /\ GivenAt(i)' = GivenAt(i)
             /\ Linked(i)' = Linked(i) /\ Keyed(i)' = Keyed(i)
  BY SameEntries DEF vars, proxyVars, routerVars
<1>3. \A n, m : Placed(n, m)' = Placed(n, m)
  BY SameEntries DEF vars, proxyVars, routerVars
<1>4. CASE Building
  <2>1. \A k, e : KeyAndExtend(k, e)' = KeyAndExtend(k, e)
    BY <1>2 DEF vars, proxyVars, routerVars, KeyAndExtend, At, KeyTo, ExtendTo, ToHop, Wrapped,
                HopsFrom
  <2>2. \A i : Answer(i)' = Answer(i)
    BY <1>2 DEF vars, proxyVars, routerVars, Answer, DoneBy, FromHop
  <2>3. \A k, e : KeyedOrNot(k, e)' = KeyedOrNot(k, e)
    <3>1. \A r : Fresh(r)' = Fresh(r)
      BY SameEntries DEF vars, proxyVars, routerVars
    <3> QED
      BY <1>2, <3>1 DEF vars, proxyVars, routerVars, KeyedOrNot
  <2>4. UNCHANGED <<phase, var, inbox, tun, delivered, world, pinged, raw>>
    BY DEF vars, proxyVars, routerVars
  <2>5. Adding' = Adding /\ Added' = Added
    BY <1>3, <2>1, <2>2, <2>3, <2>4 DEF Adding, Added
  <2>6. BuildInv'
    BY <1>3, <1>4, <2>4, <2>5 DEF Parts, BuildInv, Resting, Silent
  <2> QED
    BY <1>1, <1>4, <2>4, <2>6 DEF Parts, Building
<1>5. CASE ~ Building
  <2>1. ControlOK /\ ServeInv /\ Within(inbox, Queues) /\ phase \in {"relay", "exited"}
    BY <1>5, Serving DEF ControlOK, Building
  <2> QED
    BY <1>5, <2>1, StillServing DEF ControlOK, ServeInv, vars, proxyVars, routerVars
<1> QED
  BY <1>4, <1>5

LEMMA PartsInvariant == Spec => []Parts
<1>1. Init => Parts
  BY InitParts
<1>2. Parts /\ [Next]_vars => Parts'
  BY NextParts, StutterParts
<1> QED
  BY <1>1, <1>2, PTL DEF Spec
-----------------------------------------------------------------------------
(* What the invariant says of the properties.                              *)

\* What waits anywhere while a hop is added.
LEMMA WhatWaits ==
  ASSUME Parts, Building, NEW d \in Node, NEW n \in DOMAIN inbox[d], NEW m, m = inbox[d][n]
  PROVE  /\ phase \in {"extend", "await"}
         /\ \E i \in 1 .. var + 1 :
              \/ d = TOR_CCt_HOPs[i] /\ m = KeyTo(i) /\ Placed(var, var + 1)
                 /\ Fresh(TOR_CCt_HOPs[var + 1])
              \/ d = TOR_CCt_HOPs[i] /\ m = ExtendTo(i) /\ Placed(var, var + 1)
                 /\ (Fresh(TOR_CCt_HOPs[var + 1]) \/ Keyed(var + 1))
              \/ d = PrevHop(i) /\ m = DoneBy(i) /\ Placed(var + 1, var + 1)
<1>1. ControlOK /\ inbox[d] # << >>
  BY DEF Parts
<1>2. phase \in {"extend", "await"}
  BY <1>1, WhatArrives
<1>3. CASE \E k, e \in 0 .. var + 1 : /\ inbox = KeyAndExtend(k, e) /\ KeyedOrNot(k, e)
                                      /\ Placed(var, var + 1)
  <2>1. PICK k, e \in 0 .. var + 1 : inbox = KeyAndExtend(k, e) /\ KeyedOrNot(k, e)
    BY <1>3
  <2>2. k \in 0 .. noOfHops /\ e \in 0 .. noOfHops /\ phase # "start"
    BY <1>1, <1>2, BuildMessages
  <2>3. Fresh(TOR_CCt_HOPs[var + 1]) \/ Keyed(var + 1)
    BY <2>1 DEF KeyedOrNot
  <2>4. \A a, b : /\ \A c \in DOMAIN <<a, b>> : <<a, b>>[c] = a \/ <<a, b>>[c] = b
                  /\ \A c \in DOMAIN <<a>> : <<a>>[c] = a
    OBVIOUS
  <2>5. CASE d = At(k)
    <3>1. k \in 1 .. var + 1 /\ d = TOR_CCt_HOPs[k] /\ k # 0
      BY <1>1, <1>2, <2>1, <2>2, <2>5, QueueOf, AtHop
    <3>2. Fresh(TOR_CCt_HOPs[var + 1])
      BY <2>1, <3>1 DEF KeyedOrNot
    <3>3. m = KeyTo(k) \/ (e = k /\ m = ExtendTo(e))
      <4>1. inbox[d] = IF e = k THEN <<KeyTo(k), ExtendTo(e)>> ELSE <<KeyTo(k)>>
        BY <1>1, <1>2, <2>1, <2>5, QueueOf
      <4> QED
        BY <2>4, <4>1
    <3> QED
      BY <1>2, <1>3, <3>1, <3>2, <3>3
  <2>6. CASE d # At(k)
    <3>1. d = At(e)
      BY <1>1, <1>2, <2>1, <2>6, NothingAt
    <3>2. e \in 1 .. var + 1 /\ inbox[d] = <<ExtendTo(e)>>
      BY <1>1, <1>2, <2>1, <2>6, <3>1, ExtendAt
    <3>3. d = TOR_CCt_HOPs[e] /\ m = ExtendTo(e)
      BY <1>1, <2>2, <2>4, <3>1, <3>2, AtHop
    <3> QED
      BY <1>2, <1>3, <2>3, <3>1, <3>2, <3>3
  <2> QED
    BY <2>5, <2>6
<1>4. CASE \E i \in 1 .. var + 1 : inbox = Answer(i) /\ d = PrevHop(i) /\ Placed(var + 1, var + 1)
  <2>1. PICK i \in 1 .. var + 1 : inbox = Answer(i) /\ d = PrevHop(i)
    BY <1>4
  <2>2. i \in 0 .. var + 1 /\ i # 0
    BY <1>1, <1>2, BuildMessages
  <2>3. inbox[d] = <<DoneBy(i)>>
    BY <1>1, <1>2, <2>1, <2>2, AnswerOf
  <2>4. m = DoneBy(i)
    BY <2>3
  <2> QED
    BY <1>2, <1>4, <2>1, <2>4
<1> QED
  BY <1>1, <1>3, <1>4, WhatArrives

\* What waits anywhere once the circuit serves.
LEMMA WhatIsServed ==
  ASSUME Parts, ~ Building, NEW d \in Node, NEW n \in DOMAIN inbox[d], NEW m, m = inbox[d][n]
  PROVE  \E i \in 1 .. noOfHops : \E p \in Packet :
           \/ d = TOR_CCt_HOPs[i]
              /\ m = ToHop(i, "RELAY_DATA_FWD_ENC", Wrapped(PacketBody(p), i, noOfHops))
           \/ d = PrevHop(i)
              /\ m = FromHop(i, "RELAY_DATA_BWD_ENC", Wrapped(PacketBody(p), i, noOfHops))
<1>1. ControlOK /\ inbox[d] \in Seq(Receivable(d))
  BY Serving DEF ServeInv
<1>2. m \in Receivable(d)
  BY <1>1, SeqElements
<1> QED
  BY <1>1, <1>2, WhatIsReceivable DEF Forward, Backward, Requests, Replies

\* The hops that are linked.
LEMMA LinkedHops ==
  ASSUME Parts, NEW j \in 1 .. var
  PROVE  Linked(j)
<1>1. ControlOK /\ var \in Nat
  BY Numbers DEF Parts, ControlOK
<1>2. j \in 1 .. var + 1
  BY <1>1
<1> QED
  BY <1>1, <1>2 DEF Parts, ControlOK, Building, BuildInv, Resting, Adding, Added, ServeInv, Placed

LEMMA EntryOfLinked ==
  ASSUME NEW j, Linked(j), NEW e, e = entry[TOR_CCt_HOPs[j]]
  PROVE  /\ e.key = TOR_CCt_HOPs[j] /\ e.circuitRequesterAddr = PrevHop(j)
         /\ e.nextHop = TOR_CCt_HOPs[j + 1] /\ e.givenCicuitID = GivenAt(j)
         /\ e.myCircuitID = MyCircuitID(GivenAt(j), TOR_CCt_HOPs[j])
<1>1. e = LinkedEntry(j)
  BY DEF Linked, Holds
<1> QED
  BY <1>1 DEF LinkedEntry

LEMMA PartsConfirm ==
  ASSUME Parts
  PROVE  ConfirmedHopsInPlace
<1>1. ASSUME NEW j \in 1 .. var, NEW e, e = entry[TOR_CCt_HOPs[j]]
      PROVE  /\ e.key = TOR_CCt_HOPs[j] /\ e.circuitRequesterAddr = PrevHop(j)
             /\ e.nextHop = TOR_CCt_HOPs[j + 1] /\ e.givenCicuitID = GivenAt(j)
             /\ e.myCircuitID = MyCircuitID(GivenAt(j), TOR_CCt_HOPs[j])
  BY <1>1, LinkedHops, EntryOfLinked
<1> QED
  BY <1>1 DEF ConfirmedHopsInPlace

\* The layers and the contents of a body that is wrapped.
LEMMA WrappedIs ==
  ASSUME NEW i, NEW j, NEW k
  PROVE  /\ Wrapped(KeyBody(k), i, j).layers = HopsFrom(i, j)
         /\ Wrapped(KeyBody(k), i, j).key = k
         /\ Wrapped(PortBody(k), i, j).layers = HopsFrom(i, j)
         /\ Wrapped(PortBody(k), i, j).next = k
         /\ Wrapped(PacketBody(k), i, j).layers = HopsFrom(i, j)
BY DEF Wrapped, KeyBody, PortBody, PacketBody

LEMMA PartsLayers ==
  ASSUME Parts
  PROVE  OnionLayers
<1>1. SUFFICES ASSUME phase # "start", NEW i \in 1 .. noOfHops,
                      NEW n \in DOMAIN inbox[TOR_CCt_HOPs[i]], NEW m,
                      m = inbox[TOR_CCt_HOPs[i]][n]
               PROVE  /\ m.cmd = "FAKE_DIFFIE_HELLMAN" =>
                           \E j \in i .. noOfHops : /\ m.body.key = TOR_CCt_HOPs[j]
                                                    /\ m.body.layers = HopsFrom(i, j - 1)
                      /\ m.cmd = "ENC_CIRCUIT_EXTEND" =>
                           \E j \in i .. noOfHops : /\ m.body.next = TOR_CCt_HOPs[j + 1]
                                                    /\ m.body.layers = HopsFrom(i, j)
                      /\ m.cmd = "RELAY_DATA_FWD_ENC" => m.body.layers = HopsFrom(i, noOfHops)
                      /\ m.cmd = "RELAY_DATA_BWD_ENC" => m.body.layers = HopsFrom(i + 1, noOfHops)
  BY DEF OnionLayers
<1>2. ControlOK /\ TOR_CCt_HOPs[i] \in Node /\ i \in Int /\ noOfHops \in Nat
  BY <1>1, Path, Numbers DEF Parts
<1>3. CASE Building
  <2>1. phase \in {"extend", "await"}
    BY <1>1, <1>2, <1>3, WhatWaits
  <2>2. PICK l \in 1 .. var + 1 : \/ TOR_CCt_HOPs[i] = TOR_CCt_HOPs[l] /\ m = KeyTo(l)
                                  \/ TOR_CCt_HOPs[i] = TOR_CCt_HOPs[l] /\ m = ExtendTo(l)
                                  \/ m = DoneBy(l)
    BY <1>1, <1>2, <1>3, WhatWaits
  <2>3. /\ KeyTo(l).cmd = "FAKE_DIFFIE_HELLMAN" /\ ExtendTo(l).cmd = "ENC_CIRCUIT_EXTEND"
        /\ DoneBy(l).cmd = "ENC_CIRCUIT_EXTEND_DONE"
        /\ KeyTo(l).body = Wrapped(KeyBody(TOR_CCt_HOPs[var + 1]), l, var)
        /\ ExtendTo(l).body = Wrapped(PortBody(TOR_CCt_HOPs[var + 2]), l, var + 1)
        /\ l \in 1 .. noOfHops /\ var \in Nat /\ var + 1 \in 1 .. noOfHops
        /\ l \in Int /\ l <= var + 1
    BY <1>2, <2>1, BuildMessages
  <2>4. TOR_CCt_HOPs[i] = TOR_CCt_HOPs[l] => i = l
    BY <1>1, <1>2, <2>3, PrevHopsDistinct
  <2>5. PICK j : j = var + 1 /\ j - 1 = var /\ j + 1 = var + 2 /\ (i = l => j \in i .. noOfHops)
    BY <1>2, <2>3
  <2>6. CASE i = l /\ m = KeyTo(l)
    <3>1. m.body.key = TOR_CCt_HOPs[j] /\ m.body.layers = HopsFrom(i, j - 1)
      BY <2>3, <2>5, <2>6, WrappedIs
    <3> QED
      BY <2>3, <2>5, <2>6, <3>1
  <2>7. CASE i = l /\ m = ExtendTo(l)
    <3>1. m.body.next = TOR_CCt_HOPs[j + 1] /\ m.body.layers = HopsFrom(i, j)
      BY <2>3, <2>5, <2>7, WrappedIs
    <3> QED
      BY <2>3, <2>5, <2>7, <3>1
  <2>8. CASE m = DoneBy(l)
    BY <2>3, <2>8
  <2> QED
    BY <2>2, <2>4, <2>6, <2>7, <2>8
<1>4. CASE ~ Building
  <2>1. PICK l \in 1 .. noOfHops, p \in Packet :
          \/ TOR_CCt_HOPs[i] = TOR_CCt_HOPs[l]
             /\ m = ToHop(l, "RELAY_DATA_FWD_ENC", Wrapped(PacketBody(p), l, noOfHops))
          \/ TOR_CCt_HOPs[i] = PrevHop(l)
             /\ m = FromHop(l, "RELAY_DATA_BWD_ENC", Wrapped(PacketBody(p), l, noOfHops))
    BY <1>1, <1>2, <1>4, WhatIsServed
  <2>2. PICK b : b = Wrapped(PacketBody(p), l, noOfHops)
    OBVIOUS
  <2>3. /\ ToHop(l, "RELAY_DATA_FWD_ENC", b).cmd = "RELAY_DATA_FWD_ENC"
        /\ FromHop(l, "RELAY_DATA_BWD_ENC", b).cmd = "RELAY_DATA_BWD_ENC"
        /\ ToHop(l, "RELAY_DATA_FWD_ENC", b).body = b
        /\ FromHop(l, "RELAY_DATA_BWD_ENC", b).body = b
        /\ b.layers = HopsFrom(l, noOfHops)
    BY <1>4, <2>2, RelayMessages, WrappedIs
  <2>4. CASE /\ TOR_CCt_HOPs[i] = TOR_CCt_HOPs[l]
             /\ m = ToHop(l, "RELAY_DATA_FWD_ENC", b)
    <3>1. i = l
      BY <1>1, <1>2, <2>4, PrevHopsDistinct
    <3> QED
      BY <2>3, <2>4, <3>1
  <2>5. CASE /\ TOR_CCt_HOPs[i] = PrevHop(l)
             /\ m = FromHop(l, "RELAY_DATA_BWD_ENC", b)
    <3>1. TOR_CCt_HOPs[i] # Proxy
      BY <1>1, <1>2, Path, Numbers
    <3>2. l # 1 /\ l - 1 \in 1 .. noOfHops /\ TOR_CCt_HOPs[i] = TOR_CCt_HOPs[l - 1]
      BY <1>1, <1>2, <2>5, <3>1, NextHopOf
    <3>3. i = l - 1
      BY <1>1, <1>2, <3>2, PrevHopsDistinct
    <3>4. i + 1 = l
      BY <1>2, <3>2, <3>3
    <3> QED
      BY <2>3, <2>5, <3>4
  <2> QED
    BY <2>1, <2>2, <2>4, <2>5
<1> QED
  BY <1>3, <1>4
\* What the hop before hop l and hop l itself know of each other, if linked.
LEMMA Neighbours ==
  ASSUME Parts, phase # "start", NEW l \in 1 .. noOfHops, NEW r \in Router, r = PrevHop(l),
         l - 1 \in 1 .. var
  PROVE  GivenAt(l) = entry[r].myCircuitID /\ TOR_CCt_HOPs[l] = entry[r].nextHop
<1>1. ControlOK /\ r # Proxy
  BY Numbers DEF Parts
<1>2. l # 1 /\ l - 1 \in 1 .. noOfHops /\ r = TOR_CCt_HOPs[l - 1]
      /\ GivenAt(l) = entry[r].myCircuitID /\ (l - 1) + 1 = l
  BY <1>1, NextHopOf
<1>3. Linked(l - 1)
  BY LinkedHops
<1>4. entry[r].nextHop = TOR_CCt_HOPs[(l - 1) + 1]
  BY <1>2, <1>3, EntryOfLinked
<1> QED
  BY <1>2, <1>4

LEMMA PartsAgree ==
  ASSUME Parts
  PROVE  IdentifiersAgree
<1>1. SUFFICES ASSUME NEW r \in Router, NEW n \in DOMAIN inbox[r], NEW m, m = inbox[r][n]
               PROVE  IF m.cmd \in {"ENC_CIRCUIT_EXTEND_DONE", "RELAY_DATA_BWD_ENC"}
                        THEN m.cid = htons(entry[r].myCircuitID) /\ m.from = entry[r].nextHop
                        ELSE TO_FORWARD_FDH[r] => /\ m.cid = htons(entry[r].givenCicuitID)
                                                  /\ m.from = entry[r].circuitRequesterAddr
  BY DEF IdentifiersAgree
<1>2. ControlOK /\ r \in Node /\ r # Proxy /\ noOfHops \in Nat
  BY Numbers DEF Parts
<1>3. CASE Building
  <2>1. phase \in {"extend", "await"}
    BY <1>1, <1>2, <1>3, WhatWaits
  <2>2. PICK l \in 1 .. var + 1 :
          \/ r = TOR_CCt_HOPs[l] /\ m = KeyTo(l) /\ Fresh(TOR_CCt_HOPs[var + 1])
          \/ r = TOR_CCt_HOPs[l] /\ m = ExtendTo(l)
             /\ (Fresh(TOR_CCt_HOPs[var + 1]) \/ Keyed(var + 1))
          \/ r = PrevHop(l) /\ m = DoneBy(l)
    BY <1>1, <1>2, <1>3, WhatWaits
  <2>3. /\ KeyTo(l).cmd = "FAKE_DIFFIE_HELLMAN" /\ ExtendTo(l).cmd = "ENC_CIRCUIT_EXTEND"
        /\ DoneBy(l).cmd = "ENC_CIRCUIT_EXTEND_DONE"
        /\ KeyTo(l).from = PrevHop(l) /\ ExtendTo(l).from = PrevHop(l)
        /\ DoneBy(l).from = TOR_CCt_HOPs[l]
        /\ KeyTo(l).cid = htons(GivenAt(l)) /\ ExtendTo(l).cid = htons(GivenAt(l))
        /\ DoneBy(l).cid = htons(GivenAt(l))
        /\ l \in 1 .. noOfHops /\ var \in Nat /\ l \in Int /\ l <= var + 1
    <3>1. KeyTo(l).cid = htons(GivenAt(l))
      BY DEF KeyTo, ToHop, Msg
    <3> QED
      BY <1>2, <2>1, <3>1, BuildMessages
  <2>4. CASE r = TOR_CCt_HOPs[l] /\ (m = KeyTo(l) \/ m = ExtendTo(l))
    <3>1. m.cmd \in {"FAKE_DIFFIE_HELLMAN", "ENC_CIRCUIT_EXTEND"}
          /\ m.from = PrevHop(l) /\ m.cid = htons(GivenAt(l))
      BY <2>3, <2>4
    <3>2. CASE l = var + 1
      <4>1. Fresh(r) \/ Keyed(l)
        <5>1. DoneBy(l).cmd # m.cmd
          BY <2>3, <3>1
        <5> QED
          BY <2>2, <2>4, <3>2, <5>1
      <4>2. CASE Fresh(r)
        BY <3>1, <4>2 DEF Fresh, Holds
      <4>3. CASE Keyed(l)
        <5>1. entry[r] = KeyedEntry(l)
          BY <2>4, <4>3 DEF Keyed, Holds
        <5>2. entry[r].circuitRequesterAddr = PrevHop(l) /\ entry[r].givenCicuitID = GivenAt(l)
          BY <5>1 DEF KeyedEntry
        <5> QED
          BY <3>1, <5>2
      <4> QED
        BY <4>1, <4>2, <4>3
    <3>3. CASE l # var + 1
      <4>1. l \in 1 .. var
        BY <2>3, <3>3
      <4>2. entry[r].circuitRequesterAddr = PrevHop(l) /\ entry[r].givenCicuitID = GivenAt(l)
        BY <2>4, <4>1, LinkedHops, EntryOfLinked
      <4> QED
        BY <3>1, <4>2
    <3> QED
      BY <3>2, <3>3
  <2>5. CASE r = PrevHop(l) /\ m = DoneBy(l)
    <3>1. l # 1
      BY <1>2, <2>5 DEF PrevHop
    <3>2. l - 1 \in 1 .. var
      BY <2>3, <3>1
    <3>3. GivenAt(l) = entry[r].myCircuitID /\ TOR_CCt_HOPs[l] = entry[r].nextHop
      BY <2>1, <2>3, <2>5, <3>2, Neighbours
    <3> QED
      BY <2>3, <2>5, <3>3
  <2> QED
    BY <2>2, <2>4, <2>5
<1>4. CASE ~ Building
  <2>1. PICK l \in 1 .. noOfHops, p \in Packet :
          \/ r = TOR_CCt_HOPs[l]
             /\ m = ToHop(l, "RELAY_DATA_FWD_ENC", Wrapped(PacketBody(p), l, noOfHops))
          \/ r = PrevHop(l)
             /\ m = FromHop(l, "RELAY_DATA_BWD_ENC", Wrapped(PacketBody(p), l, noOfHops))
    BY <1>1, <1>2, <1>4, WhatIsServed
  <2>2. PICK b : b = Wrapped(PacketBody(p), l, noOfHops)
    OBVIOUS
  <2>3. /\ phase # "start" /\ var = noOfHops
        /\ entry[TOR_CCt_HOPs[l]].circuitRequesterAddr = PrevHop(l)
        /\ entry[TOR_CCt_HOPs[l]].givenCicuitID = GivenAt(l)
    BY <1>4, Serving DEF ControlOK, Building
  <2>4. CASE r = TOR_CCt_HOPs[l] /\ m = ToHop(l, "RELAY_DATA_FWD_ENC", b)
    <3>1. m.cmd = "RELAY_DATA_FWD_ENC" /\ m.from = PrevHop(l) /\ m.cid = htons(GivenAt(l))
      BY <2>4 DEF ToHop, Msg
    <3> QED
      BY <2>3, <2>4, <3>1
  <2>5. CASE r = PrevHop(l) /\ m = FromHop(l, "RELAY_DATA_BWD_ENC", b)
    <3>1. m.cmd = "RELAY_DATA_BWD_ENC" /\ m.from = TOR_CCt_HOPs[l] /\ m.cid = htons(GivenAt(l))
      BY <2>5 DEF FromHop, Msg
    <3>2. l - 1 \in 1 .. var
      BY <1>2, <2>3, <2>5, NextHopOf
    <3>3. GivenAt(l) = entry[r].myCircuitID /\ TOR_CCt_HOPs[l] = entry[r].nextHop
      BY <2>3, <2>5, <3>2, Neighbours
    <3> QED
      BY <3>1, <3>3
  <2> QED
    BY <2>1, <2>2, <2>4, <2>5
<1> QED
  BY <1>3, <1>4

LEMMA AtMostTwo ==
  ASSUME NEW u, NEW v, NEW S
  PROVE  /\ S \subseteq {u} => Cardinality(S) <= 1
         /\ S \subseteq {u, v} => Cardinality(S) <= 2
<1>1. IsFiniteSet({}) /\ Cardinality({}) = 0 /\ {u, v} = {u} \cup {v}
  BY FS_EmptySet
<1>2. IsFiniteSet({u}) /\ Cardinality({u}) \in Nat /\ Cardinality({u}) <= 1
  <2>1. IsFiniteSet({u}) /\ Cardinality({u}) = 1
    BY FS_Singleton
  <2> QED
    BY <2>1
<1>3. IsFiniteSet({u, v}) /\ Cardinality({u, v}) \in Nat /\ Cardinality({u, v}) <= 2
  <2>1. /\ IsFiniteSet({u} \cup {v})
        /\ Cardinality({u} \cup {v}) =
             IF v \in {u} THEN Cardinality({u}) ELSE Cardinality({u}) + 1
    BY <1>2, FS_AddElement
  <2>2. PICK c \in Nat : c = Cardinality({u})
    BY <1>2
  <2>3. PICK w : w = {u} \cup {v} /\ w = {u, v}
    BY <1>1
  <2>4. IsFiniteSet(w) /\ (Cardinality(w) = c \/ Cardinality(w) = c + 1) /\ c <= 1
    BY <1>2, <2>1, <2>2, <2>3
  <2>5. Cardinality(w) \in Nat /\ Cardinality(w) <= 2
    BY <2>4
  <2> QED
    BY <2>3, <2>4, <2>5
<1>4. ASSUME S \subseteq {u}
      PROVE  Cardinality(S) <= 1
  <2>1. S \in SUBSET {u}
    BY <1>4
  <2>2. Cardinality(S) <= Cardinality({u}) /\ IsFiniteSet(S)
    BY <1>2, <2>1, FS_Subset
  <2> QED
    BY <1>2, <2>2, FS_CardinalityType
<1>5. ASSUME S \subseteq {u, v}
      PROVE  Cardinality(S) <= 2
  <2>1. S \in SUBSET {u, v}
    BY <1>5
  <2>2. Cardinality(S) <= Cardinality({u, v}) /\ IsFiniteSet(S)
    BY <1>3, <2>1, FS_Subset
  <2> QED
    BY <1>3, <2>2, FS_CardinalityType
<1> QED
  BY <1>4, <1>5

\* The positions of datagrams while the key and the extend message are on their way.
LEMMA InFlightOfTwo ==
  ASSUME ControlOK, phase \in {"key", "extend", "await"}, NEW k \in 0 .. var + 1,
         NEW e \in 0 .. var + 1, inbox = KeyAndExtend(k, e)
  PROVE  \E u, v : InFlight \subseteq {u, v} /\ (e = 0 => InFlight \subseteq {u})
<1>1. PICK one, two : one = 1 /\ two = 2
  OBVIOUS
<1>2. PICK u, v : /\ u = <<At(k), one>>
                  /\ v = IF e = k THEN <<At(k), two>> ELSE <<At(e), one>>
  OBVIOUS
<1>3. \A a, b : DOMAIN <<a, b>> = {one, two} /\ DOMAIN <<a>> = {one} /\ DOMAIN << >> = {}
  BY <1>1
<1>4. ASSUME NEW d \in Node, NEW c \in DOMAIN inbox[d]
      PROVE  \/ <<d, c>> = u
             \/ <<d, c>> = v /\ e # 0
  <2>1. CASE d = At(k)
    <3>1. inbox[d] = (IF e = k THEN <<KeyTo(k), ExtendTo(e)>> ELSE <<KeyTo(k)>>)
          /\ k \in 1 .. var + 1
      BY <2>1, QueueOf
    <3>2. k # 0
      BY <3>1
    <3> QED
      BY <1>2, <1>3, <2>1, <3>1, <3>2
  <2>2. CASE d # At(k)
    <3>1. d = At(e)
      BY <1>3, <2>2, NothingAt
    <3>2. inbox[d] = <<ExtendTo(e)>> /\ e \in 1 .. var + 1
      BY <2>2, <3>1, ExtendAt
    <3>3. e # 0 /\ e # k
      BY <2>2, <3>1, <3>2
    <3> QED
      BY <1>2, <1>3, <3>1, <3>2, <3>3
  <2> QED
    BY <2>1, <2>2
<1>5. \A q \in InFlight : \E d \in Node : \E c \in DOMAIN inbox[d] : q = <<d, c>>
  BY DEF InFlight
<1>6. InFlight \subseteq {u, v} /\ (e = 0 => InFlight \subseteq {u})
  BY <1>4, <1>5
<1> QED
  BY <1>6

LEMMA PartsKeyThenExtend ==
  ASSUME Parts
  PROVE  KeyThenExtend
<1>1. ControlOK
  BY DEF Parts
<1>2. \A q \in InFlight : \E d \in Node : \E c \in DOMAIN inbox[d] : q = <<d, c>>
  BY DEF InFlight
<1>3. CASE Resting
  <2>1. \A d \in Node : DOMAIN inbox[d] = {}
    BY <1>3 DEF Parts, Building, Resting, BuildInv, Silent
  <2>2. InFlight = {}
    BY <1>2, <2>1
  <2> QED
    BY <1>3, <2>2 DEF KeyThenExtend, Resting
<1>4. CASE phase \in {"extend", "await"} /\ Adding
  <2>1. PICK k, e \in 0 .. var + 1 : inbox = KeyAndExtend(k, e) /\ (phase = "extend" => e = 0)
    BY <1>4 DEF Adding
  <2>2. PICK u, v : InFlight \subseteq {u, v} /\ (e = 0 => InFlight \subseteq {u})
    BY <1>1, <1>4, <2>1, InFlightOfTwo
  <2>3. Cardinality(InFlight) <= 2 /\ (e = 0 => Cardinality(InFlight) <= 1)
    BY <2>2, AtMostTwo
  <2> QED
    BY <1>4, <2>1, <2>3 DEF KeyThenExtend
<1>5. CASE phase = "await" /\ Added
  <2>1. PICK i \in 0 .. var + 1 : inbox = Answer(i)
    BY <1>5 DEF Added
  <2>2. PICK u, one : u = <<PrevHop(i), one>> /\ one = 1
    OBVIOUS
  <2>3. \A x : DOMAIN <<x>> = {one} /\ DOMAIN << >> = {}
    BY <2>2
  <2>4. \A d \in Node : \A c \in DOMAIN inbox[d] : <<d, c>> = u
    BY <1>1, <1>5, <2>1, <2>2, <2>3, AnswerOf
  <2>5. InFlight \subseteq {u, u}
    BY <1>2, <2>4
  <2>6. Cardinality(InFlight) <= 2
    BY <2>5, AtMostTwo
  <2> QED
    BY <1>5, <2>6 DEF KeyThenExtend
<1>6. CASE ~ Building
  BY <1>6 DEF KeyThenExtend, Building
<1> QED
  BY <1>3, <1>4, <1>5, <1>6 DEF Parts, Building, BuildInv, Resting, Added

-----------------------------------------------------------------------------
(* The theorems.                                                           *)

\* The inductive invariant of the construction and of the service of an onion
\* circuit (proxy.cc Build_An_Circuit_6, router.cc CCtCreation_6 and RelayThisStuff6):
\* the phase of the proxy determines which routers know what, and which datagrams
\* can be where.
THEOREM OnionInvariant == Spec => []OnionInv
<1>1. Parts => OnionInv
  BY PartsTypes DEF Parts, ControlOK, OnionInv, Building
<1> QED
  BY <1>1, PartsInvariant, PTL

\* Every variable of stage 6 keeps its type: circuit identifiers their 16 bits, the
\* path its routers, the queues messages of the protocol.
THEOREM OnionTypes == Spec => []TypeOK
<1>1. Parts => TypeOK
  BY PartsTypes
<1> QED
  BY <1>1, PartsInvariant, PTL

\* A hop the proxy counts as built holds its own key, its two neighbours, and the
\* identifiers of both sides, whatever is lost and whoever dies (router.cc, CCtCreation_6).
THEOREM ConfirmedHops == Spec => []ConfirmedHopsInPlace
<1>1. Parts => ConfirmedHopsInPlace
  BY PartsConfirm
<1> QED
  BY <1>1, PartsInvariant, PTL

\* Every datagram at a hop is wrapped for exactly the hops that still have to open it
\* (proxy.cc, CreateOnionEncryptMessages; router.cc, RelayThisStuff6).
THEOREM LayersFit == Spec => []OnionLayers
<1>1. Parts => OnionLayers
  BY PartsLayers
<1> QED
  BY <1>1, PartsInvariant, PTL

\* What reaches a router bears the identifier, and comes from the neighbour, that its
\* entry names for that direction (router.cc, CCtCreation_6 and RelayThisStuff6).
THEOREM IdentifiersNameCircuits == Spec => []IdentifiersAgree
<1>1. Parts => IdentifiersAgree
  BY PartsAgree
<1> QED
  BY <1>1, PartsInvariant, PTL

\* While the circuit is built at most two datagrams are on their way, and none between
\* two hops (proxy.cc, Build_An_Circuit_6): no receive buffer overflows.
THEOREM TwoInFlight == Spec => []KeyThenExtend
<1>1. Parts => KeyThenExtend
  BY PartsKeyThenExtend
<1> QED
  BY <1>1, PartsInvariant, PTL

\* No datagram fails an assertion of stage 6, at the proxy or at a router, with any
\* failure of routers and any loss (proxy.cc, router.cc: the assertions on commands,
\* lengths, identifiers and padding); the length of what a raw socket receives fails
\* one only for an ICMP error, at the exit.
THEOREM NobodyAborts == Spec => EndsOnlyByFailure
<1>1. ASSUME Parts, Next
      PROVE  /\ phase' # "aborted"
             /\ \A r \in up \ up' :
                  \/ faults' = faults + 1
                  \/ /\ r = TOR_CCt_HOPs[noOfHops] /\ raw[r] # << >>
                     /\ Head(raw[r]).type = "error"
  <2>1. /\ Parts'
        /\ \A r \in up \ up' :
             \/ faults' = faults + 1
             \/ r = Exit /\ raw[r] # << >> /\ Head(raw[r]).type = "error"
    BY <1>1, NextParts
  <2>2. ControlOK'
    BY <2>1 DEF Parts
  <2> QED
    BY <2>1, <2>2 DEF ControlOK, Exit
<1>2. Parts /\ [Next]_vars =>
        [/\ phase' # "aborted"
         /\ \A r \in up \ up' :
              \/ faults' = faults + 1
              \/ /\ r = TOR_CCt_HOPs[noOfHops] /\ raw[r] # << >>
                 /\ Head(raw[r]).type = "error"]_vars
  BY <1>1
<1> QED
  BY <1>2, PartsInvariant, PTL DEF Spec, EndsOnlyByFailure

-----------------------------------------------------------------------------
(* Without failures the construction does not come to a halt.              *)

\* A datagram is on its way that is not a key, which nobody answers.
Awaited ==
  \E n \in Node : \E k \in DOMAIN inbox[n] : inbox[n][k].cmd # "FAKE_DIFFIE_HELLMAN"

\* As long as nothing has failed, every router runs and no raw socket holds an error,
\* and while the proxy waits the datagram that will end the wait, or lead to the one
\* that does, is at a process.
OnlyReplies == \A r \in Router : raw[r] \in Seq(Replies)
NothingStalls ==
  faults = 0 => /\ up = Router /\ phase # "exited" /\ OnlyReplies
                /\ phase = "await" => Awaited

LEMMA AppendedAtTheEnd ==
  ASSUME NEW S, NEW q \in Seq(S), NEW x
  PROVE  /\ Len(q) + 1 \in DOMAIN Append(q, x) /\ Append(q, x)[Len(q) + 1] = x
         /\ \A k \in DOMAIN q : k \in DOMAIN Append(q, x) /\ Append(q, x)[k] = q[k]
<1>1. PICK T : T = S \cup {x}
  OBVIOUS
<1>2. q \in Seq(T) /\ x \in T
  BY <1>1, SeqWidened
<1> QED
  BY <1>2

\* With room in the queue and every process alive a datagram arrives.
LEMMA ArrivesForSure ==
  ASSUME up = Router, ProxyRuns, NEW q \in [Node -> Seq(Message)],
         NEW d \in Node, Len(q[d]) < RcvBuf,
         NEW m, m.cmd # "FAKE_DIFFIE_HELLMAN", inbox' = Sent(q, d, m)
  PROVE  Awaited'
<1>1. d \in LiveNodes
  BY Numbers DEF LiveNodes
<1>2. PICK a : a = Append(q[d], m)
  OBVIOUS
<1>3. inbox' = [q EXCEPT ![d] = a]
  BY <1>1, <1>2 DEF Sent, Deliver
<1>4. inbox'[d] = a
  BY <1>3
<1>5. \E k \in DOMAIN a : a[k] = m
  BY <1>2, AppendedAtTheEnd
<1> QED
  BY <1>4, <1>5 DEF Awaited

\* A handler that has taken a key leaves everything else where it is.
LEMMA KeyTaken ==
  ASSUME inbox \in [Node -> Seq(Message)], NEW r \in Node, inbox[r] # << >>,
         Head(inbox[r]).cmd = "FAKE_DIFFIE_HELLMAN", Awaited,
         \/ inbox' = Consume(inbox, r)
         \/ \E d, m : inbox' = Sent(Consume(inbox, r), d, m)
  PROVE  Awaited'
<1>1. PICK q : q = Consume(inbox, r)
  OBVIOUS
<1>2. PICK t : t = Tail(inbox[r])
  OBVIOUS
<1>3. /\ t \in Seq(Message) /\ q = [inbox EXCEPT ![r] = t]
      /\ \A k \in DOMAIN inbox[r] : k # 1 => k - 1 \in DOMAIN t /\ t[k - 1] = inbox[r][k]
      /\ inbox[r][1] = Head(inbox[r])
  BY <1>1, <1>2 DEF Consume
<1>4. q \in [Node -> Seq(Message)]
  BY <1>3
<1>5. PICK n \in Node : \E k \in DOMAIN inbox[n] : inbox[n][k].cmd # "FAKE_DIFFIE_HELLMAN"
  BY DEF Awaited
<1>6. \E j \in DOMAIN q[n] : q[n][j].cmd # "FAKE_DIFFIE_HELLMAN"
  <2>1. PICK k \in DOMAIN inbox[n] : inbox[n][k].cmd # "FAKE_DIFFIE_HELLMAN"
    BY <1>5
  <2>2. CASE n = r
    <3>1. k # 1
      BY <1>3, <2>1, <2>2
    <3> QED
      BY <1>3, <2>1, <2>2, <3>1
  <2>3. CASE n # r
    BY <1>3, <2>1, <2>3
  <2> QED
    BY <2>2, <2>3
<1>7. CASE inbox' = q
  BY <1>6, <1>7 DEF Awaited
<1>8. ASSUME NEW d, NEW m, inbox' = Sent(q, d, m)
      PROVE  Awaited'
  <2>1. PICK j \in DOMAIN q[n] : q[n][j].cmd # "FAKE_DIFFIE_HELLMAN"
    BY <1>6
  <2>2. PICK a : a = Append(q[d], m)
    OBVIOUS
  <2>3. inbox' = q \/ inbox' = [q EXCEPT ![d] = a]
    BY <1>8, <2>2 DEF Sent, Deliver
  <2>4. CASE n = d
    <3>1. j \in DOMAIN a /\ a[j] = q[n][j]
      BY <1>4, <2>2, <2>4, AppendedAtTheEnd
    <3>2. inbox'[n] = q[n] \/ inbox'[n] = a
      BY <1>4, <2>3, <2>4
    <3> QED
      BY <2>1, <3>1, <3>2 DEF Awaited
  <2>5. CASE n # d
    <3>1. inbox'[n] = q[n]
      BY <1>4, <2>3, <2>5
    <3> QED
      BY <2>1, <3>1 DEF Awaited
  <2> QED
    BY <2>4, <2>5
<1> QED
  BY <1>1, <1>7, <1>8

\* Only a key has another datagram behind it.
LEMMA OneInAQueue ==
  ASSUME Parts, Building,
         \/ phase = "extend"
         \/ \E r \in Router : \/ Receives(r, "ENC_CIRCUIT_EXTEND")
                              \/ Receives(r, "ENC_CIRCUIT_EXTEND_DONE")
  PROVE  \A n \in Node : Len(inbox[n]) <= 1
<1>1. ControlOK /\ BuildInv
  BY DEF Parts
<1>2. \A x : Len(<<x>>) <= 1 /\ Len(<< >>) <= 1
  OBVIOUS
<1>3. ASSUME phase \in {"extend", "await"}, NEW k \in 0 .. var + 1, NEW e \in 0 .. var + 1,
             inbox = KeyAndExtend(k, e), k # e \/ e = 0, NEW n \in Node
      PROVE  Len(inbox[n]) <= 1
  <2>1. CASE n = At(k)
    <3>1. k \in 1 .. var + 1 /\ inbox[n] = IF e = k THEN <<KeyTo(k), ExtendTo(e)>> ELSE <<KeyTo(k)>>
      BY <1>1, <1>3, <2>1, QueueOf
    <3>2. e # k
      BY <1>3, <3>1
    <3> QED
      BY <1>2, <3>1, <3>2
  <2>2. CASE n # At(k) /\ n = At(e)
    BY <1>1, <1>2, <1>3, <2>2, ExtendAt
  <2>3. CASE n # At(k) /\ n # At(e)
    BY <1>1, <1>2, <1>3, <2>3, NothingAt
  <2> QED
    BY <2>1, <2>2, <2>3
<1>4. CASE phase = "extend"
  <2>1. PICK k, e \in 0 .. var + 1 : inbox = KeyAndExtend(k, e) /\ e = 0
    BY <1>1, <1>4 DEF BuildInv, Resting, Adding, Added
  <2> QED
    BY <1>3, <1>4, <2>1
<1>5. ASSUME NEW r \in Router, Receives(r, "ENC_CIRCUIT_EXTEND"), NEW n \in Node
      PROVE  Len(inbox[n]) <= 1
  <2>1. PICK k, e \in 0 .. var + 1 : inbox = KeyAndExtend(k, e) /\ k # e /\ phase = "await"
    BY <1>5, ExtendArrives
  <2> QED
    BY <1>3, <2>1
<1>6. ASSUME NEW r \in Router, Receives(r, "ENC_CIRCUIT_EXTEND_DONE"), NEW n \in Node
      PROVE  Len(inbox[n]) <= 1
  <2>1. r \in Node /\ inbox[r] # << >> /\ Head(inbox[r]).cmd = "ENC_CIRCUIT_EXTEND_DONE"
    BY <1>6, Numbers DEF Receives
  <2>2. phase = "await" /\ \E i \in 1 .. var + 1 : inbox = Answer(i)
    BY <2>1, DoneArrives
  <2>3. PICK i \in 1 .. var + 1 : inbox = Answer(i)
    BY <2>2
  <2>4. i \in 0 .. var + 1
    BY <1>1, <2>2, BuildMessages
  <2> QED
    BY <1>1, <1>2, <2>2, <2>3, <2>4, AnswerOf
<1> QED
  BY <1>4, <1>5, <1>6

\* A handler that takes an extend message or an answer sends another in its place.
LEMMA HandedOn ==
  ASSUME Parts, phase = "await", up = Router, RcvBuf >= 2, NEW r \in Router,
         \/ Receives(r, "ENC_CIRCUIT_EXTEND") \/ Receives(r, "ENC_CIRCUIT_EXTEND_DONE"),
         NEW d \in Node, NEW m, m.cmd # "FAKE_DIFFIE_HELLMAN",
         inbox' = Sent(Consume(inbox, r), d, m)
  PROVE  Awaited'
<1>1. Building /\ ProxyRuns /\ inbox \in [Node -> Seq(Message)] /\ r \in Node /\ inbox[r] # << >>
  BY PartsTypes, Numbers DEF Building, ProxyRuns, TypeOK, Receives
<1>2. PICK q, t : q = Consume(inbox, r) /\ t = Tail(inbox[r])
  OBVIOUS
<1>3. t \in Seq(Message) /\ Len(t) <= 1
  <2>1. Len(inbox[r]) <= 1
    BY <1>1, OneInAQueue
  <2> QED
    BY <1>1, <1>2, <2>1
<1>4. q = [inbox EXCEPT ![r] = t]
  BY <1>2 DEF Consume
<1>5. q \in [Node -> Seq(Message)] /\ Len(q[d]) <= 1
  BY <1>1, <1>3, <1>4, OneInAQueue
<1>6. Len(q[d]) < RcvBuf
  BY <1>5, Numbers
<1> QED
  BY <1>1, <1>2, <1>5, <1>6, ArrivesForSure

\* The addresses that the handlers of the construction send to.
LEMMA SendsToNodes ==
  ASSUME Parts, Building, NEW r \in Router
  PROVE  /\ NewExtend(r) => Head(inbox[r]).from \in Node
         /\ ForwardExtend(r) => entry[r].nextHop \in Node
         /\ ForwardDone(r) => entry[r].circuitRequesterAddr \in Node
<1>1. ControlOK /\ TypeOK /\ r \in Node
  BY PartsTypes, Numbers DEF Parts
<1>2. ASSUME NewExtend(r)
      PROVE  Head(inbox[r]).from \in Node
  <2>1. inbox[r] # << >> /\ inbox[r] \in Seq(Message)
    BY <1>1, <1>2 DEF NewExtend, Receives, TypeOK
  <2>2. Head(inbox[r]) \in Message
    BY <2>1, SeqElements
  <2> QED
    BY <2>2 DEF Message
<1>3. ASSUME ForwardExtend(r)
      PROVE  entry[r].nextHop \in Node
  <2>1. PICK k, e \in 0 .. var + 1 :
          /\ e # 0 /\ r = TOR_CCt_HOPs[e] /\ KeyedOrNot(k, e)
          /\ phase = "await" /\ Placed(var, var + 1) /\ k # e
    BY <1>3, ExtendArrives DEF ForwardExtend
  <2>2. e # var + 1
    BY <1>3, <2>1 DEF ForwardExtend, KeyedOrNot, Fresh, Keyed, Holds
  <2>3. e \in 1 .. var /\ e + 1 \in 1 .. noOfHops
    BY <1>1, <2>1, <2>2, BuildMessages
  <2>4. Linked(e)
    BY <2>1, <2>3 DEF Placed
  <2>5. entry[r].nextHop = TOR_CCt_HOPs[e + 1]
    BY <2>1, <2>4, EntryOfLinked
  <2> QED
    BY <1>1, <2>1, <2>3, <2>5, Path
<1>4. ASSUME ForwardDone(r)
      PROVE  entry[r].circuitRequesterAddr \in Node
  <2>1. inbox[r] # << >> /\ Head(inbox[r]).cmd = "ENC_CIRCUIT_EXTEND_DONE"
    BY <1>4 DEF ForwardDone, Receives
  <2>2. phase = "await" /\ Placed(var + 1, var + 1)
    BY <1>1, <2>1, DoneArrives
  <2>3. PICK i \in 1 .. var + 1 : r = PrevHop(i)
    BY <1>1, <2>1, DoneArrives
  <2>4. i \in 1 .. noOfHops /\ i # 1 /\ i - 1 \in 1 .. var + 1
    BY <1>1, <2>2, <2>3, BuildMessages, Numbers DEF PrevHop
  <2>5. r = TOR_CCt_HOPs[i - 1] /\ i - 1 \in 1 .. noOfHops
    BY <1>1, <2>2, <2>3, <2>4, NextHopOf
  <2>6. Linked(i - 1)
    BY <2>2, <2>4 DEF Placed
  <2>7. entry[r].circuitRequesterAddr = PrevHop(i - 1)
    BY <2>5, <2>6, EntryOfLinked
  <2> QED
    BY <1>1, <2>2, <2>5, <2>7, Path
<1> QED
  BY <1>2, <1>3, <1>4

\* While the proxy waits, what it waits for stays on its way.
LEMMA PassedOn ==
  ASSUME Parts, phase = "await", up = Router, up' = up, RcvBuf >= 2, Awaited,
         NEW r \in Router, UdpRead(r) \/ RawReply(r)
  PROVE  Awaited'
<1>1. Building /\ inbox \in [Node -> Seq(Message)] /\ r \in Node /\ r \in up
  BY PartsTypes, Numbers DEF Building, TypeOK
<1>2. ~ RouterEnds(r)
  BY <1>1 DEF RouterEnds
<1>3. \A asserted, d, m : RouterSends(r, asserted, d, m) => inbox' = Sent(Consume(inbox, r), d, m)
  BY <1>2 DEF RouterSends
<1>4. \A cmd, cid, body : Msg(r, cmd, cid, body).cmd = cmd
  BY DEF Msg
<1>5. CASE NewKey(r)
  <2>1. inbox' = Consume(inbox, r)
    BY <1>2, <1>5 DEF NewKey, RouterTakes
  <2> QED
    BY <1>1, <1>5, <2>1, KeyTaken DEF NewKey, Receives
<1>6. CASE ForwardKey(r)
  <2>1. \E d, m : inbox' = Sent(Consume(inbox, r), d, m)
    BY <1>3, <1>6 DEF ForwardKey
  <2> QED
    BY <1>1, <1>6, <2>1, KeyTaken DEF ForwardKey, Receives
<1>7. CASE NewExtend(r)
  <2>1. PICK m : /\ m.cmd = "ENC_CIRCUIT_EXTEND_DONE"
                 /\ inbox' = Sent(Consume(inbox, r), Head(inbox[r]).from, m)
    BY <1>3, <1>4, <1>7 DEF NewExtend
  <2> QED
    BY <1>1, <1>7, <2>1, HandedOn, SendsToNodes DEF NewExtend
<1>8. CASE ForwardExtend(r)
  <2>1. PICK m : /\ m.cmd = "ENC_CIRCUIT_EXTEND"
                 /\ inbox' = Sent(Consume(inbox, r), entry[r].nextHop, m)
    BY <1>3, <1>4, <1>8 DEF ForwardExtend, Onward
  <2> QED
    BY <1>1, <1>8, <2>1, HandedOn, SendsToNodes DEF ForwardExtend
<1>9. CASE ForwardDone(r)
  <2>1. PICK m : /\ m.cmd = "ENC_CIRCUIT_EXTEND_DONE"
                 /\ inbox' = Sent(Consume(inbox, r), entry[r].circuitRequesterAddr, m)
    BY <1>3, <1>4, <1>9 DEF ForwardDone
  <2> QED
    BY <1>1, <1>9, <2>1, HandedOn, SendsToNodes DEF ForwardDone
<1>10. ~ RelayFwd(r) /\ ~ ExitFwd(r) /\ ~ RelayBack(r) /\ ~ RawReply(r)
  BY <1>1, NoRelayYet DEF RelayFwd, ExitFwd, RelayBack
<1> QED
  BY <1>5, <1>6, <1>7, <1>8, <1>9, <1>10 DEF UdpRead

\* The extend message finds room behind the key.
LEMMA AskedForSure ==
  ASSUME Parts, up = Router, RcvBuf >= 2, SendExtend
  PROVE  Awaited'
<1>1. /\ phase = "extend" /\ Building /\ ProxyRuns /\ ControlOK
      /\ inbox \in [Node -> Seq(Message)]
  BY PartsTypes DEF SendExtend, Building, ProxyRuns, TypeOK, Parts
<1>2. TOR_CCt_HOPs[1] \in Node
  BY <1>1, Path
<1>3. Len(inbox[TOR_CCt_HOPs[1]]) < RcvBuf
  <2>1. Len(inbox[TOR_CCt_HOPs[1]]) <= 1 /\ Len(inbox[TOR_CCt_HOPs[1]]) \in Nat
    BY <1>1, <1>2, OneInAQueue
  <2> QED
    BY <2>1, Numbers
<1>4. PICK m : m.cmd = "ENC_CIRCUIT_EXTEND" /\ inbox' = Sent(inbox, TOR_CCt_HOPs[1], m)
  BY DEF SendExtend, ToFirstHop, Msg
<1> QED
  BY <1>1, <1>2, <1>3, <1>4, ArrivesForSure

\* A router takes from its raw socket and puts nothing there.
LEMMA TakesFromRaw ==
  ASSUME Parts, OnlyReplies, NEW r \in Router, UdpRead(r) \/ RawReply(r)
  PROVE  OnlyReplies'
<1>1. raw \in [Router -> Seq(Packet \cup IcmpError)]
  BY PartsTypes DEF TypeOK
<1>2. \/ raw' = raw
      \/ raw' = [raw EXCEPT ![r] = << >>]
      \/ raw[r] # << >> /\ raw' = [raw EXCEPT ![r] = Tail(raw[r])]
  BY DEF UdpRead, NewKey, ForwardKey, NewExtend, ForwardExtend, ForwardDone, RelayFwd, ExitFwd,
         RelayBack, RawReply, RouterSends, RouterTakes, RouterEnds
<1>3. CASE raw' = raw
  BY <1>3 DEF OnlyReplies
<1>4. CASE raw' = [raw EXCEPT ![r] = << >>]
  <2>1. << >> \in Seq(Replies)
    OBVIOUS
  <2> QED
    BY <1>1, <1>4, <2>1 DEF OnlyReplies
<1>5. CASE raw[r] # << >> /\ raw' = [raw EXCEPT ![r] = Tail(raw[r])]
  <2>1. Tail(raw[r]) \in Seq(Replies)
    BY <1>5, SeqElements DEF OnlyReplies
  <2> QED
    BY <1>1, <1>5, <2>1 DEF OnlyReplies
<1> QED
  BY <1>2, <1>3, <1>4, <1>5

\* What the Internet answers is a reply.
LEMMA RepliesToRaw ==
  ASSUME Parts, OnlyReplies, NEW q \in world, InternetReplies(q)
  PROVE  OnlyReplies'
<1>1. raw \in [Router -> Seq(Packet \cup IcmpError)] /\ world \subseteq Packet
  BY PartsTypes DEF TypeOK
<1>2. PICK p : p = Answering(q, "reply")
  OBVIOUS
<1>3. p \in Replies
  BY <1>1, <1>2 DEF Packet, Replies, Answering
<1>4. CASE q.saddr \in up
  <2>1. up \subseteq Router
    BY DEF Parts, ControlOK
  <2>2. PICK x \in Router : x = q.saddr
    BY <1>4, <2>1
  <2>3. raw' = [raw EXCEPT ![x] = Append(raw[x], p)]
    BY <1>2, <1>4, <2>2 DEF InternetReplies, ComesBack
  <2>4. Append(raw[x], p) \in Seq(Replies)
    BY <1>3, SeqElements DEF OnlyReplies
  <2> QED
    BY <1>1, <2>3, <2>4 DEF OnlyReplies
<1>5. CASE q.saddr \notin up
  BY <1>5 DEF InternetReplies, ComesBack, OnlyReplies
<1> QED
  BY <1>4, <1>5

LEMMA WaitsOn ==
  ASSUME Parts, [Next]_vars, faults' = 0, NothingStalls, RcvBuf >= 2
  PROVE  NothingStalls'
<1>1. faults \in Nat
  BY Numbers DEF Parts, ControlOK
<1>2. CASE UNCHANGED vars
  BY <1>2 DEF vars, routerVars, proxyVars, NothingStalls, OnlyReplies, Awaited
<1>3. CASE Next
  <2>1. /\ Parts'
        /\ \A r \in up \ up' :
             \/ faults' = faults + 1
             \/ r = Exit /\ raw[r] # << >> /\ Head(raw[r]).type = "error"
    BY <1>3, NextParts
  <2>2. faults' = faults \/ faults' = faults + 1
    BY <1>3 DEF Next, Build, BuildStart, SendKey, SendExtend, AwaitDone, OpenTunnel, TunnelRead,
                SocketRead, UserPings, UdpRead, NewKey, ForwardKey, NewExtend, ForwardExtend,
                ForwardDone, RelayFwd, ExitFwd, RelayBack, RawReply, Internet,
                InternetReplies, Failure, OpenTunnelFails, InternetLoses, InternetRefuses,
                RouterIsKilled
  <2>3. faults = 0 /\ up' = up /\ up = Router /\ phase # "exited" /\ OnlyReplies
    <3>1. /\ faults = 0 /\ faults' # faults + 1
          /\ up = Router /\ phase # "exited" /\ OnlyReplies
      BY <1>1, <2>2 DEF NothingStalls
    <3>2. up' \subseteq Router
      BY <2>1 DEF Parts, ControlOK
    <3>3. ASSUME NEW r \in up \ up'
          PROVE  FALSE
      <4>1. raw[r] # << >> /\ Head(raw[r]).type = "error"
        BY <2>1, <3>1
      <4>2. Head(raw[r]) \in Replies
        BY <3>1, <4>1, SeqElements DEF OnlyReplies
      <4> QED
        BY <4>1, <4>2 DEF Replies
    <3> QED
      BY <3>1, <3>2, <3>3
  <2>4. CASE Build
    BY <2>3, <2>4, AskedForSure DEF Build, BuildStart, SendKey, AwaitDone, OpenTunnel,
                                    SendExtend, NothingStalls, OnlyReplies, routerVars
  <2>5. CASE TunnelRead \/ SocketRead \/ \E h \in Host : UserPings(h)
    BY <2>3, <2>5 DEF TunnelRead, SocketRead, UserPings, NothingStalls, OnlyReplies,
                      routerVars
  <2>6. CASE \E r \in Router : UdpRead(r) \/ RawReply(r)
    <3>1. PICK r \in Router : UdpRead(r) \/ RawReply(r)
      BY <2>6
    <3>2. r \in up /\ ~ RouterEnds(r)
      BY <2>3 DEF RouterEnds
    <3>3. phase' = phase
      BY <3>1, <3>2 DEF UdpRead, NewKey, ForwardKey, NewExtend, ForwardExtend, ForwardDone,
                        RelayFwd, ExitFwd, RelayBack, RawReply, RouterSends, RouterTakes,
                        proxyVars
    <3> QED
      BY <2>3, <3>1, <3>3, PassedOn, TakesFromRaw DEF NothingStalls
  <2>7. CASE Internet
    <3>1. PICK q \in world : InternetReplies(q)
      BY <2>7 DEF Internet
    <3>2. OnlyReplies'
      BY <2>3, <3>1, RepliesToRaw
    <3> QED
      BY <2>3, <3>1, <3>2 DEF InternetReplies, proxyVars, NothingStalls, Awaited
  <2>8. ~ Failure
    BY <1>1, <2>3 DEF Failure, OpenTunnelFails, InternetLoses, InternetRefuses, RouterIsKilled
  <2> QED
    BY <1>3, <2>4, <2>5, <2>6, <2>7, <2>8 DEF Next
<1> QED
  BY <1>2, <1>3

\* Only a failure can keep the circuit of stage 6 from being built, or put into a raw
\* socket what fails its router's assertion, when a receive buffer holds two datagrams:
\* the proxy sends a key and an extend message without waiting for an answer in between
\* (proxy.cc:346-353), and with room for one the second may be lost.
THEOREM BuildsUnlessFailed == RcvBuf >= 2 => (Spec => []NothingStalls)
<1> SUFFICES ASSUME RcvBuf >= 2
             PROVE  Spec => []NothingStalls
  OBVIOUS
<1>1. Init => NothingStalls
  <2>1. << >> \in Seq(Replies)
    OBVIOUS
  <2> QED
    BY <2>1 DEF Init, NothingStalls, OnlyReplies
<1>2. Parts /\ NothingStalls /\ [Next]_vars => NothingStalls'
  BY WaitsOn DEF NothingStalls
<1> QED
  BY <1>1, <1>2, PartsInvariant, PTL DEF Spec

-----------------------------------------------------------------------------
(* The bodies that the datagrams of each queue carry.                      *)

BodiesOf(q) == [k \in DOMAIN q |-> q[k].body]
Bodies(q)   == [n \in Node |-> BodiesOf(q[n])]

LEMMA BodiesSeq ==
  ASSUME NEW M, NEW q \in Seq(M), NEW B, \A m \in M : m.body \in B
  PROVE  /\ Len(BodiesOf(q)) = Len(q) /\ DOMAIN BodiesOf(q) = 1 .. Len(q)
         /\ BodiesOf(q) \in Seq(B)
         /\ \A k \in 1 .. Len(q) : BodiesOf(q)[k] = q[k].body
<1>1. Len(q) \in Nat /\ DOMAIN q = 1 .. Len(q) /\ \A k \in 1 .. Len(q) : q[k] \in M
  OBVIOUS
<1>2. /\ DOMAIN BodiesOf(q) = 1 .. Len(q)
      /\ \A k \in 1 .. Len(q) : BodiesOf(q)[k] = q[k].body /\ BodiesOf(q)[k] \in B
  BY <1>1 DEF BodiesOf
<1>3. BodiesOf(q) \in [1 .. Len(q) -> B]
  BY <1>1, <1>2 DEF BodiesOf
<1> QED
  BY <1>1, <1>2, <1>3

LEMMA BodiesRead ==
  ASSUME NEW M, NEW q \in Seq(M), q # << >>
  PROVE  /\ BodiesOf(q) # << >> /\ Head(BodiesOf(q)) = Head(q).body
         /\ BodiesOf(Tail(q)) = Tail(BodiesOf(q))
<1>1. PICK z : z = Tail(q)
  OBVIOUS
<1>2. /\ z \in Seq(M) /\ Len(z) = Len(q) - 1 /\ Len(q) \in Nat \ {0} /\ q[1] = Head(q)
      /\ \A k \in 1 .. Len(z) : z[k] = q[k + 1] /\ k + 1 \in 1 .. Len(q)
  BY <1>1
<1>3. PICK p, B : p = BodiesOf(q) /\ \A x \in M : x.body \in B
  <2>1. \E B : \A x \in M : x.body \in B
    <3>1. \A x \in M : x.body \in {y.body : y \in M}
      OBVIOUS
    <3> QED
      BY <3>1
  <2> QED
    BY <2>1
<1>4. PICK y : y = BodiesOf(z)
  OBVIOUS
<1>5. /\ p \in Seq(B) /\ Len(p) = Len(q) /\ \A k \in 1 .. Len(q) : p[k] = q[k].body
      /\ y \in Seq(B) /\ Len(y) = Len(z) /\ \A k \in 1 .. Len(z) : y[k] = z[k].body
  BY <1>2, <1>3, <1>4, BodiesSeq
<1>6. 1 \in 1 .. Len(q) /\ p # << >> /\ Head(p) = p[1]
  BY <1>2, <1>5
<1>7. Head(p) = Head(q).body
  BY <1>2, <1>5, <1>6
<1>8. y = Tail(p)
  <2>1. Len(p) \in Nat \ {0} /\ Len(y) = Len(p) - 1
    BY <1>2, <1>5
  <2>2. \A k \in 1 .. Len(y) : y[k] = p[k + 1]
    BY <1>2, <1>5
  <2>3. /\ Tail(p) \in Seq(B) /\ Len(Tail(p)) = Len(y)
        /\ \A k \in 1 .. Len(y) : Tail(p)[k] = p[k + 1]
    BY <1>5, <2>1
  <2> QED
    BY <1>5, <2>2, <2>3, SeqEqual
<1> QED
  BY <1>1, <1>3, <1>4, <1>6, <1>7, <1>8

LEMMA BodiesAdded ==
  ASSUME NEW M, NEW q \in Seq(M), NEW m \in M
  PROVE  BodiesOf(Append(q, m)) = Append(BodiesOf(q), m.body)
<1>1. PICK z : z = Append(q, m)
  OBVIOUS
<1>2. /\ z \in Seq(M) /\ Len(z) = Len(q) + 1 /\ Len(q) \in Nat /\ z[Len(z)] = m
      /\ \A k \in 1 .. Len(z) : k # Len(z) => z[k] = q[k] /\ k \in 1 .. Len(q)
  BY <1>1
<1>3. PICK p, B : p = BodiesOf(q) /\ \A x \in M : x.body \in B
  <2>1. \E B : \A x \in M : x.body \in B
    <3>1. \A x \in M : x.body \in {y.body : y \in M}
      OBVIOUS
    <3> QED
      BY <3>1
  <2> QED
    BY <2>1
<1>4. PICK y : y = BodiesOf(z)
  OBVIOUS
<1>5. PICK b : b = m.body
  OBVIOUS
<1>6. /\ p \in Seq(B) /\ Len(p) = Len(q) /\ \A k \in 1 .. Len(q) : p[k] = q[k].body
      /\ y \in Seq(B) /\ Len(y) = Len(z) /\ \A k \in 1 .. Len(z) : y[k] = z[k].body
      /\ b \in B
  BY <1>2, <1>3, <1>4, <1>5, BodiesSeq
<1>7. \A k \in 1 .. Len(y) : y[k] = IF k = Len(p) + 1 THEN b ELSE p[k]
  BY <1>2, <1>5, <1>6
<1>8. /\ Append(p, b) \in Seq(B) /\ Len(Append(p, b)) = Len(y)
      /\ \A k \in 1 .. Len(y) : Append(p, b)[k] = IF k = Len(p) + 1 THEN b ELSE p[k]
  BY <1>2, <1>6
<1>9. y = Append(p, b)
  BY <1>6, <1>7, <1>8, SeqEqual
<1> QED
  BY <1>1, <1>3, <1>4, <1>5, <1>9

\* Reading, sending and losing datagrams does the same to the bodies.
LEMMA BodiesType ==
  ASSUME NEW M, NEW q \in [Node -> Seq(M)], NEW B, \A m \in M : m.body \in B
  PROVE  /\ Bodies(q) \in [Node -> Seq(B)]
         /\ \A n \in Node : Bodies(q)[n] = BodiesOf(q[n]) /\ Len(Bodies(q)[n]) = Len(q[n])
BY BodiesSeq DEF Bodies

LEMMA BodiesConsumed ==
  ASSUME NEW M, NEW q \in [Node -> Seq(M)], NEW n \in Node, q[n] # << >>
  PROVE  /\ Consume(q, n) \in [Node -> Seq(M)]
         /\ Bodies(q)[n] # << >> /\ Head(Bodies(q)[n]) = Head(q[n]).body
         /\ Bodies(Consume(q, n)) = Consume(Bodies(q), n)
<1>1. PICK x : x = Tail(q[n])
  OBVIOUS
<1>2. x \in Seq(M)
  BY <1>1, SeqElements
<1>3. PICK i : i = Bodies(q)
  OBVIOUS
<1>4. PICK y : y = Tail(i[n])
  OBVIOUS
<1>5. i[n] # << >> /\ Head(i[n]) = Head(q[n]).body /\ y = BodiesOf(x)
  <2>1. i[n] = BodiesOf(q[n])
    BY <1>3 DEF Bodies
  <2> QED
    BY <1>1, <1>4, <2>1, BodiesRead
<1>6. Consume(q, n) = [q EXCEPT ![n] = x] /\ Consume(i, n) = [i EXCEPT ![n] = y]
  BY <1>1, <1>4 DEF Consume
<1>7. Bodies([q EXCEPT ![n] = x]) = [i EXCEPT ![n] = y]
  BY <1>3, <1>5 DEF Bodies
<1>8. [q EXCEPT ![n] = x] \in [Node -> Seq(M)]
  BY <1>2
<1> QED
  BY <1>3, <1>5, <1>6, <1>7, <1>8

LEMMA BodiesDelivered ==
  ASSUME NEW M, NEW q \in [Node -> Seq(M)], NEW live \in SUBSET Node, NEW b, NEW n,
         NEW m \in M
  PROVE  Bodies(Deliver(q, live, b, n, m)) = Deliver(Bodies(q), live, b, n, m.body)
<1>1. PICK i : i = Bodies(q)
  OBVIOUS
<1>2. PICK c : c = m.body
  OBVIOUS
<1>3. n \in Node => i[n] = BodiesOf(q[n]) /\ Len(i[n]) = Len(q[n])
  <2>1. PICK B : B = {x.body : x \in M}
    OBVIOUS
  <2>2. \A x \in M : x.body \in B
    BY <2>1
  <2>3. \A e \in Node : Bodies(q)[e] = BodiesOf(q[e]) /\ Len(Bodies(q)[e]) = Len(q[e])
    BY <2>2, BodiesType
  <2> QED
    BY <1>1, <2>3
<1>4. CASE n \in live /\ Len(q[n]) < b
  <2>1. PICK x : x = Append(q[n], m)
    OBVIOUS
  <2>2. PICK y : y = Append(i[n], c)
    OBVIOUS
  <2>3. n \in Node /\ y = BodiesOf(x)
    BY <1>2, <1>3, <1>4, <2>1, <2>2, BodiesAdded
  <2>4. /\ Deliver(q, live, b, n, m) = [q EXCEPT ![n] = x]
        /\ Deliver(i, live, b, n, c) = [i EXCEPT ![n] = y]
    BY <1>3, <1>4, <2>1, <2>2 DEF Deliver
  <2>5. Bodies([q EXCEPT ![n] = x]) = [i EXCEPT ![n] = y]
    BY <1>1, <2>3 DEF Bodies
  <2> QED
    BY <1>1, <1>2, <2>4, <2>5
<1>5. CASE ~ (n \in live /\ Len(q[n]) < b)
  BY <1>1, <1>2, <1>3, <1>5 DEF Deliver
<1> QED
  BY <1>4, <1>5

LEMMA BodiesCleared ==
  ASSUME NEW M, NEW q \in [Node -> Seq(M)], NEW n \in Node
  PROVE  Bodies([q EXCEPT ![n] = << >>]) = [Bodies(q) EXCEPT ![n] = << >>]
<1>1. BodiesOf(<< >>) = << >>
  BY DEF BodiesOf
<1>2. PICK o : o = << >>
  OBVIOUS
<1> QED
  BY <1>1, <1>2 DEF Bodies

\* What TakeDatagram and PutDatagram say of datagrams, for the packets inside bodies.
LEMMA TakeBody ==
  ASSUME NEW S, NEW t, NEW d, NEW q, NEW a, NEW w, Tracked(S, t, d, Carried(Bodies(q)), a, w),
         NEW M, q \in [Node -> Seq(M)], NEW n \in Node, q[n] # << >>
  PROVE  /\ Head(q[n]).body.pkt \in S
         /\ Tracked(S, t, d, Carried(Bodies(Consume(q, n))), a, w)
         /\ Absent(Head(q[n]).body.pkt.id, PingsIn(t, d, Carried(Bodies(Consume(q, n))), a, w))
<1>1. PICK B : B = {m.body : m \in M}
  OBVIOUS
<1>2. PICK i : i = Bodies(q)
  OBVIOUS
<1>3. i \in [Node -> Seq(B)]
  <2>1. \A m \in M : m.body \in B
    BY <1>1
  <2> QED
    BY <1>2, <2>1, BodiesType
<1>4. i[n] # << >> /\ Head(i[n]) = Head(q[n]).body /\ Bodies(Consume(q, n)) = Consume(i, n)
  BY <1>2, BodiesConsumed
<1>5. /\ Head(i[n]).pkt \in S
      /\ Tracked(S, t, d, Carried(Consume(i, n)), a, w)
      /\ Absent(Head(i[n]).pkt.id, PingsIn(t, d, Carried(Consume(i, n)), a, w))
  BY <1>2, <1>3, <1>4, TakeDatagram
<1> QED
  BY <1>4, <1>5

LEMMA PutBody ==
  ASSUME NEW S, NEW t, NEW d, NEW q, NEW a, NEW w, Tracked(S, t, d, Carried(Bodies(q)), a, w),
         NEW M, q \in [Node -> Seq(M)], NEW live \in SUBSET Node, NEW b, NEW n,
         NEW m \in M, m.body.pkt \in S,
         Absent(m.body.pkt.id, PingsIn(t, d, Carried(Bodies(q)), a, w))
  PROVE  Tracked(S, t, d, Carried(Bodies(Deliver(q, live, b, n, m))), a, w)
<1>1. PICK B : B = {x.body : x \in M}
  OBVIOUS
<1>2. PICK i : i = Bodies(q)
  OBVIOUS
<1>3. PICK c : c = m.body
  OBVIOUS
<1>4. i \in [Node -> Seq(B)] /\ c \in B
  <2>1. \A x \in M : x.body \in B
    BY <1>1
  <2> QED
    BY <1>2, <1>3, <2>1, BodiesType
<1>5. Bodies(Deliver(q, live, b, n, m)) = Deliver(i, live, b, n, c)
  BY <1>2, <1>3, BodiesDelivered
<1>6. Tracked(S, t, d, Carried(Deliver(i, live, b, n, c)), a, w)
  BY <1>2, <1>3, <1>4, PutDatagram
<1> QED
  BY <1>5, <1>6

-----------------------------------------------------------------------------
(* The packets of the pings.                                               *)

\* A packet of a ping that was sent: to its host or, answered, from its host.  What
\* comes back instead may be an error.
Genuine ==
  {p \in Packet \cup IcmpError :
     /\ p.id \in DOMAIN pinged
     /\ p.type = "request" => p.daddr = pinged[p.id]
     /\ p.type = "reply" => p.saddr = pinged[p.id]}

\* Every packet is one, and none is there twice, under whatever layers it is.
PingsOnce == Tracked(Genuine, tun, delivered, Carried(Bodies(inbox)), raw, world)

LEMMA SameGenuine == pinged' = pinged => Genuine' = Genuine
BY DEF Genuine

\* On its way a request gets another source, a reply another destination.
LEMMA GenuineOnward ==
  ASSUME NEW p \in Genuine, NEW a \in IP
  PROVE  /\ p.type = "request" => /\ [p EXCEPT !.saddr = a] \in Genuine
                                  /\ [p EXCEPT !.saddr = a].id = p.id
         /\ p.type = "reply" => /\ [p EXCEPT !.daddr = a] \in Genuine
                                /\ [p EXCEPT !.daddr = a].id = p.id
<1>1. /\ p.type \in {"request", "reply"} => p \in Packet
      /\ p.id \in DOMAIN pinged
      /\ p.type = "request" => p.daddr = pinged[p.id]
      /\ p.type = "reply" => p.saddr = pinged[p.id]
  BY DEF Genuine, Packet, IcmpError
<1>2. ASSUME p.type = "request"
      PROVE  [p EXCEPT !.saddr = a] \in Genuine /\ [p EXCEPT !.saddr = a].id = p.id
  <2>1. PICK z : z = [p EXCEPT !.saddr = a]
    OBVIOUS
  <2>2. z \in Packet /\ z.id = p.id /\ z.type = "request" /\ z.daddr = p.daddr
    BY <1>1, <1>2, <2>1 DEF Packet
  <2>3. z \in Genuine
    BY <1>1, <1>2, <2>2 DEF Genuine
  <2> QED
    BY <2>1, <2>2, <2>3
<1>3. ASSUME p.type = "reply"
      PROVE  [p EXCEPT !.daddr = a] \in Genuine /\ [p EXCEPT !.daddr = a].id = p.id
  <2>1. PICK z : z = [p EXCEPT !.daddr = a]
    OBVIOUS
  <2>2. z \in Packet /\ z.id = p.id /\ z.type = "reply" /\ z.saddr = p.saddr
    BY <1>1, <1>3, <2>1 DEF Packet
  <2>3. z \in Genuine
    BY <1>1, <1>3, <2>2 DEF Genuine
  <2> QED
    BY <2>1, <2>2, <2>3
<1> QED
  BY <1>1, <1>2, <1>3

\* The host answers a request, or an error does.
LEMMA GenuineAnswer ==
  ASSUME NEW p \in Genuine, p.type = "request", NEW type \in {"reply", "error"}
  PROVE  Answering(p, type) \in Genuine /\ Answering(p, type).id = p.id
<1>1. p \in Packet /\ p.id \in DOMAIN pinged /\ p.daddr = pinged[p.id]
  BY DEF Genuine, Packet, IcmpError
<1>2. PICK a, b : a = p.daddr /\ b = p.saddr
  OBVIOUS
<1>3. PICK z : z = [p EXCEPT !.type = type, !.saddr = a, !.daddr = b]
  OBVIOUS
<1>4. z \in Packet \cup IcmpError /\ z.id = p.id /\ z.type = type /\ z.saddr = p.daddr
  BY <1>1, <1>2, <1>3 DEF Packet, IcmpError
<1>5. z \in Genuine
  BY <1>1, <1>4 DEF Genuine
<1> QED
  BY <1>2, <1>3, <1>4, <1>5 DEF Answering

LEMMA GenuineRequest ==
  ASSUME Parts, NEW h \in Host, UserPings(h), NEW p,
         p = [id |-> Len(pinged) + 1, type |-> "request", saddr |-> Eth(0), daddr |-> h]
  PROVE  /\ Genuine \subseteq Genuine' /\ p \in Genuine'
         /\ \A q \in Genuine : q.id # p.id
<1>1. PICK k : k = Len(pinged) + 1
  OBVIOUS
<1>2. pinged' = Append(pinged, h) /\ pinged \in Seq(Host) /\ Len(pinged) < MaxPings
  BY DEF UserPings, Parts, ControlOK
<1>3. /\ k \in Ping /\ k \notin DOMAIN pinged /\ k \in DOMAIN pinged' /\ pinged'[k] = h
      /\ \A n \in DOMAIN pinged : n \in DOMAIN pinged' /\ pinged'[n] = pinged[n]
  BY <1>1, <1>2, Numbers DEF Ping
<1>4. Genuine \subseteq Genuine'
  BY <1>3 DEF Genuine
<1>5. p \in Packet /\ p.id = k /\ p.type = "request" /\ p.daddr = h
  BY <1>1, <1>3, Numbers DEF Packet
<1>6. p \in Genuine'
  BY <1>3, <1>5 DEF Genuine
<1>7. \A q \in Genuine : q.id # k
  BY <1>3 DEF Genuine
<1> QED
  BY <1>4, <1>5, <1>6, <1>7

\* Layers are put around a packet and taken off, and it stays the same.
LEMMA PacketsKept ==
  ASSUME NEW p, NEW i, NEW j, NEW b, b = Wrapped(PacketBody(p), i, j)
  PROVE  /\ b.pkt = p /\ DecryptThisMessage(b).pkt = p
         /\ \A k : EncryptThisMessage(k, b).pkt = p
<1>1. PICK l : l = HopsFrom(i, j)
  OBVIOUS
<1>2. b = [layers |-> l, key |-> NoKey, next |-> NoAddress, pkt |-> p]
  BY <1>1 DEF Wrapped, PacketBody
<1>3. \A x : [b EXCEPT !.layers = x].pkt = p
  BY <1>2
<1> QED
  BY <1>2, <1>3 DEF DecryptThisMessage, EncryptThisMessage

LEMMA PacketsWrapped ==
  ASSUME NEW p
  PROVE  /\ \A n : OnionEncrypt(PacketBody(p), n).pkt = p
         /\ \A k : EncryptThisMessage(k, PacketBody(p)).pkt = p
<1>1. \A x : [PacketBody(p) EXCEPT !.layers = x].pkt = p
  BY DEF PacketBody
<1> QED
  BY <1>1 DEF OnionEncrypt, EncryptThisMessage

-----------------------------------------------------------------------------
(* The relaying: one lemma per action.                                     *)

\* When the building ends nothing is on its way at all.
LEMMA StartsWithNone ==
  ASSUME Parts, phase = "built", UNCHANGED <<tun, delivered, raw, inbox, world>>
  PROVE  PingsOnce'
<1>1. PICK o : o = << >>
  OBVIOUS
<1>2. /\ tun = o /\ delivered = o /\ world = {} /\ inbox = [n \in Node |-> o]
      /\ raw = [r \in Router |-> o]
  BY <1>1 DEF Parts, BuildInv, Building, Resting, Silent
<1>3. BodiesOf(o) = o /\ Pkts(o) = o
  BY <1>1 DEF BodiesOf, Pkts
<1>4. Bodies(inbox) = [n \in Node |-> o]
  BY <1>2, <1>3 DEF Bodies
<1>5. Carried([n \in Node |-> o]) = [n \in Node |-> o]
  BY <1>3 DEF Carried
<1>6. Tracked(Genuine', o, o, [n \in Node |-> o], [r \in Router |-> o], {})
  BY <1>1, NothingTracked
<1> QED
  BY <1>2, <1>4, <1>5, <1>6 DEF PingsOnce

LEMMA LiveNodesType == up \subseteq Router => LiveNodes \in SUBSET Node
BY Numbers DEF LiveNodes

\* A datagram with a packet that is nowhere is sent.
LEMMA SentOnce ==
  ASSUME Parts, NEW q \in [Node -> Seq(Message)], NEW t, NEW e, NEW a, NEW w,
         Tracked(Genuine, t, e, Carried(Bodies(q)), a, w), NEW n, NEW m,
         m.body.pkt \in Genuine, Absent(m.body.pkt.id, PingsIn(t, e, Carried(Bodies(q)), a, w))
  PROVE  Tracked(Genuine, t, e, Carried(Bodies(Sent(q, n, m))), a, w)
<1>1. PICK M : M = Message \cup {m}
  OBVIOUS
<1>2. q \in [Node -> Seq(M)] /\ m \in M
  <2>1. \A d \in Node : q[d] \in Seq(M)
    BY <1>1, SeqWidened
  <2> QED
    BY <1>1, <2>1
<1>3. LiveNodes \in SUBSET Node
  BY LiveNodesType DEF Parts, ControlOK
<1> QED
  BY <1>2, <1>3, PutBody DEF Sent

LEMMA RouterEndsOnce ==
  ASSUME Parts, PingsOnce, NEW r \in Router, RouterEnds(r),
         UNCHANGED <<tun, delivered, world, pinged>>
  PROVE  PingsOnce'
<1>1. /\ inbox' = [inbox EXCEPT ![r] = << >>] /\ raw' = [raw EXCEPT ![r] = << >>]
      /\ r \in Node /\ inbox \in [Node -> Seq(Message)]
  BY Numbers, PartsTypes DEF RouterEnds, TypeOK
<1>2. PICK b : b = Bodies(inbox)
  OBVIOUS
<1>3. PICK B : B = {m.body : m \in Message}
  OBVIOUS
<1>4. b \in [Node -> Seq(B)]
  <2>1. \A m \in Message : m.body \in B
    BY <1>3
  <2> QED
    BY <1>1, <1>2, <2>1, BodiesType
<1>5. PICK i : i = Carried(b)
  OBVIOUS
<1>6. Bodies(inbox') = [b EXCEPT ![r] = << >>]
  BY <1>1, <1>2, BodiesCleared
<1>7. Carried([b EXCEPT ![r] = << >>]) = [i EXCEPT ![r] = << >>]
  BY <1>1, <1>4, <1>5, DatagramsCleared
<1>8. Tracked(Genuine, tun, delivered, [i EXCEPT ![r] = << >>], [raw EXCEPT ![r] = << >>],
              world)
  BY <1>2, <1>5, QueuesCleared DEF PingsOnce
<1> QED
  BY <1>1, <1>6, <1>7, <1>8, SameGenuine DEF PingsOnce

\* A router takes a datagram and sends its packet on.
LEMMA RoutedOnce ==
  ASSUME Parts, PingsOnce, NEW r \in Router, inbox[r] # << >>, NEW asserted, NEW d, NEW m,
         RouterSends(r, asserted, d, m), UNCHANGED <<tun, delivered, world, pinged>>,
         m.body.pkt = Head(inbox[r]).body.pkt
  PROVE  PingsOnce'
<1>1. CASE ~ (asserted /\ d # NoAddress)
  BY <1>1, RouterEndsOnce DEF RouterSends
<1>2. CASE asserted /\ d # NoAddress
  <2>1. PICK q : q = Consume(inbox, r)
    OBVIOUS
  <2>2. inbox \in [Node -> Seq(Message)] /\ r \in Node
    BY Numbers, PartsTypes DEF TypeOK
  <2>3. q \in [Node -> Seq(Message)]
    BY <2>1, <2>2, BodiesConsumed
  <2>4. inbox' = Sent(q, d, m) /\ UNCHANGED <<up, raw, phase>>
    BY <1>2, <2>1 DEF RouterSends
  <2>5. /\ m.body.pkt \in Genuine
        /\ Tracked(Genuine, tun, delivered, Carried(Bodies(q)), raw, world)
        /\ Absent(m.body.pkt.id, PingsIn(tun, delivered, Carried(Bodies(q)), raw, world))
    BY <2>1, <2>2, TakeBody DEF PingsOnce
  <2>6. Tracked(Genuine, tun, delivered, Carried(Bodies(Sent(q, d, m))), raw, world)
    BY <2>3, <2>5, SentOnce
  <2> QED
    BY <2>4, <2>6, SameGenuine DEF PingsOnce
<1> QED
  BY <1>1, <1>2

LEMMA UserPingsOnce ==
  ASSUME Parts, PingsOnce, NEW h \in Host, UserPings(h)
  PROVE  PingsOnce'
<1>1. PICK p : p = [id |-> Len(pinged) + 1, type |-> "request", saddr |-> Eth(0), daddr |-> h]
  OBVIOUS
<1>2. tun' = Append(tun, p) /\ UNCHANGED <<delivered, raw, inbox, world>>
  BY <1>1 DEF UserPings, routerVars
<1>3. PICK S : S = Genuine'
  OBVIOUS
<1>4. Genuine \subseteq S /\ p \in S /\ \A q \in Genuine : q.id # p.id
  BY <1>1, <1>3, GenuineRequest
<1>5. Tracked(S, tun, delivered, Carried(Bodies(inbox)), raw, world)
  BY <1>4, TrackedWidened DEF PingsOnce
<1>6. Absent(p.id, PingsIn(tun, delivered, Carried(Bodies(inbox)), raw, world))
  BY <1>4, FreshNumber DEF PingsOnce
<1>7. Tracked(S, Append(tun, p), delivered, Carried(Bodies(inbox)), raw, world)
  BY <1>4, <1>5, <1>6, PutTun
<1> QED
  BY <1>2, <1>3, <1>7 DEF PingsOnce

LEMMA TunnelReadOnce ==
  ASSUME Parts, PingsOnce, TunnelRead
  PROVE  PingsOnce'
<1>1. PICK p : p = Head(tun)
  OBVIOUS
<1>2. PICK q : q = [p EXCEPT !.saddr = NoIP]
  OBVIOUS
<1>3. PICK m : m = Msg(Proxy, "RELAY_DATA_FWD_ENC", htons(CircuitID),
                       OnionEncrypt(PacketBody(q), noOfHops))
  OBVIOUS
<1>4. /\ tun # << >> /\ tun' = Tail(tun) /\ inbox' = Sent(inbox, TOR_CCt_HOPs[1], m)
      /\ phase = "relay" /\ UNCHANGED <<delivered, raw, world, pinged>>
  BY <1>1, <1>2, <1>3 DEF TunnelRead, ToFirstHop, routerVars
<1>5. PICK u : u = Tail(tun)
  OBVIOUS
<1>6. PICK i : i = Carried(Bodies(inbox))
  OBVIOUS
<1>7. /\ p \in Genuine /\ Tracked(Genuine, u, delivered, i, raw, world)
      /\ Absent(p.id, PingsIn(u, delivered, i, raw, world))
  BY <1>1, <1>4, <1>5, <1>6, TakeTun DEF PingsOnce
<1>8. p.type = "request"
  <2>1. ServeInv
    BY <1>4, Serving DEF Building
  <2>2. p \in Requests(Eth(0))
    BY <1>1, <1>4, <2>1, SeqElements DEF ServeInv
  <2> QED
    BY <2>2 DEF Requests
<1>9. q \in Genuine /\ q.id = p.id
  BY <1>2, <1>7, <1>8, GenuineOnward, Numbers
<1>10. m.body.pkt = q
  BY <1>3, PacketsWrapped DEF Msg
<1>11. inbox \in [Node -> Seq(Message)]
  BY PartsTypes DEF TypeOK
<1>12. Tracked(Genuine, u, delivered, Carried(Bodies(Sent(inbox, TOR_CCt_HOPs[1], m))), raw,
               world)
  BY <1>6, <1>7, <1>9, <1>10, <1>11, SentOnce
<1> QED
  BY <1>4, <1>5, <1>12, SameGenuine DEF PingsOnce

\* The proxy writes an answer to a ping that had none.
LEMMA SocketReadOnce ==
  ASSUME Parts, PingsOnce, SocketRead
  PROVE  /\ PingsOnce'
         /\ \E p \in Genuine : /\ p.type = "reply" /\ delivered' = Append(delivered, p)
                              /\ \A k \in DOMAIN delivered : delivered[k].id # p.id
<1>1. /\ phase = "relay" /\ inbox[Proxy] # << >> /\ inbox' = Consume(inbox, Proxy)
      /\ UNCHANGED <<tun, raw, world, pinged>>
  BY DEF SocketRead, routerVars
<1>2. PICK m : m = Head(inbox[Proxy])
  OBVIOUS
<1>3. /\ ~ Building /\ ControlOK /\ HopsAre(TOR_CCt_HOPs) /\ phase # "start"
      /\ Proxy \in Node /\ inbox \in [Node -> Seq(Message)]
  BY <1>1, Serving, Numbers, PartsTypes DEF Building, TypeOK
<1>4. /\ m.cmd = "RELAY_DATA_BWD_ENC"
      /\ \E i \in 1 .. noOfHops : \E p \in Replies :
           Proxy = PrevHop(i) /\ m.body = Wrapped(PacketBody(p), i, noOfHops)
  <2>1. \A i \in 1 .. noOfHops : Proxy # TOR_CCt_HOPs[i]
    BY <1>3, Numbers DEF HopsAre
  <2> QED
    BY <1>1, <1>2, <1>3, <2>1, WhatServes
<1>5. PICK p \in Replies : m.body = Wrapped(PacketBody(p), 1, noOfHops)
  BY <1>3, <1>4, PrevHopsDistinct
<1>6. PICK q : q = [p EXCEPT !.daddr = Eth(0)]
  OBVIOUS
<1>7. m.body.pkt = p /\ p \in Packet /\ PacketBody(p) \in Bare /\ p.type = "reply"
  <2>1. m.body.pkt = p
    BY <1>5, PacketsKept
  <2>2. p \in Packet /\ p.type = "reply"
    BY DEF Replies
  <2> QED
    BY <2>1, <2>2, BareBodies
<1>8. OnionOpens(m.body) /\ OnionDecrypt(m.body) = PacketBody(p)
  BY <1>3, <1>5, <1>7, ProxyUnwraps
<1>9. delivered' = Append(delivered, q)
  BY <1>2, <1>4, <1>6, <1>7, <1>8, BareBodies DEF SocketRead
<1>10. PICK i : i = Carried(Bodies(Consume(inbox, Proxy)))
  OBVIOUS
<1>11. /\ p \in Genuine /\ Tracked(Genuine, tun, delivered, i, raw, world)
       /\ Absent(p.id, PingsIn(tun, delivered, i, raw, world))
  BY <1>1, <1>2, <1>3, <1>7, <1>10, TakeBody DEF PingsOnce
<1>12. q \in Genuine /\ q.id = p.id /\ q.type = "reply"
  <2>1. q \in Genuine /\ q.id = p.id
    BY <1>6, <1>7, <1>11, GenuineOnward, Numbers
  <2>2. q \in Replies
    BY <1>6, Readdressed, Numbers
  <2> QED
    BY <2>1, <2>2 DEF Replies
<1>13. Tracked(Genuine, tun, Append(delivered, q), i, raw, world)
  BY <1>11, <1>12, PutDelivered
<1>14. \A k \in DOMAIN delivered : delivered[k].id # q.id
  BY <1>11, <1>12, DeliveredBefore
<1>15. PingsOnce'
  BY <1>1, <1>9, <1>10, <1>13, SameGenuine DEF PingsOnce
<1> QED
  BY <1>9, <1>12, <1>14, <1>15

\* The packet in the body that a router takes.
LEMMA PacketTaken ==
  ASSUME Parts, ~ Building, NEW r \in Router, inbox[r] # << >>
  PROVE  /\ PeeledAt(r).pkt = BodyAt(r).pkt
         /\ \A k : EncryptThisMessage(k, BodyAt(r)).pkt = BodyAt(r).pkt
         /\ Head(inbox[r]).cmd = "RELAY_DATA_FWD_ENC" => BodyAt(r).pkt.type = "request"
<1>1. PICK m : m = Head(inbox[r])
  OBVIOUS
<1>2. \E i \in 1 .. noOfHops : \E p \in Requests(NoIP) \cup Replies :
        /\ m.body = Wrapped(PacketBody(p), i, noOfHops)
        /\ m.cmd = "RELAY_DATA_FWD_ENC" => p \in Requests(NoIP)
  <2>1. "RELAY_DATA_FWD_ENC" # "RELAY_DATA_BWD_ENC" /\ r \in Node
    BY Numbers
  <2> QED
    BY <1>1, <2>1, WhatServes
<1>3. PICK i \in 1 .. noOfHops, p \in Requests(NoIP) \cup Replies :
        /\ m.body = Wrapped(PacketBody(p), i, noOfHops)
        /\ m.cmd = "RELAY_DATA_FWD_ENC" => p \in Requests(NoIP)
  BY <1>2
<1>4. BodyAt(r) = Wrapped(PacketBody(p), i, noOfHops)
  BY <1>1, <1>3 DEF BodyAt
<1>5. BodyAt(r).pkt = p
  BY <1>4, PacketsKept
<1>6. PeeledAt(r).pkt = p /\ \A k : EncryptThisMessage(k, BodyAt(r)).pkt = p
  BY <1>4, PacketsKept DEF PeeledAt
<1> QED
  BY <1>1, <1>3, <1>5, <1>6 DEF Requests

LEMMA RelayFwdOnce ==
  ASSUME Parts, ~ Building, PingsOnce, NEW r \in Router, RelayFwd(r)
  PROVE  PingsOnce'
<1>1. PICK a, m, d : /\ a = OpensAt(r) /\ m = Onward(r, "RELAY_DATA_FWD_ENC")
                     /\ d = entry[r].nextHop
  OBVIOUS
<1>2. /\ inbox[r] # << >> /\ RouterSends(r, a, d, m)
      /\ UNCHANGED <<tun, delivered, world, pinged>>
  BY <1>1 DEF RelayFwd, Receives
<1>3. m.body.pkt = Head(inbox[r]).body.pkt
  BY <1>1, <1>2, PacketTaken DEF Onward, Msg, BodyAt
<1> QED
  BY <1>2, <1>3, RoutedOnce

LEMMA RelayBackOnce ==
  ASSUME Parts, ~ Building, PingsOnce, NEW r \in Router, RelayBack(r)
  PROVE  PingsOnce'
<1>1. PICK a, m, d : /\ a = (entry[r].key # NoKey) /\ m = BackwardMsg(r, BodyAt(r))
                     /\ d = entry[r].circuitRequesterAddr
  OBVIOUS
<1>2. /\ inbox[r] # << >> /\ RouterSends(r, a, d, m)
      /\ UNCHANGED <<tun, delivered, world, pinged>>
  BY <1>1 DEF RelayBack, Receives
<1>3. m.body.pkt = Head(inbox[r]).body.pkt
  BY <1>1, <1>2, PacketTaken DEF BackwardMsg, Msg, BodyAt
<1> QED
  BY <1>2, <1>3, RoutedOnce

LEMMA ExitFwdOnce ==
  ASSUME Parts, ~ Building, PingsOnce, NEW r \in Router, ExitFwd(r)
  PROVE  PingsOnce'
<1>1. PICK p, q : p = BodyAt(r).pkt /\ q = [p EXCEPT !.saddr = Eth(r)]
  OBVIOUS
<1>2. /\ inbox[r] # << >> /\ p.type = "request" /\ PeeledAt(r).pkt = p
      /\ UNCHANGED <<tun, delivered, pinged>>
  BY <1>1, PacketTaken DEF ExitFwd, Receives
<1>3. \/ RouterEnds(r) /\ world' = world
      \/ inbox' = Consume(inbox, r) /\ raw' = raw /\ world' = world \cup {q}
  BY <1>1, <1>2 DEF ExitFwd, RouterTakes
<1>4. CASE RouterEnds(r) /\ world' = world
  BY <1>2, <1>4, RouterEndsOnce
<1>5. CASE inbox' = Consume(inbox, r) /\ raw' = raw /\ world' = world \cup {q}
  <2>1. PICK i : i = Carried(Bodies(Consume(inbox, r)))
    OBVIOUS
  <2>2. r \in Node /\ Eth(r) \in IP /\ inbox \in [Node -> Seq(Message)]
    BY Numbers, PartsTypes DEF TypeOK
  <2>3. /\ p \in Genuine /\ Tracked(Genuine, tun, delivered, i, raw, world)
        /\ Absent(p.id, PingsIn(tun, delivered, i, raw, world))
    BY <1>1, <1>2, <2>1, <2>2, TakeBody DEF PingsOnce, BodyAt
  <2>4. q \in Genuine /\ q.id = p.id
    BY <1>1, <1>2, <2>2, <2>3, GenuineOnward
  <2>5. Tracked(Genuine, tun, delivered, i, raw, world \cup {q})
    BY <2>3, <2>4, PutWorld
  <2> QED
    BY <1>2, <1>5, <2>1, <2>5, SameGenuine DEF PingsOnce
<1> QED
  BY <1>3, <1>4, <1>5

LEMMA RawReplyOnce ==
  ASSUME Parts, ~ Building, PingsOnce, NEW r \in Router, RawReply(r)
  PROVE  PingsOnce'
<1>1. PICK p, q : p = Head(raw[r]) /\ q = [p EXCEPT !.daddr = NoIP]
  OBVIOUS
<1>2. PICK m, d : m = BackwardMsg(r, PacketBody(q)) /\ d = entry[r].circuitRequesterAddr
  OBVIOUS
<1>3. /\ raw[r] # << >> /\ UNCHANGED <<tun, delivered, world, pinged>>
      /\ \/ /\ IsPing(p)
            /\ inbox' = Sent(inbox, d, m) /\ raw' = [raw EXCEPT ![r] = Tail(@)]
         \/ RouterEnds(r)
  BY <1>1, <1>2 DEF RawReply
<1>4. inbox \in [Node -> Seq(Message)] /\ (IsPing(p) => p.type = "reply")
  <2>1. raw[r] \in Seq(Replies \cup IcmpError)
    BY Serving DEF ServeInv
  <2>2. p \in Replies \cup IcmpError
    BY <1>1, <1>3, <2>1, SeqElements
  <2> QED
    BY <2>2, PartsTypes DEF Replies, IcmpError, IsPing, TypeOK
<1>5. PICK c : c = [raw EXCEPT ![r] = Tail(@)]
  OBVIOUS
<1>6. PICK i : i = Carried(Bodies(inbox))
  OBVIOUS
<1>7. /\ p \in Genuine /\ Tracked(Genuine, tun, delivered, i, c, world)
      /\ Absent(p.id, PingsIn(tun, delivered, i, c, world))
  BY <1>1, <1>3, <1>5, <1>6, TakeRaw DEF PingsOnce
<1>8. ASSUME IsPing(p)
      PROVE  Tracked(Genuine, tun, delivered, Carried(Bodies(Sent(inbox, d, m))), c, world)
  <2>1. m.body.pkt = q
    BY <1>2, PacketsWrapped DEF BackwardMsg, Msg
  <2>2. q \in Genuine /\ q.id = p.id
    BY <1>1, <1>4, <1>7, <1>8, GenuineOnward, Numbers
  <2> QED
    BY <1>4, <1>6, <1>7, <2>1, <2>2, SentOnce
<1> QED
  BY <1>3, <1>5, <1>8, RouterEndsOnce, SameGenuine DEF PingsOnce

LEMMA InternetOnce ==
  ASSUME Parts, ~ Building, PingsOnce, NEW q \in world,
         InternetReplies(q) \/ InternetLoses(q) \/ InternetRefuses(q)
  PROVE  PingsOnce'
<1>1. PICK type, p : /\ type = IF InternetRefuses(q) THEN "error" ELSE "reply"
                     /\ p = Answering(q, type)
  OBVIOUS
<1>2. PICK v : v = world \ {q}
  OBVIOUS
<1>3. /\ world' = v /\ UNCHANGED <<tun, delivered, inbox, pinged>>
      /\ raw' = raw \/ (q.saddr \in up /\ raw' = [raw EXCEPT ![q.saddr] = Append(@, p)])
  <2>1. ComesBack(q, type) \/ raw' = raw
    BY <1>1 DEF InternetReplies, InternetLoses, InternetRefuses, routerVars
  <2>2. raw' = raw \/ (q.saddr \in up /\ raw' = [raw EXCEPT ![q.saddr] = Append(@, p)])
    BY <1>1, <2>1 DEF ComesBack
  <2> QED
    BY <1>2, <2>2 DEF InternetReplies, InternetLoses, InternetRefuses, proxyVars
<1>4. PICK i : i = Carried(Bodies(inbox))
  OBVIOUS
<1>5. /\ q \in Genuine /\ Tracked(Genuine, tun, delivered, i, raw, v)
      /\ Absent(q.id, PingsIn(tun, delivered, i, raw, v))
  BY <1>2, <1>4, TakeWorld DEF PingsOnce
<1>6. up \subseteq Router /\ q.type = "request"
  BY Serving DEF ServeInv, ControlOK, Requests
<1>7. p \in Genuine /\ p.id = q.id
  <2>1. type \in {"reply", "error"}
    BY <1>1
  <2> QED
    BY <1>1, <1>5, <1>6, <2>1, GenuineAnswer
<1>8. Tracked(Genuine, tun, delivered, i, raw', v)
  <2>1. ASSUME q.saddr \in up, raw' = [raw EXCEPT ![q.saddr] = Append(@, p)]
        PROVE  Tracked(Genuine, tun, delivered, i, raw', v)
    <3>1. PICK n \in Router : n = q.saddr
      BY <1>6, <2>1
    <3>2. PICK c : c = [raw EXCEPT ![n] = Append(@, p)]
      OBVIOUS
    <3>3. Absent(p.id, PingsIn(tun, delivered, i, raw, v))
      BY <1>5, <1>7
    <3>4. Tracked(Genuine, tun, delivered, i, c, v)
      BY <1>5, <1>7, <3>2, <3>3, PutRaw
    <3> QED
      BY <2>1, <3>1, <3>2, <3>4
  <2> QED
    BY <1>3, <1>5, <2>1
<1> QED
  BY <1>2, <1>3, <1>4, <1>8, SameGenuine DEF PingsOnce

-----------------------------------------------------------------------------
(* Every packet is a ping.                                                 *)

\* Only the opening of the tunnel, or its failure, ends the building.
LEMMA HowBuildingEnds ==
  ASSUME Parts, Building, [Next]_vars, ~ Building'
  PROVE  phase = "built" /\ UNCHANGED <<tun, delivered, raw, inbox, world>>
<1>1. phase # "relay"
  BY DEF Building
<1>2. \A r, a, d, m :
        RouterTakes(r, a) \/ RouterSends(r, a, d, m) \/ RouterEnds(r) => phase' = phase
  BY <1>1 DEF RouterTakes, RouterSends, RouterEnds
<1>3. phase' # phase
  BY DEF Building
<1>4. Parts'
  BY NextParts, StutterParts
<1>5. CASE Build \/ OpenTunnelFails
  <2>1. phase' \in {"relay", "exited"}
    BY <1>4 DEF Parts, ControlOK, Building
  <2> QED
    BY <1>5, <2>1 DEF Build, BuildStart, SendKey, SendExtend, AwaitDone, OpenTunnel,
                      OpenTunnelFails, Building, routerVars
<1>6. CASE \E r \in Router : UdpRead(r) \/ RouterIsKilled(r)
  BY <1>2, <1>3, <1>6
     DEF UdpRead, NewKey, ForwardKey, NewExtend, ForwardExtend, ForwardDone, RelayFwd, ExitFwd,
         RelayBack, RouterIsKilled
<1>7. CASE UNCHANGED vars
  BY <1>3, <1>7 DEF vars, proxyVars
<1> QED
  BY <1>5, <1>6, <1>7, NoRelayYet DEF Next, Failure, Internet

LEMMA RelayingOnce ==
  ASSUME Parts, ~ Building, PingsOnce, [Next]_vars
  PROVE  PingsOnce'
<1>1. CASE TunnelRead \/ SocketRead \/ \E h \in Host : UserPings(h)
  BY <1>1, TunnelReadOnce, SocketReadOnce, UserPingsOnce
<1>2. CASE \E r \in Router : RelayFwd(r) \/ ExitFwd(r) \/ RelayBack(r) \/ RawReply(r)
  BY <1>2, RelayFwdOnce, ExitFwdOnce, RelayBackOnce, RawReplyOnce
<1>3. CASE Internet \/ \E q \in world : InternetLoses(q) \/ InternetRefuses(q)
  BY <1>3, InternetOnce DEF Internet
<1>4. CASE \E r \in Router : RouterIsKilled(r)
  BY <1>4, RouterEndsOnce DEF RouterIsKilled
<1>5. CASE UNCHANGED vars
  BY <1>5, SameGenuine DEF vars, proxyVars, routerVars, PingsOnce
<1> QED
  BY <1>1, <1>2, <1>3, <1>4, <1>5, NoMoreBuilding DEF Next, Failure, UdpRead

\* In a circuit that is built every packet belongs to a ping that was sent, and none
\* to the same ping as another, whatever layers it is under.
THEOREM EveryPacketIsAPing == Spec => [](~ Building => PingsOnce)
<1>1. Init => (~ Building => PingsOnce)
  BY DEF Init, Building
<1>2. Parts /\ (~ Building => PingsOnce) /\ [Next]_vars => (~ Building => PingsOnce)'
  BY HowBuildingEnds, StartsWithNone, RelayingOnce
<1> QED
  BY <1>1, <1>2, PartsInvariant, PTL DEF Spec

-----------------------------------------------------------------------------
(* The circuit service.                                                    *)

\* Counting a hop extends the path by a router that was not on it.
LEMMA CountingExtends ==
  ASSUME Parts, AwaitDone, var' # var
  PROVE  Service!Extend
<1>1. /\ phase = "await" /\ var' = var + 1
      /\ UNCHANGED <<TOR_CCt_HOPs, delivered, pinged>>
  BY DEF AwaitDone
<1>2. HopsAre(TOR_CCt_HOPs) /\ var \in 0 .. noOfHops /\ var < noOfHops /\ var \in Int
  BY <1>1, Path DEF Parts, ControlOK
<1>3. PICK k, x, p, q : /\ k = var + 1 /\ x = TOR_CCt_HOPs[k]
                        /\ p = SubSeq(TOR_CCt_HOPs, 1, var) /\ q = SubSeq(TOR_CCt_HOPs, 1, k)
  OBVIOUS
<1>4. q = SubSeq(TOR_CCt_HOPs, 1, var)'
  BY <1>1, <1>3
<1>5. /\ Len(p) # noOfHops /\ x \in Router /\ q = Append(p, x)
      /\ \A j \in DOMAIN p : p[j] # x
  BY <1>2, <1>3, PathGrows
<1>6. SubSeq(TOR_CCt_HOPs, 1, var)' = Append(SubSeq(TOR_CCt_HOPs, 1, var), x)
  BY <1>3, <1>4, <1>5
<1> QED
  BY <1>1, <1>3, <1>5, <1>6 DEF Service!Extend, Service!Complete

\* Users ping through a path that is complete.
LEMMA PingingAsks ==
  ASSUME Parts, NEW h \in Host, UserPings(h)
  PROVE  Service!Ask(h)
<1>1. /\ phase = "relay" /\ Len(pinged) < MaxPings /\ pinged' = Append(pinged, h)
      /\ UNCHANGED <<TOR_CCt_HOPs, var, delivered>>
  BY DEF UserPings
<1>2. HopsAre(TOR_CCt_HOPs) /\ var \in 0 .. noOfHops /\ var = noOfHops
  BY <1>1, Path DEF Parts, ControlOK
<1>3. Len(SubSeq(TOR_CCt_HOPs, 1, var)) = noOfHops
  BY <1>2, PathGrows
<1> QED
  BY <1>1, <1>3 DEF Service!Ask, Service!Complete

\* What is written to the tunnel is the answer of a ping that had none.
LEMMA WritingAnswers ==
  ASSUME Parts, ~ Building, PingsOnce, SocketRead
  PROVE  \E n \in 1 .. MaxPings : Service!AnswerPing(n)
<1>1. UNCHANGED <<TOR_CCt_HOPs, var, pinged>>
  BY DEF SocketRead
<1>2. PICK p \in Genuine : /\ p.type = "reply" /\ delivered' = Append(delivered, p)
                           /\ \A k \in DOMAIN delivered : delivered[k].id # p.id
  BY SocketReadOnce
<1>3. PICK n : n = p.id
  OBVIOUS
<1>4. /\ n \in 1 .. MaxPings /\ n \in DOMAIN pinged /\ p \in Packet
      /\ p.saddr = pinged[n] /\ delivered \in Seq(Packet)
  BY <1>2, <1>3, PartsTypes DEF Genuine, Packet, IcmpError, Ping, TypeOK
<1>5. \A k \in DOMAIN AnswersOf(delivered) : AnswersOf(delivered)[k].ping # n
  BY <1>2, <1>3 DEF AnswersOf
<1>6. AnswersOf(delivered') = Append(AnswersOf(delivered), [ping |-> n, by |-> pinged[n]])
  BY <1>2, <1>3, <1>4, AnswersAppended
<1>7. Service!AnswerPing(n)
  BY <1>1, <1>4, <1>5, <1>6
     DEF Service!AnswerPing, Service!IsAnswered, Service!Answer
<1> QED
  BY <1>4, <1>7

\* Any other step is none of the service.
LEMMA OtherStepsStutter ==
  ASSUME Parts, [Next]_vars, ~ (AwaitDone /\ var' # var), ~ SocketRead,
         ~ \E h \in Host : UserPings(h)
  PROVE  UNCHANGED <<SubSeq(TOR_CCt_HOPs, 1, var), pinged, AnswersOf(delivered)>>
<1>1. pinged' = pinged /\ delivered' = delivered
  BY DEF Next, Build, BuildStart, SendKey, SendExtend, AwaitDone, OpenTunnel, TunnelRead,
         UdpRead, NewKey, ForwardKey, NewExtend, ForwardExtend, ForwardDone, RelayFwd, ExitFwd,
         RelayBack, RawReply, Internet, InternetReplies, Failure, OpenTunnelFails,
         InternetLoses, InternetRefuses, RouterIsKilled, vars, proxyVars
<1>2. CASE BuildStart
  <2>1. /\ phase = "start" /\ var' = 0
        /\ \E i \in 0 .. noOfRouters - 1 : TOR_CCt_HOPs' = RandomlySelectHops2(i)
    BY <1>2 DEF BuildStart
  <2>2. var = 0 /\ TOR_CCt_HOPs = << >>
    BY <2>1 DEF Parts, ControlOK, HopsChosen
  <2>3. SubSeq(<< >>, 1, 0) = << >>
    BY SubSeqEmpty
  <2>4. \A i \in 0 .. noOfRouters - 1 : SubSeq(RandomlySelectHops2(i), 1, 0) = << >>
    BY SubSeqEmpty
  <2> QED
    BY <1>1, <2>1, <2>2, <2>3, <2>4
<1>3. CASE ~ BuildStart
  <2>1. TOR_CCt_HOPs' = TOR_CCt_HOPs /\ var' = var
    BY <1>3
       DEF Next, Build, SendKey, SendExtend, AwaitDone, OpenTunnel, TunnelRead, UdpRead, NewKey,
           ForwardKey, NewExtend, ForwardExtend, ForwardDone, RelayFwd, ExitFwd, RelayBack,
           RawReply, Internet, InternetReplies, Failure, OpenTunnelFails, InternetLoses,
           InternetRefuses, RouterIsKilled, vars, proxyVars
  <2> QED
    BY <1>1, <2>1
<1> QED
  BY <1>2, <1>3

\* Stage 6 implements the circuit service, whatever is lost or killed: a path of
\* different routers grows hop by hop, nobody pings before it is complete, and a
\* ping is answered once at most, by the host that was pinged.
THEOREM OnionImplementsService == Spec => ImplementsSafeService
<1>1. Init => Service!Init
  <2>1. SubSeq(<< >>, 1, 0) = << >>
    BY SubSeqEmpty
  <2> QED
    BY <2>1 DEF Init, Service!Init, AnswersOf
<1>2. Parts /\ (~ Building => PingsOnce) /\ [Next]_vars =>
        [Service!Next]_<<SubSeq(TOR_CCt_HOPs, 1, var), pinged, AnswersOf(delivered)>>
  <2> SUFFICES ASSUME Parts, ~ Building => PingsOnce, [Next]_vars
               PROVE  [Service!Next]_<<SubSeq(TOR_CCt_HOPs, 1, var), pinged,
                                      AnswersOf(delivered)>>
    OBVIOUS
  <2>1. CASE AwaitDone /\ var' # var
    BY <2>1, CountingExtends DEF Service!Next
  <2>2. CASE \E h \in Host : UserPings(h)
    BY <2>2, PingingAsks DEF Service!Next
  <2>3. CASE SocketRead
    BY <2>3, WritingAnswers DEF Service!Next, SocketRead, Building
  <2> QED
    BY <2>1, <2>2, <2>3, OtherStepsStutter
<1> QED
  BY <1>1, <1>2, PartsInvariant, EveryPacketIsAPing, PTL
     DEF Spec, ImplementsSafeService, Service!SafeSpec, Service!vars
=============================================================================
