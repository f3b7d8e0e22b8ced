--------------------------- MODULE PingRelayProofs ---------------------------
(***************************************************************************)
(* Proofs about PingRelay, for every number of routers, hosts, pings,      *)
(* buffers and failures.  The inductive invariant is RelayInv (module      *)
(* PingRelay): where a packet is tells which one it is.                    *)
(***************************************************************************)
EXTENDS PingRelay, MiniTorProofs

-----------------------------------------------------------------------------
(* The parts of the invariant by the variables they are about.             *)

CountsOK ==
  /\ stage \in 2 .. 4 /\ phase \in {"relay", "exited"} /\ up \subseteq Router
  /\ pinged \in Seq(Pingable) /\ Len(pinged) <= MaxPings
  /\ faults \in 0 .. MaxFaults

TunnelOK == tun \in Seq(Requests) /\ delivered \in Seq(Answers)

Queues  == [d \in Node |-> Receivable(d)]
InboxOK == Within(inbox, Queues)

WorldOK == \A q \in world : \E r \in Router : q \in Leaving(r) /\ lastSender[r] = Proxy

RawOK ==
  /\ lastSender \in [Router -> {Proxy, NoAddress}]
  /\ raw = [r \in Router |-> raw[r]]
  /\ \A r \in Router : /\ raw[r] \in Seq(Returning(r))
                       /\ raw[r] # << >> => lastSender[r] = Proxy

Parts == CountsOK /\ TunnelOK /\ InboxOK /\ WorldOK /\ RawOK

LEMMA Numbers ==
  /\ noOfRouters \in Nat
  /\ Proxy \in Node /\ Proxy \notin Router /\ NoAddress \notin Node
  /\ \A n : n \in Node <=> n \in Router \/ n = Proxy
  /\ \A n \in Node : Eth(n) \in IP /\ Eth(n) = n /\ Eth(n) \notin Pingable
  /\ Pingable \subseteq IP /\ TunnelIP \in IP /\ TunnelIP \notin Pingable
  /\ Host \subseteq Pingable /\ TunnelHost \subseteq Pingable
  /\ \A h \in Pingable : h \in Host <=> h \notin TunnelHost
  /\ MaxPings \in Nat /\ MaxFaults \in Nat
BY RoutersAssumption, RelayAssumption
   DEF RoutersAssumption, RelayAssumption, Proxy, Router, Node, NoAddress, Eth, IP, NoIP,
       Pingable

\* The packets are packets.
LEMMA PingNumbers ==
  ASSUME CountsOK
  PROVE  \A n \in DOMAIN pinged : n \in Ping /\ pinged[n] \in Pingable
BY Numbers DEF CountsOK, Ping

LEMMA WholePackets ==
  ASSUME NEW n \in Ping, NEW t \in Types, NEW a \in IP, NEW b \in IP
  PROVE  Whole(n, t, a, b) \in Packet
BY DEF Whole, Packet

LEMMA PlacesHoldPackets ==
  ASSUME CountsOK
  PROVE  /\ Requests \subseteq Packet /\ Answers \subseteq Packet
         /\ \A d \in Node : Receivable(d) \subseteq Message
         /\ \A r \in Router : Leaving(r) \subseteq Packet /\ Returning(r) \subseteq Packet
<1>1. /\ \A n \in DOMAIN pinged : /\ n \in Ping /\ pinged[n] \in IP
                                  /\ PingSource(pinged[n]) \in IP
      /\ \A r \in Router : Eth(r) \in IP
  <2>1. \A r \in Router : Eth(r) \in IP
    BY Numbers
  <2>2. \A h \in Pingable : PingSource(h) \in IP
    BY Numbers DEF PingSource, Proxy
  <2>3. \A n \in DOMAIN pinged : n \in Ping /\ pinged[n] \in Pingable
    BY PingNumbers
  <2> QED
    BY <2>1, <2>2, <2>3, Numbers
<1>2. "request" \in Types /\ "reply" \in Types /\ "error" \in Types
  BY DEF Types
<1>3. Requests \subseteq Packet /\ Answers \subseteq Packet
  BY <1>1, <1>2, WholePackets DEF Requests, Answers, AsSent, AsAnswered
<1>4. \A r \in Router : Leaving(r) \subseteq Packet /\ Returning(r) \subseteq Packet
  BY <1>1, <1>2, WholePackets DEF Leaving, Returning, Foreign
<1>5. \A d \in Node : Receivable(d) \subseteq Message
  BY <1>3, Numbers DEF Receivable, Message
<1> QED
  BY <1>3, <1>4, <1>5

LEMMA InvParts ==
  ASSUME RelayInv
  PROVE  Parts
<1>1. CountsOK /\ TunnelOK /\ WorldOK
  BY DEF RelayInv, TypeOK, CountsOK, TunnelOK, WorldOK
<1>2. InboxOK
  BY DEF RelayInv, TypeOK, InboxOK, Within, Queues
<1>3. RawOK
  <2>1. lastSender \in [Router -> {Proxy, NoAddress}]
    BY DEF RelayInv, TypeOK
  <2> QED
    BY <2>1 DEF RelayInv, TypeOK, RawOK
<1> QED
  BY <1>1, <1>2, <1>3 DEF Parts

LEMMA PartsTypes ==
  ASSUME Parts
  PROVE  TypeOK
<1>1. CountsOK /\ TunnelOK /\ InboxOK /\ WorldOK /\ RawOK
  BY DEF Parts
<1>2. tun \in Seq(Packet) /\ delivered \in Seq(Packet)
  BY <1>1, PlacesHoldPackets, SeqWidened DEF TunnelOK
<1>3. inbox \in [Node -> Seq(Message)]
  <2>1. \A d \in Node : inbox[d] \in Seq(Message)
    BY <1>1, PlacesHoldPackets, SeqWidened DEF InboxOK, Within, Queues
  <2> QED
    BY <1>1, <2>1 DEF InboxOK, Within
<1>4. raw \in [Router -> Seq(Packet)]
  <2>1. \A r \in Router : raw[r] \in Seq(Packet)
    BY <1>1, PlacesHoldPackets, SeqWidened DEF RawOK
  <2> QED
    BY <1>1, <2>1 DEF RawOK
<1>5. world \subseteq Packet
  BY <1>1, PlacesHoldPackets DEF WorldOK
<1>6. lastSender \in [Router -> Node \cup {NoAddress}]
  BY <1>1, Numbers DEF RawOK
<1> QED
  BY <1>1, <1>2, <1>3, <1>4, <1>5, <1>6 DEF TypeOK, CountsOK

LEMMA PartsInv == Parts => RelayInv
<1> SUFFICES ASSUME Parts
             PROVE  RelayInv
  OBVIOUS
<1>1. TypeOK
  BY PartsTypes
<1>2. phase # "aborted" /\ tun \in Seq(Requests) /\ delivered \in Seq(Answers)
  BY DEF Parts, CountsOK, TunnelOK
<1>3. \A d \in Node : inbox[d] \in Seq(Receivable(d))
  BY DEF Parts, InboxOK, Within, Queues
<1>4. \A q \in world : \E r \in Router : q \in Leaving(r) /\ lastSender[r] = Proxy
  BY DEF Parts, WorldOK
<1>5. \A r \in Router : /\ raw[r] \in Seq(Returning(r))
                        /\ raw[r] # << >> => lastSender[r] = Proxy
                        /\ lastSender[r] \in {Proxy, NoAddress}
  BY DEF Parts, RawOK
<1> QED
  BY <1>1, <1>2, <1>3, <1>4, <1>5 DEF RelayInv

-----------------------------------------------------------------------------
(* Receiving and sending.                                                  *)

LEMMA SentWithin ==
  ASSUME NEW q, Within(q, Queues), NEW d \in Node, NEW m \in Receivable(d)
  PROVE  Within(Sent(q, d, m), Queues)
<1>1. m \in Queues[d]
  BY DEF Queues
<1> QED
  BY <1>1, DeliverWithin DEF Sent

\* A router reads a ping as its user sent it, from the proxy.
LEMMA RouterReads ==
  ASSUME Parts, NEW r \in Router, inbox[r] # << >>
  PROVE  /\ Within(Consume(inbox, r), Queues)
         /\ Head(inbox[r]).from = Proxy
         /\ \E n \in DOMAIN pinged : Head(inbox[r]).pkt = AsSent(n)
<1>1. r \in Node /\ r # Proxy
  BY Numbers
<1>2. Head(inbox[r]) \in Queues[r] /\ Within(Consume(inbox, r), Queues)
  BY <1>1, ConsumeWithin DEF Parts, InboxOK
<1>3. Head(inbox[r]) \in [from : {Proxy}, pkt : Requests]
  BY <1>1, <1>2 DEF Queues, Receivable
<1> QED
  BY <1>2, <1>3 DEF Requests

\* What became of the parts that depend on the sets when no one pinged.
LEMMA SameSets ==
  ASSUME pinged' = pinged
  PROVE  /\ Requests' = Requests /\ Answers' = Answers /\ Queues' = Queues
         /\ \A r \in Router : Leaving(r)' = Leaving(r) /\ Returning(r)' = Returning(r)
BY DEF Requests, Answers, AsSent, AsAnswered, Queues, Receivable, Foreign, Leaving, Returning

-----------------------------------------------------------------------------
(* One lemma per action.                                                   *)

LEMMA UserPingsStep ==
  ASSUME Parts, NEW h \in Pingable, UserPings(h)
  PROVE  Parts'
<1>1. /\ Len(pinged) < MaxPings /\ pinged' = Append(pinged, h)
      /\ tun' = Append(tun, Whole(Len(pinged) + 1, "request", PingSource(h), h))
      /\ UNCHANGED <<stage, phase, delivered, up, lastSender, raw, inbox, world, faults>>
  BY DEF UserPings, routerVars
<1>2. CountsOK /\ TunnelOK /\ InboxOK /\ WorldOK /\ RawOK
  BY DEF Parts
<1>3. /\ pinged' \in Seq(Pingable) /\ Len(pinged') <= MaxPings
      /\ Len(pinged) + 1 \in DOMAIN pinged' /\ pinged'[Len(pinged) + 1] = h
      /\ \A n \in DOMAIN pinged : n \in DOMAIN pinged' /\ pinged'[n] = pinged[n]
  <2>1. \A q \in Seq(Pingable) :
          /\ Append(q, h) \in Seq(Pingable) /\ Len(Append(q, h)) = Len(q) + 1
          /\ Len(q) \in Nat /\ Len(q) + 1 \in DOMAIN Append(q, h)
          /\ Append(q, h)[Len(q) + 1] = h
          /\ \A n \in DOMAIN q : n \in DOMAIN Append(q, h) /\ Append(q, h)[n] = q[n]
    OBVIOUS
  <2> QED
    BY <1>1, <1>2, <2>1, Numbers DEF CountsOK
<1>4. /\ Requests \subseteq Requests' /\ Answers \subseteq Answers'
      /\ \A r \in Router :
           Leaving(r) \subseteq Leaving(r)' /\ Returning(r) \subseteq Returning(r)'
  BY <1>3 DEF Requests, Answers, AsSent, AsAnswered, Foreign, Leaving, Returning
<1>5. TunnelOK'
  <2>1. PICK p : p = Whole(Len(pinged) + 1, "request", PingSource(h), h)
    OBVIOUS
  <2>2. p \in Requests'
    BY <1>3, <2>1 DEF Requests, AsSent
  <2>3. tun \in Seq(Requests') /\ delivered \in Seq(Answers')
    BY <1>2, <1>4, SeqWidened DEF TunnelOK
  <2> QED
    BY <1>1, <2>1, <2>2, <2>3, SeqElements DEF TunnelOK
<1>6. InboxOK'
  <2>1. \A d \in Node : Receivable(d) \subseteq Receivable(d)'
    BY <1>4 DEF Receivable
  <2>2. \A d \in Node : inbox[d] \in Seq(Receivable(d)')
    BY <1>2, <2>1, SeqWidened DEF InboxOK, Within, Queues
  <2> QED
    BY <1>1, <1>2, <2>2 DEF InboxOK, Within, Queues
<1>7. WorldOK'
  BY <1>1, <1>2, <1>4 DEF WorldOK
<1>8. RawOK'
  <2>1. \A r \in Router : raw[r] \in Seq(Returning(r)')
    BY <1>2, <1>4, SeqWidened DEF RawOK
  <2> QED
    BY <1>1, <1>2, <2>1 DEF RawOK
<1> QED
  BY <1>1, <1>2, <1>3, <1>5, <1>6, <1>7, <1>8 DEF Parts, CountsOK

LEMMA Receivers == SetRandomReceiver \subseteq Router
BY DEF SetRandomReceiver, whoHaveSendMe

LEMMA TunnelReadStep ==
  ASSUME Parts, TunnelRead
  PROVE  Parts'
<1>1. /\ tun # << >> /\ tun' = Tail(tun)
      /\ \/ UNCHANGED <<phase, inbox>>
         \/ \E d \in SetRandomReceiver :
              IF d = NoAddress
                THEN phase' = "aborted" /\ UNCHANGED inbox
                ELSE /\ inbox' = Sent(inbox, d, [from |-> Proxy, pkt |-> Head(tun)])
                     /\ UNCHANGED phase
      /\ UNCHANGED <<stage, delivered, up, lastSender, raw, world, pinged, faults>>
  BY DEF TunnelRead, routerVars
<1>2. CountsOK /\ TunnelOK /\ InboxOK /\ WorldOK /\ RawOK
  BY DEF Parts
<1>3. Head(tun) \in Requests /\ Tail(tun) \in Seq(Requests)
  BY <1>1, <1>2, SeqElements DEF TunnelOK
<1>4. phase' = phase /\ Within(inbox', Queues)
  <2>1. CASE UNCHANGED <<phase, inbox>>
    BY <1>2, <2>1 DEF InboxOK
  <2>2. ASSUME NEW d \in SetRandomReceiver,
               IF d = NoAddress
                 THEN phase' = "aborted" /\ UNCHANGED inbox
                 ELSE /\ inbox' = Sent(inbox, d, [from |-> Proxy, pkt |-> Head(tun)])
                      /\ UNCHANGED phase
        PROVE  phase' = phase /\ Within(inbox', Queues)
    <3>1. d \in Node /\ d # Proxy /\ d # NoAddress
      BY Receivers, Numbers
    <3>2. PICK m : m = [from |-> Proxy, pkt |-> Head(tun)]
      OBVIOUS
    <3>3. m \in Receivable(d)
      BY <1>3, <3>1, <3>2 DEF Receivable
    <3> QED
      BY <1>2, <2>2, <3>1, <3>2, <3>3, SentWithin DEF InboxOK
  <2> QED
    BY <1>1, <2>1, <2>2
<1>5. TunnelOK' /\ InboxOK' /\ WorldOK' /\ RawOK' /\ CountsOK'
  BY <1>1, <1>2, <1>3, <1>4, SameSets DEF TunnelOK, InboxOK, WorldOK, RawOK, CountsOK
<1> QED
  BY <1>5 DEF Parts

LEMMA SocketReadStep ==
  ASSUME Parts, SocketRead
  PROVE  Parts'
<1>1. PICK p : p = Head(inbox[Proxy]).pkt
  OBVIOUS
<1>2. /\ inbox[Proxy] # << >> /\ inbox' = Consume(inbox, Proxy)
      /\ IF p.type = "reply"
           THEN delivered' = Append(delivered, p) /\ UNCHANGED phase
           ELSE phase' = "aborted" /\ UNCHANGED delivered
      /\ UNCHANGED <<stage, tun, up, lastSender, raw, world, pinged, faults>>
  BY <1>1 DEF SocketRead, routerVars
<1>3. CountsOK /\ TunnelOK /\ InboxOK /\ WorldOK /\ RawOK /\ Proxy \in Node
  BY Numbers DEF Parts
<1>4. Head(inbox[Proxy]) \in Queues[Proxy] /\ Within(inbox', Queues)
  BY <1>2, <1>3, ConsumeWithin DEF InboxOK
<1>5. p \in Answers
  BY <1>1, <1>3, <1>4 DEF Queues, Receivable
<1>6. p.type = "reply"
  BY <1>5 DEF Answers, AsAnswered, Whole
<1>7. TunnelOK'
  BY <1>2, <1>3, <1>5, <1>6, SameSets, SeqElements DEF TunnelOK
<1>8. InboxOK' /\ WorldOK' /\ RawOK' /\ CountsOK'
  BY <1>2, <1>3, <1>4, <1>6, SameSets DEF InboxOK, WorldOK, RawOK, CountsOK
<1> QED
  BY <1>7, <1>8 DEF Parts

\* The last sender is the proxy once the router has read, and was no one else.
LEMMA ReceivedStep ==
  ASSUME Parts, NEW r \in Router, inbox[r] # << >>, Received(r), raw' = raw, pinged' = pinged
  PROVE  /\ RawOK' /\ lastSender'[r] = Proxy
         /\ \A e \in Router : lastSender[e] = Proxy => lastSender'[e] = Proxy
<1>1. lastSender' = [lastSender EXCEPT ![r] = Proxy] /\ RawOK
  BY RouterReads DEF Received, Parts
<1> QED
  BY <1>1, SameSets DEF RawOK

LEMMA AnswerItselfStep ==
  ASSUME Parts, NEW r \in Router, AnswerItself(r)
  PROVE  Parts'
<1>1. PICK m : m = Head(inbox[r])
  OBVIOUS
<1>2. PICK a : a = [from |-> r, pkt |-> ProcessIPPacket(m.pkt)]
  OBVIOUS
<1>3. /\ inbox[r] # << >> /\ isThisICMPEchoRequestForTunnel(m.pkt) /\ Received(r)
      /\ inbox' = Sent(Consume(inbox, r), m.from, a)
      /\ UNCHANGED <<stage, phase, tun, delivered, up, raw, world, pinged, faults>>
  BY <1>1, <1>2 DEF AnswerItself, Receives, proxyVars
<1>4. m.from = Proxy /\ Within(Consume(inbox, r), Queues)
  BY <1>1, <1>3, RouterReads
<1>5. PICK n \in DOMAIN pinged : m.pkt = AsSent(n)
  BY <1>1, <1>3, RouterReads
<1>6. a \in Receivable(Proxy)
  <2>1. ProcessIPPacket(m.pkt) = AsAnswered(n)
    BY <1>5 DEF ProcessIPPacket, AsSent, AsAnswered, Whole
  <2> QED
    BY <1>2, <2>1 DEF Receivable, Answers
<1>7. Within(inbox', Queues)
  BY <1>3, <1>4, <1>6, SentWithin, Numbers
<1>8. CountsOK /\ TunnelOK /\ WorldOK
  BY DEF Parts
<1>9. RawOK' /\ WorldOK'
  BY <1>3, <1>8, ReceivedStep, SameSets DEF WorldOK
<1>10. CountsOK' /\ TunnelOK' /\ InboxOK'
  BY <1>3, <1>7, <1>8, SameSets DEF CountsOK, TunnelOK, InboxOK
<1> QED
  BY <1>9, <1>10 DEF Parts

LEMMA SendToWorldStep ==
  ASSUME Parts, NEW r \in Router, SendToWorld(r)
  PROVE  Parts'
<1>1. PICK m : m = Head(inbox[r])
  OBVIOUS
<1>2. PICK a : a = Whole(m.pkt.id, m.pkt.type, Eth(r), m.pkt.daddr)
  OBVIOUS
<1>3. /\ inbox[r] # << >> /\ ~ isThisICMPEchoRequestForTunnel(m.pkt) /\ Received(r)
      /\ inbox' = Consume(inbox, r)
      /\ world' \subseteq world \cup {a}
      /\ UNCHANGED <<stage, phase, tun, delivered, up, raw, pinged, faults>>
  BY <1>1, <1>2 DEF SendToWorld, Receives, proxyVars
<1>4. Within(inbox', Queues)
  BY <1>3, RouterReads
<1>5. PICK n \in DOMAIN pinged : m.pkt = AsSent(n)
  BY <1>1, <1>3, RouterReads
<1>6. CountsOK /\ TunnelOK /\ WorldOK
  BY DEF Parts
<1>7. a \in Leaving(r)
  <2>1. /\ m.pkt.id = n /\ m.pkt.type = "request" /\ m.pkt.daddr = pinged[n]
    BY <1>5 DEF AsSent, Whole
  <2>2. n \in Foreign
    BY <1>3, <1>6, <2>1, PingNumbers, Numbers DEF isThisICMPEchoRequestForTunnel, Foreign
  <2> QED
    BY <1>2, <2>1, <2>2 DEF Leaving
<1>8. /\ RawOK' /\ lastSender'[r] = Proxy
      /\ \A e \in Router : lastSender[e] = Proxy => lastSender'[e] = Proxy
  BY <1>3, ReceivedStep
<1>9. WorldOK'
  BY <1>3, <1>6, <1>7, <1>8, SameSets DEF WorldOK
<1>10. CountsOK' /\ TunnelOK' /\ InboxOK'
  BY <1>3, <1>4, <1>6, SameSets DEF CountsOK, TunnelOK, InboxOK
<1> QED
  BY <1>8, <1>9, <1>10 DEF Parts

\* A router ends: its queues are gone.
LEMMA RouterEndsStep ==
  ASSUME Parts, NEW r \in Router, RouterEnds(r), faults' \in 0 .. MaxFaults,
         UNCHANGED <<stage, tun, delivered, lastSender, world, pinged>>
  PROVE  Parts'
<1>1. /\ up' = up \ {r} /\ inbox' = [inbox EXCEPT ![r] = << >>]
      /\ raw' = [raw EXCEPT ![r] = << >>]
      /\ phase' \in IF phase = "relay" THEN {"relay", "exited"} ELSE {phase}
  BY DEF RouterEnds
<1>2. CountsOK /\ TunnelOK /\ InboxOK /\ WorldOK /\ RawOK /\ r \in Node
  BY Numbers DEF Parts
<1>3. \A S : << >> \in Seq(S)
  OBVIOUS
<1>4. CountsOK'
  BY <1>1, <1>2 DEF CountsOK
<1>5. InboxOK'
  BY <1>1, <1>2, <1>3, SameSets DEF InboxOK, Within
<1>6. RawOK'
  BY <1>1, <1>2, <1>3, SameSets DEF RawOK
<1>7. TunnelOK' /\ WorldOK'
  BY <1>2, SameSets DEF TunnelOK, WorldOK
<1> QED
  BY <1>4, <1>5, <1>6, <1>7 DEF Parts

LEMMA RawReadStep ==
  ASSUME Parts, NEW r \in Router, RawRead(r)
  PROVE  Parts'
<1>1. PICK p, d : p = Head(raw[r]) /\ d = lastSender[r]
  OBVIOUS
<1>2. /\ raw[r] # << >>
      /\ IF p.type # "error" /\ d # NoAddress
           THEN /\ inbox' = Sent(inbox, d, [from |-> r, pkt |-> ChangeDestAddressToEth0(p)])
                /\ raw' = [raw EXCEPT ![r] = Tail(raw[r])]
                /\ UNCHANGED <<up, phase>>
           ELSE RouterEnds(r)
      /\ UNCHANGED <<stage, tun, delivered, lastSender, world, pinged, faults>>
  BY <1>1 DEF RawRead
<1>3. CountsOK /\ TunnelOK /\ InboxOK /\ WorldOK /\ RawOK
  BY DEF Parts
<1>4. d = Proxy /\ p \in Returning(r) /\ Tail(raw[r]) \in Seq(Returning(r))
  BY <1>1, <1>2, <1>3, SeqElements DEF RawOK
<1>5. CASE p.type # "error"
  <2>1. PICK a : a = [from |-> r, pkt |-> ChangeDestAddressToEth0(p)]
    OBVIOUS
  <2>2. PICK z : z = Tail(raw[r])
    OBVIOUS
  <2>3. /\ inbox' = Sent(inbox, Proxy, a) /\ raw' = [raw EXCEPT ![r] = z]
        /\ UNCHANGED <<up, phase>>
    BY <1>2, <1>4, <1>5, <2>1, <2>2, Numbers
  <2>4. a \in Receivable(Proxy)
    <3>1. PICK n \in Foreign : p = Whole(n, "reply", pinged[n], Eth(r))
      BY <1>4, <1>5 DEF Returning, Whole
    <3>2. n \in DOMAIN pinged /\ PingSource(pinged[n]) = Eth(0)
      BY <1>3, <3>1, PingNumbers, Numbers DEF Foreign, PingSource
    <3>3. ChangeDestAddressToEth0(p) = AsAnswered(n)
      <4>1. PICK e, h : e = Eth(0) /\ h = pinged[n]
        OBVIOUS
      <4>2. /\ p = [id |-> n, type |-> "reply", saddr |-> h, daddr |-> Eth(r),
                    check |-> {h, Eth(r)}, icmpCheck |-> "reply"]
            /\ AsAnswered(n) = [id |-> n, type |-> "reply", saddr |-> h, daddr |-> e,
                                check |-> {h, e}, icmpCheck |-> "reply"]
        BY <3>1, <3>2, <4>1 DEF AsAnswered, Whole
      <4>3. ChangeDestAddressToEth0(p) = [p EXCEPT !.daddr = e, !.check = {h, e}]
        BY <4>1, <4>2 DEF ChangeDestAddressToEth0
      <4> QED
        BY <4>2, <4>3
    <3> QED
      BY <2>1, <3>2, <3>3 DEF Receivable, Answers
  <2>5. InboxOK'
    BY <1>2, <1>3, <2>3, <2>4, SentWithin, SameSets, Numbers DEF InboxOK
  <2>6. RawOK'
    BY <1>2, <1>3, <1>4, <2>2, <2>3, SameSets DEF RawOK
  <2>7. CountsOK' /\ TunnelOK' /\ WorldOK'
    BY <1>2, <1>3, <2>3, SameSets DEF CountsOK, TunnelOK, WorldOK
  <2> QED
    BY <2>5, <2>6, <2>7 DEF Parts
<1>6. CASE p.type = "error"
  BY <1>2, <1>3, <1>6, RouterEndsStep DEF CountsOK
<1> QED
  BY <1>5, <1>6

\* The Internet takes a ping and may leave an answer at the router's raw socket.
LEMMA InternetStep ==
  ASSUME Parts, NEW q \in world, world' = world \ {q}, NEW t \in {"reply", "error"},
         raw' = raw \/ ArrivesAt(q.saddr, Whole(q.id, t, q.daddr, q.saddr)),
         faults' \in 0 .. MaxFaults,
         UNCHANGED <<stage, phase, tun, delivered, up, lastSender, inbox, pinged>>
  PROVE  Parts'
<1>1. CountsOK /\ TunnelOK /\ InboxOK /\ WorldOK /\ RawOK
  BY DEF Parts
<1>2. PICK r \in Router : q \in Leaving(r) /\ lastSender[r] = Proxy
  BY <1>1 DEF WorldOK
<1>3. PICK n \in Foreign : q = Whole(n, "request", Eth(r), pinged[n])
  BY <1>2 DEF Leaving
<1>4. PICK p : p = Whole(q.id, t, q.daddr, q.saddr)
  OBVIOUS
<1>5. q.saddr = r /\ p \in Returning(r)
  <2>1. q.id = n /\ q.saddr = Eth(r) /\ q.daddr = pinged[n]
    BY <1>3 DEF Whole
  <2>2. Eth(r) = r
    BY Numbers
  <2>3. p = Whole(n, t, pinged[n], Eth(r))
    BY <1>4, <2>1
  <2> QED
    BY <2>1, <2>2, <2>3 DEF Returning
<1>6. RawOK'
  <2>1. CASE raw' = raw
    BY <1>1, <2>1, SameSets DEF RawOK
  <2>2. CASE raw' = [raw EXCEPT ![r] = Append(raw[r], p)]
    <3>1. PICK z : z = Append(raw[r], p)
      OBVIOUS
    <3>2. z \in Seq(Returning(r))
      BY <1>1, <1>5, <3>1, SeqElements DEF RawOK
    <3> QED
      BY <1>1, <1>2, <2>2, <3>1, <3>2, SameSets DEF RawOK
  <2> QED
    BY <1>4, <1>5, <2>1, <2>2 DEF ArrivesAt
<1>7. CountsOK' /\ TunnelOK' /\ InboxOK' /\ WorldOK'
  BY <1>1, SameSets DEF CountsOK, TunnelOK, InboxOK, WorldOK
<1> QED
  BY <1>6, <1>7 DEF Parts

-----------------------------------------------------------------------------
(* Theorems.                                                               *)

LEMMA InitParts == Init => Parts
<1> SUFFICES ASSUME Init
             PROVE  Parts
  OBVIOUS
<1>1. \A S : << >> \in Seq(S)
  OBVIOUS
<1>2. CountsOK
  BY <1>1, Numbers DEF Init, CountsOK
<1>3. TunnelOK /\ WorldOK
  BY <1>1 DEF Init, TunnelOK, WorldOK
<1>4. InboxOK
  BY <1>1 DEF Init, InboxOK, Within, Queues
<1>5. RawOK
  BY <1>1 DEF Init, RawOK
<1> QED
  BY <1>2, <1>3, <1>4, <1>5 DEF Parts

LEMMA OneMoreFault ==
  ASSUME Parts, faults < MaxFaults, faults' = faults + 1
  PROVE  faults' \in 0 .. MaxFaults
BY Numbers DEF Parts, CountsOK

LEMMA NextParts ==
  ASSUME Parts, [Next]_vars
  PROVE  Parts'
<1>1. CASE \E h \in Pingable : UserPings(h)
  BY <1>1, UserPingsStep
<1>2. CASE TunnelRead \/ SocketRead
  BY <1>2, TunnelReadStep, SocketReadStep
<1>3. CASE \E r \in Router : UdpRead(r) \/ RawRead(r)
  BY <1>3, AnswerItselfStep, SendToWorldStep, RawReadStep DEF UdpRead
<1>4. CASE Internet
  <2>1. PICK q \in world : InternetReplies(q)
    BY <1>4 DEF Internet
  <2>2. faults' \in 0 .. MaxFaults
    BY <2>1 DEF InternetReplies, Parts, CountsOK
  <2> QED
    BY <2>1, <2>2, InternetStep DEF InternetReplies, proxyVars
<1>5. CASE Failure
  <2>1. faults' \in 0 .. MaxFaults
    BY <1>5, OneMoreFault DEF Failure, InternetLoses, InternetRefuses, RouterIsKilled
  <2>2. CASE \E q \in world : InternetLoses(q) \/ InternetRefuses(q)
    BY <2>1, <2>2, InternetStep DEF InternetLoses, InternetRefuses, proxyVars, routerVars
  <2>3. CASE \E r \in Router : RouterIsKilled(r)
    BY <2>1, <2>3, RouterEndsStep DEF RouterIsKilled
  <2> QED
    BY <1>5, <2>2, <2>3 DEF Failure
<1>6. CASE UNCHANGED vars
  BY <1>6, SameSets DEF vars, proxyVars, routerVars, Parts, CountsOK, TunnelOK, InboxOK,
                        WorldOK, RawOK
<1> QED
  BY <1>1, <1>2, <1>3, <1>4, <1>5, <1>6 DEF Next

\* Where a packet is tells its addresses, its type and what its checksums cover.
THEOREM RelayPlaces == Spec => []Parts
<1>1. Parts /\ [Next]_vars => Parts'
  BY NextParts
<1> QED
  BY <1>1, InitParts, PTL DEF Spec

\* RelayInv holds in every reachable state: every packet in a queue, in the tunnel
\* or on the Internet is a ping as it was sent, or its answer, with checksums that
\* fit.
THEOREM RelayInvariant == Spec => []RelayInv
BY RelayPlaces, PartsInv, PTL

\* Type correctness of stages 2 to 4.
THEOREM RelayTypes == Spec => []TypeOK
<1>1. RelayInv => TypeOK
  BY DEF RelayInv
<1> QED
  BY <1>1, RelayInvariant, PTL

\* The last sender is the right receiver for whatever comes in from the Internet, and
\* no assertion on what is read can fail.
THEOREM AnswersGoToTheProxy == Spec => []LastSenderIsTheProxy
<1>1. ASSUME Parts
      PROVE  LastSenderIsTheProxy
  <2>1. \A r \in Router : raw[r] # << >> => lastSender[r] = Proxy
    BY <1>1 DEF Parts, RawOK
  <2>2. ASSUME NEW d \in Node, NEW n \in DOMAIN inbox[d]
        PROVE  inbox[d][n] \in Receivable(d)
    BY <1>1, SeqElements DEF Parts, InboxOK, Within, Queues
  <2>3. /\ \A p \in Requests : p.type = "request"
        /\ \A p \in Answers : p.type = "reply"
    BY DEF Requests, Answers, AsSent, AsAnswered, Whole
  <2>4. \A r \in Router : \A n \in DOMAIN inbox[r] :
          inbox[r][n].from = Proxy /\ inbox[r][n].pkt.type = "request"
    BY <2>2, <2>3, Numbers DEF Receivable
  <2>5. \A n \in DOMAIN inbox[Proxy] : inbox[Proxy][n].pkt.type = "reply"
    BY <2>2, <2>3, Numbers DEF Receivable
  <2> QED
    BY <2>1, <2>4, <2>5 DEF LastSenderIsTheProxy
<1>2. Parts => LastSenderIsTheProxy
  BY <1>1
<1> QED
  BY <1>2, RelayPlaces, PTL

\* What is written to the tunnel answers the ping it bears the number of.
THEOREM AnswersAreRight == Spec => []RepliesReachThePinger
<1>1. ASSUME Parts
      PROVE  RepliesReachThePinger
  <2>1. \A k \in DOMAIN delivered : delivered[k] \in Answers
    BY <1>1, SeqElements DEF Parts, TunnelOK
  <2>2. ASSUME NEW p \in Answers
        PROVE  /\ p.type = "reply" /\ Intact(p)
               /\ p.saddr = pinged[p.id] /\ p.daddr = PingSource(pinged[p.id])
    <3>1. PICK n \in DOMAIN pinged : p = AsAnswered(n)
      BY DEF Answers
    <3> QED
      BY <3>1 DEF AsAnswered, Whole, Intact, HeaderSum
  <2> QED
    BY <2>1, <2>2 DEF RepliesReachThePinger
<1>2. Parts => RepliesReachThePinger
  BY <1>1
<1> QED
  BY <1>2, RelayPlaces, PTL

\* The proxy never aborts, and a router ends only when it is killed or its raw
\* socket's assertion meets an ICMP error.
THEOREM EndsAreFailures == Spec => EndsOnlyByFailure
<1>1. ASSUME Parts, [Next]_vars
      PROVE  /\ phase' # "aborted"
             /\ \A r \in up \ up' : faults' = faults + 1 \/ Head(raw[r]).type = "error"
  <2>1. phase' # "aborted"
    BY <1>1, NextParts DEF Parts, CountsOK
  <2>2. CASE \E r \in Router : RawRead(r)
    <3>1. PICK r \in Router : RawRead(r)
      BY <2>2
    <3>2. raw[r] # << >> /\ lastSender[r] # NoAddress
      BY <1>1, <3>1, Numbers DEF RawRead, Parts, RawOK
    <3>3. up' = up \/ (up' = up \ {r} /\ Head(raw[r]).type = "error")
      BY <3>1, <3>2 DEF RawRead, RouterEnds
    <3> QED
      BY <2>1, <3>3
  <2>3. CASE Failure
    BY <2>1, <2>3 DEF Failure, InternetLoses, InternetRefuses, RouterIsKilled
  <2>4. CASE ~ (\E r \in Router : RawRead(r)) /\ ~ Failure
    <3>1. up' = up
      BY <1>1, <2>4 DEF Next, UserPings, TunnelRead, SocketRead, UdpRead, AnswerItself,
                        SendToWorld, Internet, InternetReplies, vars, routerVars
    <3> QED
      BY <2>1, <3>1
  <2> QED
    BY <2>2, <2>3, <2>4
<1>2. Parts /\ [Next]_vars =>
        [/\ phase' # "aborted"
         /\ \A r \in up \ up' : faults' = faults + 1 \/ Head(raw[r]).type = "error"]_vars
  BY <1>1
<1> QED
  BY <1>2, RelayPlaces, PTL DEF Spec, EndsOnlyByFailure

-----------------------------------------------------------------------------
(* The refinement of PingService.  What keeps users from a second answer   *)
(* is that a ping is in one place at a time, whichever routers handle it.  *)

Known     == {p \in Packet : p.id \in DOMAIN pinged}
PingsOnce == Tracked(Known, tun, delivered, Carried(inbox), raw, world)

LEMMA KnownPackets ==
  ASSUME NEW p \in Known, NEW t \in Types, NEW a \in IP, NEW b \in IP
  PROVE  /\ Whole(p.id, t, a, b) \in Known /\ Whole(p.id, t, a, b).id = p.id
         /\ p.saddr \in IP /\ p.daddr \in IP /\ p.type \in Types
<1>1. p.id \in Ping /\ p.saddr \in IP /\ p.daddr \in IP /\ p.type \in Types
  BY DEF Known, Packet
<1>2. Whole(p.id, t, a, b).id = p.id
  BY DEF Whole
<1> QED
  BY <1>1, <1>2, WholePackets DEF Known

LEMMA KnownRequest ==
  ASSUME Parts, NEW h \in Pingable, UserPings(h)
  PROVE  /\ Known \subseteq Known'
         /\ Whole(Len(pinged) + 1, "request", PingSource(h), h) \in Known'
         /\ \A p \in Known : p.id # Len(pinged) + 1
<1>1. PICK k : k = Len(pinged) + 1
  OBVIOUS
<1>2. /\ pinged' = Append(pinged, h) /\ pinged \in Seq(Pingable)
      /\ Len(pinged) < MaxPings
  BY DEF UserPings, Parts, CountsOK
<1>3. /\ k \in Ping /\ k \notin DOMAIN pinged /\ k \in DOMAIN pinged'
      /\ DOMAIN pinged \subseteq DOMAIN pinged'
  BY <1>1, <1>2, Numbers DEF Ping
<1>4. "request" \in Types /\ PingSource(h) \in IP /\ h \in IP
  BY Numbers DEF Types, PingSource, Proxy
<1>5. Whole(k, "request", PingSource(h), h) \in Packet
  BY <1>3, <1>4, WholePackets
<1>6. Whole(k, "request", PingSource(h), h).id = k
  BY DEF Whole
<1>7. \A p \in Known : p.id \in DOMAIN pinged
  BY DEF Known
<1> QED
  BY <1>1, <1>3, <1>5, <1>6, <1>7 DEF Known

LEMMA Queued ==
  ASSUME Parts
  PROVE  inbox \in [Node -> Seq(Message)] /\ LiveNodes \in SUBSET Node
<1>1. TypeOK
  BY PartsTypes
<1> QED
  BY <1>1, Numbers DEF TypeOK, LiveNodes

LEMMA ReadQueues ==
  ASSUME NEW q \in [Node -> Seq(Message)], NEW r \in Node, q[r] # << >>
  PROVE  Consume(q, r) \in [Node -> Seq(Message)] /\ Head(q[r]) \in Message
<1>1. Head(q[r]) \in Message /\ Tail(q[r]) \in Seq(Message)
  BY SeqElements
<1>2. PICK z : z = Tail(q[r])
  OBVIOUS
<1> QED
  BY <1>1, <1>2 DEF Consume

\* A datagram with packet p, which is nowhere, is sent.
LEMMA SentOnce ==
  ASSUME Parts, NEW t, NEW q \in [Node -> Seq(Message)], NEW a,
         Tracked(Known, t, delivered, Carried(q), a, world),
         NEW p \in Known, Absent(p.id, PingsIn(t, delivered, Carried(q), a, world)),
         NEW n, NEW m, m.pkt = p, m \in Message
  PROVE  Tracked(Known, t, delivered, Carried(Sent(q, n, m)), a, world)
BY Queued, PutDatagram DEF Sent

LEMMA UserPingsOnce ==
  ASSUME Parts, PingsOnce, NEW h \in Pingable, UserPings(h)
  PROVE  PingsOnce'
<1>1. PICK p : p = Whole(Len(pinged) + 1, "request", PingSource(h), h)
  OBVIOUS
<1>2. /\ tun' = Append(tun, p)
      /\ UNCHANGED <<delivered, raw, inbox, world>>
  BY <1>1 DEF UserPings, routerVars
<1>3. PICK S : S = Known'
  OBVIOUS
<1>4. Tracked(S, tun, delivered, Carried(inbox), raw, world)
  BY <1>3, KnownRequest, TrackedWidened DEF PingsOnce
<1>5. p \in S /\ p.id = Len(pinged) + 1
  BY <1>1, <1>3, KnownRequest DEF Whole
<1>6. Absent(p.id, PingsIn(tun, delivered, Carried(inbox), raw, world))
  BY <1>5, KnownRequest, FreshNumber DEF PingsOnce
<1>7. Tracked(S, Append(tun, p), delivered, Carried(inbox), raw, world)
  BY <1>4, <1>5, <1>6, PutTun
<1> QED
  BY <1>2, <1>3, <1>7 DEF PingsOnce

LEMMA TunnelReadOnce ==
  ASSUME Parts, PingsOnce, TunnelRead
  PROVE  PingsOnce'
<1>1. PICK p : p = Head(tun)
  OBVIOUS
<1>2. /\ tun # << >> /\ tun' = Tail(tun)
      /\ \/ inbox' = inbox
         \/ \E d \in SetRandomReceiver :
              inbox' = Sent(inbox, d, [from |-> Proxy, pkt |-> p])
      /\ UNCHANGED <<delivered, raw, world, pinged>>
  BY <1>1 DEF TunnelRead, routerVars
<1>3. PICK u : u = Tail(tun)
  OBVIOUS
<1>4. /\ p \in Known /\ Tracked(Known, u, delivered, Carried(inbox), raw, world)
      /\ Absent(p.id, PingsIn(u, delivered, Carried(inbox), raw, world))
  BY <1>1, <1>2, <1>3, TakeTun DEF PingsOnce
<1>5. ASSUME NEW d \in SetRandomReceiver
      PROVE  Tracked(Known, u, delivered, Carried(Sent(inbox, d, [from |-> Proxy, pkt |-> p])),
                     raw, world)
  <2>1. PICK m : m = [from |-> Proxy, pkt |-> p]
    OBVIOUS
  <2>2. m \in Message /\ m.pkt = p
    BY <1>4, <2>1, Numbers DEF Message, Known
  <2> QED
    BY <1>4, <2>1, <2>2, SentOnce, Queued
<1>6. Tracked(Known, u, delivered, Carried(inbox'), raw, world)
  BY <1>2, <1>4, <1>5
<1>7. Known' = Known
  BY <1>2 DEF Known
<1> QED
  BY <1>2, <1>3, <1>6, <1>7 DEF PingsOnce

\* The proxy writes an answer to a ping that had none.
LEMMA SocketReadOnce ==
  ASSUME Parts, PingsOnce, SocketRead
  PROVE  /\ PingsOnce'
         /\ \A k \in DOMAIN delivered : delivered[k].id # Head(inbox[Proxy]).pkt.id
<1>1. PICK p : p = Head(inbox[Proxy]).pkt
  OBVIOUS
<1>2. /\ inbox[Proxy] # << >> /\ inbox' = Consume(inbox, Proxy)
      /\ delivered' = Append(delivered, p) \/ delivered' = delivered
      /\ UNCHANGED <<tun, raw, world, pinged>>
  BY <1>1 DEF SocketRead, routerVars
<1>3. PICK i : i = Carried(Consume(inbox, Proxy))
  OBVIOUS
<1>4. /\ p \in Known /\ Tracked(Known, tun, delivered, i, raw, world)
      /\ Absent(p.id, PingsIn(tun, delivered, i, raw, world))
  BY <1>1, <1>2, <1>3, Queued, Numbers, TakeDatagram DEF PingsOnce
<1>5. Tracked(Known, tun, delivered', i, raw, world)
  BY <1>2, <1>4, PutDelivered
<1>6. \A k \in DOMAIN delivered : delivered[k].id # p.id
  BY <1>4, DeliveredBefore
<1>7. Known' = Known
  BY <1>2 DEF Known
<1> QED
  BY <1>1, <1>2, <1>3, <1>5, <1>6, <1>7 DEF PingsOnce

LEMMA UdpReadOnce ==
  ASSUME Parts, PingsOnce, NEW r \in Router, UdpRead(r)
  PROVE  PingsOnce'
<1>1. PICK m : m = Head(inbox[r])
  OBVIOUS
<1>2. inbox[r] # << >> /\ UNCHANGED <<tun, delivered, raw, pinged>>
  BY DEF UdpRead, AnswerItself, SendToWorld, Receives, proxyVars
<1>3. PICK q : q = Consume(inbox, r)
  OBVIOUS
<1>4. /\ inbox \in [Node -> Seq(Message)] /\ r \in Node
      /\ q \in [Node -> Seq(Message)] /\ m \in Message
  BY <1>1, <1>2, <1>3, Queued, Numbers, ReadQueues
<1>5. /\ m.pkt \in Known /\ Tracked(Known, tun, delivered, Carried(q), raw, world)
      /\ Absent(m.pkt.id, PingsIn(tun, delivered, Carried(q), raw, world))
  BY <1>1, <1>2, <1>3, <1>4, TakeDatagram DEF PingsOnce
<1>6. Known' = Known
  BY <1>2 DEF Known
<1>7. CASE AnswerItself(r)
  <2>1. PICK a : a = [from |-> r, pkt |-> ProcessIPPacket(m.pkt)]
    OBVIOUS
  <2>2. inbox' = Sent(q, m.from, a) /\ world' = world
    BY <1>1, <1>3, <1>7, <2>1 DEF AnswerItself
  <2>3. "reply" \in Types /\ m.pkt.saddr \in IP /\ m.pkt.daddr \in IP
    BY <1>5 DEF Known, Packet, Types
  <2>4. ProcessIPPacket(m.pkt) \in Known /\ ProcessIPPacket(m.pkt).id = m.pkt.id
    BY <1>5, <2>3, KnownPackets DEF ProcessIPPacket
  <2>5. a \in Message /\ a.pkt = ProcessIPPacket(m.pkt)
    BY <1>4, <2>1, <2>4 DEF Message, Known
  <2>6. Tracked(Known, tun, delivered, Carried(Sent(q, m.from, a)), raw, world)
    BY <1>4, <1>5, <2>4, <2>5, SentOnce
  <2> QED
    BY <1>2, <1>6, <2>2, <2>6 DEF PingsOnce
<1>8. CASE SendToWorld(r)
  <2>1. PICK a : a = Whole(m.pkt.id, m.pkt.type, Eth(r), m.pkt.daddr)
    OBVIOUS
  <2>2. inbox' = q /\ (world' = world \/ world' = world \cup {a})
    BY <1>1, <1>3, <1>8, <2>1 DEF SendToWorld
  <2>3. m.pkt.type \in Types /\ Eth(r) \in IP /\ m.pkt.daddr \in IP
    BY <1>4, <1>5, Numbers DEF Known, Packet
  <2>4. a \in Known /\ a.id = m.pkt.id
    BY <1>5, <2>1, <2>3, KnownPackets
  <2>5. Tracked(Known, tun, delivered, Carried(q), raw, world \cup {a})
    BY <1>5, <2>4, PutWorld
  <2> QED
    BY <1>2, <1>5, <1>6, <2>2, <2>5 DEF PingsOnce
<1> QED
  BY <1>7, <1>8 DEF UdpRead

LEMMA RouterEndsOnce ==
  ASSUME Parts, PingsOnce, NEW r \in Router, RouterEnds(r),
         UNCHANGED <<tun, delivered, world, pinged>>
  PROVE  PingsOnce'
<1>1. /\ inbox' = [inbox EXCEPT ![r] = << >>] /\ raw' = [raw EXCEPT ![r] = << >>]
      /\ r \in Node /\ inbox \in [Node -> Seq(Message)]
  BY Numbers, Queued DEF RouterEnds
<1>2. PICK i : i = Carried(inbox)
  OBVIOUS
<1>3. Carried(inbox') = [i EXCEPT ![r] = << >>]
  BY <1>1, <1>2, DatagramsCleared
<1>4. Tracked(Known, tun, delivered, [i EXCEPT ![r] = << >>], [raw EXCEPT ![r] = << >>], world)
  BY <1>2, QueuesCleared DEF PingsOnce
<1>5. Known' = Known
  BY DEF Known
<1> QED
  BY <1>1, <1>3, <1>4, <1>5 DEF PingsOnce

LEMMA RawReadOnce ==
  ASSUME Parts, PingsOnce, NEW r \in Router, RawRead(r)
  PROVE  PingsOnce'
<1>1. PICK p : p = Head(raw[r])
  OBVIOUS
<1>2. PICK m : m = [from |-> r, pkt |-> ChangeDestAddressToEth0(p)]
  OBVIOUS
<1>3. /\ raw[r] # << >> /\ UNCHANGED <<tun, delivered, world, pinged>>
      /\ \/ /\ inbox' = Sent(inbox, lastSender[r], m)
            /\ raw' = [raw EXCEPT ![r] = Tail(@)]
         \/ RouterEnds(r)
  BY <1>1, <1>2 DEF RawRead
<1>4. PICK c : c = [raw EXCEPT ![r] = Tail(@)]
  OBVIOUS
<1>5. /\ p \in Known /\ Tracked(Known, tun, delivered, Carried(inbox), c, world)
      /\ Absent(p.id, PingsIn(tun, delivered, Carried(inbox), c, world))
  BY <1>1, <1>3, <1>4, TakeRaw DEF PingsOnce
<1>6. PICK y : y = ChangeDestAddressToEth0(p)
  OBVIOUS
<1>7. y \in Known /\ y.id = p.id
  <2>1. /\ p \in Packet /\ Eth(0) \in IP /\ {p.saddr, Eth(0)} \in SUBSET IP
        /\ p.id \in DOMAIN pinged
    BY <1>5, Numbers DEF Known, Packet, Proxy
  <2>2. PICK e, s : e = Eth(0) /\ s = {p.saddr, Eth(0)}
    OBVIOUS
  <2>3. y = [p EXCEPT !.daddr = e, !.check = s]
    BY <1>6, <2>2 DEF ChangeDestAddressToEth0
  <2>4. y \in Packet /\ y.id = p.id
    BY <2>1, <2>2, <2>3 DEF Packet
  <2> QED
    BY <2>1, <2>4 DEF Known
<1>8. m \in Message /\ m.pkt = y
  BY <1>2, <1>6, <1>7, Numbers DEF Message, Known
<1>9. Tracked(Known, tun, delivered, Carried(Sent(inbox, lastSender[r], m)), c, world)
  BY <1>5, <1>7, <1>8, SentOnce, Queued
<1>10. Known' = Known
  BY <1>3 DEF Known
<1> QED
  BY <1>3, <1>4, <1>9, <1>10, RouterEndsOnce DEF PingsOnce

LEMMA InternetOnce ==
  ASSUME Parts, PingsOnce, NEW q \in world, world' = world \ {q},
         NEW t \in {"reply", "error"},
         raw' = raw \/ ArrivesAt(q.saddr, Whole(q.id, t, q.daddr, q.saddr)),
         UNCHANGED <<tun, delivered, up, inbox, pinged>>
  PROVE  PingsOnce'
<1>1. PICK p : p = Whole(q.id, t, q.daddr, q.saddr)
  OBVIOUS
<1>2. PICK v : v = world \ {q}
  OBVIOUS
<1>3. /\ q \in Known /\ Tracked(Known, tun, delivered, Carried(inbox), raw, v)
      /\ Absent(q.id, PingsIn(tun, delivered, Carried(inbox), raw, v))
  BY <1>2, TakeWorld DEF PingsOnce
<1>4. p \in Known /\ p.id = q.id
  <2>1. q.saddr \in IP /\ q.daddr \in IP /\ t \in Types
    BY <1>3 DEF Known, Packet, Types
  <2> QED
    BY <1>1, <1>3, <2>1, KnownPackets
<1>5. raw' = raw \/ (q.saddr \in Router /\ raw' = [raw EXCEPT ![q.saddr] = Append(@, p)])
  BY <1>1 DEF ArrivesAt, Parts, CountsOK
<1>6. Tracked(Known, tun, delivered, Carried(inbox), raw', v)
  BY <1>3, <1>4, <1>5, PutRaw
<1>7. Known' = Known
  BY DEF Known
<1> QED
  BY <1>2, <1>6, <1>7 DEF PingsOnce

LEMMA NextOnce ==
  ASSUME Parts, PingsOnce, [Next]_vars
  PROVE  PingsOnce'
<1>1. CASE \E h \in Pingable : UserPings(h)
  BY <1>1, UserPingsOnce
<1>2. CASE TunnelRead \/ SocketRead
  BY <1>2, TunnelReadOnce, SocketReadOnce
<1>3. CASE \E r \in Router : UdpRead(r) \/ RawRead(r)
  BY <1>3, UdpReadOnce, RawReadOnce
<1>4. CASE Internet
  BY <1>4, InternetOnce DEF Internet, InternetReplies, proxyVars
<1>5. CASE Failure
  <2>1. CASE \E q \in world : InternetLoses(q) \/ InternetRefuses(q)
    BY <2>1, InternetOnce DEF InternetLoses, InternetRefuses, proxyVars, routerVars
  <2>2. CASE \E r \in Router : RouterIsKilled(r)
    BY <2>2, RouterEndsOnce DEF RouterIsKilled
  <2> QED
    BY <1>5, <2>1, <2>2 DEF Failure
<1>6. CASE UNCHANGED vars
  <2>1. Known' = Known
    BY <1>6 DEF vars, Known
  <2> QED
    BY <1>6, <2>1 DEF vars, proxyVars, routerVars, PingsOnce
<1> QED
  BY <1>1, <1>2, <1>3, <1>4, <1>5, <1>6 DEF Next

\* No two packets bear the number of one ping, wherever they are: in the tunnel, in
\* a queue, on the Internet or among those written to the tunnel.
THEOREM PingsAreNotDuplicated == Spec => []PingsOnce
<1>1. Init => PingsOnce
  <2> SUFFICES ASSUME Init
               PROVE  PingsOnce
    OBVIOUS
  <2>1. Carried(inbox) = [n \in Node |-> << >>]
    <3>1. Pkts(<< >>) = << >>
      BY DEF Pkts
    <3> QED
      BY <3>1 DEF Init, Carried
  <2> QED
    BY <2>1, NothingTracked DEF Init, PingsOnce
<1>2. Parts /\ PingsOnce /\ [Next]_vars => PingsOnce'
  BY NextOnce
<1> QED
  BY <1>1, <1>2, RelayPlaces, PTL DEF Spec

\* A step of stages 2 to 4 is a step of the service: an answer that is written is
\* the answer of a ping that had none.
LEMMA StepsOfTheService ==
  ASSUME Parts, PingsOnce, [Next]_vars
  PROVE  [Service!Next]_<<pinged, AnswersOf(delivered)>>
<1>1. CASE \E h \in Pingable : UserPings(h)
  <2>1. PICK h \in Pingable : UserPings(h)
    BY <1>1
  <2>2. Service!Ask(h)
    BY <2>1 DEF UserPings, Service!Ask
  <2> QED
    BY <2>2 DEF Service!Next
<1>2. CASE SocketRead /\ delivered' # delivered
  <2>1. PICK p : p = Head(inbox[Proxy]).pkt
    OBVIOUS
  <2>2. /\ inbox[Proxy] # << >> /\ delivered' = Append(delivered, p) /\ pinged' = pinged
    BY <1>2, <2>1 DEF SocketRead
  <2>3. Head(inbox[Proxy]) \in Queues[Proxy] /\ Proxy \in Node
    BY <2>2, Numbers, ConsumeWithin DEF Parts, InboxOK
  <2>4. PICK n \in DOMAIN pinged : p = AsAnswered(n)
    BY <2>1, <2>3 DEF Queues, Receivable, Answers
  <2>5. p.id = n /\ p.saddr = pinged[n]
    BY <2>4 DEF AsAnswered, Whole
  <2>6. \A k \in DOMAIN delivered : delivered[k].id # n
    BY <1>2, <2>1, <2>5, SocketReadOnce
  <2>7. \A k \in DOMAIN AnswersOf(delivered) : AnswersOf(delivered)[k].ping # n
    BY <2>6 DEF AnswersOf
  <2>8. AnswersOf(delivered') = Append(AnswersOf(delivered), [ping |-> n, by |-> pinged[n]])
    <3>1. delivered \in Seq(Packet)
      BY PartsTypes DEF TypeOK
    <3>2. p \in Packet
      BY <2>4, PlacesHoldPackets DEF Parts, Answers
    <3> QED
      BY <2>2, <2>5, <3>1, <3>2, AnswersAppended
  <2>9. n \in 1 .. MaxPings
    BY <2>4, PingNumbers DEF Parts, Ping
  <2>10. Service!AnswerPing(n)
    BY <2>2, <2>4, <2>7, <2>8 DEF Service!AnswerPing
  <2> QED
    BY <2>9, <2>10 DEF Service!Next
<1>3. CASE /\ ~ (\E h \in Pingable : UserPings(h))
           /\ ~ (SocketRead /\ delivered' # delivered)
  <2>1. pinged' = pinged /\ delivered' = delivered
    BY <1>3 DEF Next, TunnelRead, SocketRead, UdpRead, AnswerItself, SendToWorld, RawRead,
                Internet, InternetReplies, Failure, InternetLoses, InternetRefuses,
                RouterIsKilled, vars, proxyVars
  <2> QED
    BY <2>1
<1> QED
  BY <1>1, <1>2, <1>3

\* Users get at most one answer to a ping, from whom they asked, whatever fails:
\* stages 2 to 4 implement the ping service.
THEOREM RelayImplementsPingService == Spec => ImplementsPingService
<1>1. Init => Service!Init
  BY DEF Init, Service!Init, AnswersOf
<1>2. Parts /\ PingsOnce /\ [Next]_vars => [Service!Next]_<<pinged, AnswersOf(delivered)>>
  BY StepsOfTheService
<1> QED
  BY <1>1, <1>2, RelayPlaces, PingsAreNotDuplicated, PTL
     DEF Spec, ImplementsPingService, Service!SafeSpec
=============================================================================
