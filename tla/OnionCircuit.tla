---------------------------- MODULE OnionCircuit ----------------------------
(***************************************************************************)
(* Stage 6: a circuit with onion encryption.  For each hop the proxy sends *)
(* a key (fake Diffie-Hellman) and, two seconds later, the next hop, both  *)
(* wrapped in the layers of the hops before (proxy.cc, Build_An_Circuit_6, *)
(* CreateOnionEncryptMessages); each router peels or adds its layer        *)
(* (router.cc, CCtCreation_6, RelayThisStuff6).  Unlike in stage 5 both    *)
(* sides assert what they expect, and a failed assertion ends the process. *)
(*                                                                         *)
(* The module starts where Startup ends, and the processes, the sockets    *)
(* and the failures (an ICMP error instead of a reply among them) are those*)
(* of PlainCircuit.  AES is taken to be ideal:                             *)
(* a body is its content under a sequence of layers, the outermost first,  *)
(* each named by its key, and only the key of the outermost layer removes  *)
(* it; any other leaves bytes that fail the assertion on the padding       *)
(* (aes_jh.c:123).  A key is named by the number of the router it was made *)
(* for (SocketAPI.cc:372: random bytes XOR that number).                   *)
(*                                                                         *)
(* A definition X_suffix above a definition X is X with a fault put in, to *)
(* see that the properties below would notice it; no behaviour uses it.    *)
(***************************************************************************)
EXTENDS MiniTor, FiniteSets

CONSTANTS Host,       \* IP addresses of hosts on the Internet
          MaxPings,   \* bound on the pings users send
          RcvBuf,     \* datagrams a UDP receive buffer holds
          MaxFaults   \* bound on failures

ASSUME OnionAssumption ==
  /\ Host \subseteq Int /\ Host \cap (NoIP .. noOfRouters) = {}
  /\ MaxPings \in Nat /\ RcvBuf \in Nat \ {0} /\ MaxFaults \in Nat

VARIABLES
  \* The proxy.
  phase,          \* where its thread of control is
  s,              \* proxy.cc:125, the next circuit number
  TOR_CCt_HOPs,   \* router numbers of the hops, closed by the exit marker
  var,            \* the loop variable of Build_An_Circuit_6
  tun,            \* packets waiting in the tunnel device
  delivered,      \* packets the proxy wrote to the tunnel device
  \* The routers.
  up,             \* the router processes that run
  entry,          \* CircuitInfoEntryTable[0] of each router
  TO_FORWARD_FDH, TO_FORWARD_ECE,
  raw,            \* receive queue of each router's raw socket
  \* The network.
  inbox,          \* receive queues of the UDP sockets
  world,          \* echo requests travelling on the Internet
  \* Bookkeeping.
  pinged,         \* the hosts pinged so far: ping n went to pinged[n]
  faults

proxyVars  == <<phase, s, TOR_CCt_HOPs, var, tun, delivered>>
flags      == <<TO_FORWARD_FDH, TO_FORWARD_ECE>>
routerVars == <<up, entry, flags, raw>>
vars == <<proxyVars, routerVars, inbox, world, pinged, faults>>

-----------------------------------------------------------------------------
(* Bodies and their layers.                                                *)

Ping     == 1 .. MaxPings
IP       == {NoIP} \cup (0 .. noOfRouters) \cup Host
HopPort  == Router \cup {LAST_HOP_PortNumber, NoAddress}
NoKey    == 0

\* Pings have 84 bytes.  An ICMP error, which can reach a raw socket, has not.
Packet    == [id : Ping, type : {"request", "reply"}, saddr : IP, daddr : IP]
IcmpError == [id : Ping, type : {"error"}, saddr : IP, daddr : IP]
NoPacket  == [id |-> 0, type |-> "none", saddr |-> NoIP, daddr |-> NoIP]
IsPing(p) == p.type \in {"request", "reply"}

\* A body has one content: a key (16 bytes), a port (2), a packet (84), or
\* nothing (an extend-done message); the asserted lengths tell them apart.
KeyBody(k)    == [layers |-> << >>, key |-> k,     next |-> NoAddress, pkt |-> NoPacket]
PortBody(p)   == [layers |-> << >>, key |-> NoKey, next |-> p,         pkt |-> NoPacket]
PacketBody(q) == [layers |-> << >>, key |-> NoKey, next |-> NoAddress, pkt |-> q]
Empty         == PacketBody(NoPacket)

IsKey(b)    == b.layers = << >> /\ b.key # NoKey
IsPort(b)   == b.layers = << >> /\ b.next # NoAddress
IsPacket(b) == b.layers = << >> /\ IsPing(b.pkt)

EncryptThisMessage(k, b) == [b EXCEPT !.layers = <<k>> \o @]
Opens(k, b)              == b.layers # << >> /\ Head(b.layers) = k
DecryptThisMessage(b)    == [b EXCEPT !.layers = Tail(@)]

\* The layers of the first n hops; the first hop's ends up outermost.
OnionEncrypt_inward(b, n) ==
  [b EXCEPT !.layers = [j \in 1 .. n |-> TOR_CCt_HOPs[n + 1 - j]] \o @]
OnionEncrypt(b, n) ==
  [b EXCEPT !.layers = SubSeq(TOR_CCt_HOPs, 1, n) \o @]

\* OnionDecrypt removes the layers of all hops, the first hop's first.
OnionOpens(b)   == /\ Len(b.layers) >= noOfHops
                   /\ \A j \in 1 .. noOfHops : b.layers[j] = TOR_CCt_HOPs[j]
OnionDecrypt(b) == [b EXCEPT !.layers = SubSeq(@, noOfHops + 1, Len(@))]

Body == [layers : Seq(Router), key : Router \cup {NoKey}, next : HopPort,
         pkt : Packet \cup {NoPacket}]

Commands == {"FAKE_DIFFIE_HELLMAN", "ENC_CIRCUIT_EXTEND", "ENC_CIRCUIT_EXTEND_DONE",
             "RELAY_DATA_FWD_ENC", "RELAY_DATA_BWD_ENC"}
Message  == [from : Node, cmd : Commands, cid : Word, body : Body]
Msg(from, cmd, cid, body) == [from |-> from, cmd |-> cmd, cid |-> cid, body |-> body]

CircuitInfoEntry ==
  [circuitRequesterAddr : Node \cup {NoAddress}, givenCicuitID : Word,
   myCircuitID : Word, nextHop : HopPort, key : Router \cup {NoKey}]
ZeroEntry ==
  [circuitRequesterAddr |-> NoAddress, givenCicuitID |-> 0, myCircuitID |-> 0,
   nextHop |-> NoAddress, key |-> NoKey]

TypeOK ==
  /\ phase \in {"start", "key", "extend", "await", "built", "relay", "exited", "aborted"}
  /\ s \in Word
  /\ TOR_CCt_HOPs \in {<< >>} \cup {RandomlySelectHops2(i) : i \in 0 .. noOfRouters - 1}
  /\ var \in 0 .. noOfHops
  /\ tun \in Seq(Packet)
  /\ delivered \in Seq(Packet)
  /\ up \subseteq Router
  /\ entry \in [Router -> CircuitInfoEntry]
  /\ TO_FORWARD_FDH \in [Router -> BOOLEAN]
  /\ TO_FORWARD_ECE \in [Router -> BOOLEAN]
  /\ raw \in [Router -> Seq(Packet \cup IcmpError)]
  /\ inbox \in [Node -> Seq(Message)]
  /\ world \subseteq Packet
  /\ pinged \in Seq(Host) /\ Len(pinged) <= MaxPings
  /\ faults \in 0 .. MaxFaults

Init ==
  /\ phase = "start"
  /\ s = 1
  /\ TOR_CCt_HOPs = << >>
  /\ var = 0
  /\ tun = << >>
  /\ delivered = << >>
  /\ up = Router
  /\ entry = [r \in Router |-> ZeroEntry]
  /\ TO_FORWARD_FDH = [r \in Router |-> FALSE]
  /\ TO_FORWARD_ECE = [r \in Router |-> FALSE]
  /\ raw = [r \in Router |-> << >>]
  /\ inbox = [n \in Node |-> << >>]
  /\ world = {}
  /\ pinged = << >>
  /\ faults = 0

-----------------------------------------------------------------------------
(* Sending, and the end of a process.                                      *)

ProxyRuns == phase \notin {"exited", "aborted"}
LiveNodes == up \cup (IF ProxyRuns THEN {Proxy} ELSE {})
Sent(queues, d, m) == Deliver(queues, LiveNodes, RcvBuf, d, m)

\* A router process ends; SIGCHLD interrupts the proxy's select, but not its
\* recvfrom (SA_RESTART).  It also cuts its sleep short.
RouterEnds(r) ==
  /\ up' = up \ {r}
  /\ inbox' = [inbox EXCEPT ![r] = << >>]
  /\ raw' = [raw EXCEPT ![r] = << >>]
  /\ phase' \in IF phase = "relay" THEN {"relay", "exited"} ELSE {phase}

\* Router r takes the first datagram of its UDP queue, and ends unless what its
\* code asserts of it is the case.
RouterTakes(r, asserted) ==
  IF asserted
    THEN inbox' = Consume(inbox, r) /\ UNCHANGED <<up, raw, phase>>
    ELSE RouterEnds(r)

\* The same, and sends m to d; it ends as well when d was never set.
RouterSends(r, asserted, d, m) ==
  IF asserted /\ d # NoAddress
    THEN inbox' = Sent(Consume(inbox, r), d, m) /\ UNCHANGED <<up, raw, phase>>
    ELSE RouterEnds(r)

-----------------------------------------------------------------------------
(* The proxy builds the circuit (proxy.cc, Build_An_Circuit_6).            *)

CircuitID == s - 1

BuildStart ==
  /\ phase = "start"
  /\ \E i \in 0 .. noOfRouters - 1 : TOR_CCt_HOPs' = RandomlySelectHops2(i)
  /\ s' = s + 1
  /\ var' = 0
  /\ phase' = "key"
  /\ UNCHANGED <<tun, delivered, routerVars, inbox, world, pinged, faults>>

ToFirstHop(cmd, body) ==
  inbox' = Sent(inbox, TOR_CCt_HOPs[1], Msg(Proxy, cmd, htons(CircuitID), body))

\* The key for hop var travels under the layers of the hops before it.
SendKey ==
  /\ phase = "key"
  /\ ToFirstHop("FAKE_DIFFIE_HELLMAN", OnionEncrypt(KeyBody(TOR_CCt_HOPs[var + 1]), var))
  /\ phase' = "extend"
  /\ UNCHANGED <<s, TOR_CCt_HOPs, var, tun, delivered, routerVars, world, pinged, faults>>

\* The next hop travels under the layer of hop var, too.  The two seconds of
\* sleep before it are no guard: the message may follow the key at once.
SendExtend_noWait ==
  /\ phase = "extend"
  /\ ToFirstHop("ENC_CIRCUIT_EXTEND", OnionEncrypt(PortBody(TOR_CCt_HOPs[var + 2]), var + 1))
  /\ var' = var + 1
  /\ phase' = IF var + 1 = noOfHops THEN "built" ELSE "key"
  /\ UNCHANGED <<s, TOR_CCt_HOPs, tun, delivered, routerVars, world, pinged, faults>>
SendExtend ==
  /\ phase = "extend"
  /\ ToFirstHop("ENC_CIRCUIT_EXTEND", OnionEncrypt(PortBody(TOR_CCt_HOPs[var + 2]), var + 1))
  /\ phase' = "await"
  /\ UNCHANGED <<s, TOR_CCt_HOPs, var, tun, delivered, routerVars, world, pinged, faults>>

IsDone(m) == m.cmd = "ENC_CIRCUIT_EXTEND_DONE" /\ m.body = Empty

AwaitDone ==
  /\ phase = "await" /\ inbox[Proxy] # << >>
  /\ inbox' = Consume(inbox, Proxy)
  /\ IF IsDone(Head(inbox[Proxy])) /\ CircuitID = htons(Head(inbox[Proxy]).cid)
       THEN /\ var' = var + 1
            /\ phase' = IF var + 1 = noOfHops THEN "built" ELSE "key"
       ELSE phase' = "aborted" /\ UNCHANGED var
  /\ UNCHANGED <<s, TOR_CCt_HOPs, tun, delivered, routerVars, world, pinged, faults>>

OpenTunnel ==
  /\ phase = "built"
  /\ phase' = "relay"
  /\ UNCHANGED <<s, TOR_CCt_HOPs, var, tun, delivered, routerVars, inbox, world, pinged,
                 faults>>

OpenTunnelFails ==
  /\ phase = "built" /\ faults < MaxFaults
  /\ phase' = "exited"
  /\ faults' = faults + 1
  /\ UNCHANGED <<s, TOR_CCt_HOPs, var, tun, delivered, routerVars, inbox, world, pinged>>

-----------------------------------------------------------------------------
(* The proxy relays (proxy.cc, tunnelPlusSock_reader, stage 6).            *)

UserPings(h) ==
  /\ phase = "relay" /\ Len(pinged) < MaxPings
  /\ pinged' = Append(pinged, h)
  /\ tun' = Append(tun, [id |-> Len(pinged) + 1, type |-> "request",
                         saddr |-> Eth(0), daddr |-> h])
  /\ UNCHANGED <<phase, s, TOR_CCt_HOPs, var, delivered, routerVars, inbox, world, faults>>

\* The source address is blanked and the packet wrapped for every hop.
TunnelRead_again ==
  /\ phase = "relay" /\ tun # << >>
  /\ tun' \in {tun, Tail(tun)}
  /\ ToFirstHop("RELAY_DATA_FWD_ENC",
                OnionEncrypt(PacketBody([Head(tun) EXCEPT !.saddr = NoIP]), noOfHops))
  /\ UNCHANGED <<phase, s, TOR_CCt_HOPs, var, delivered, routerVars, world, pinged, faults>>
TunnelRead ==
  /\ phase = "relay" /\ tun # << >>
  /\ tun' = Tail(tun)
  /\ ToFirstHop("RELAY_DATA_FWD_ENC",
                OnionEncrypt(PacketBody([Head(tun) EXCEPT !.saddr = NoIP]), noOfHops))
  /\ UNCHANGED <<phase, s, TOR_CCt_HOPs, var, delivered, routerVars, world, pinged, faults>>

\* The proxy asserts the command, the padding of every layer and the length.
SocketRead ==
  LET m == Head(inbox[Proxy]) IN
  /\ phase = "relay" /\ inbox[Proxy] # << >>
  /\ inbox' = Consume(inbox, Proxy)
  /\ IF /\ m.cmd = "RELAY_DATA_BWD_ENC" /\ OnionOpens(m.body)
        /\ IsPacket(OnionDecrypt(m.body))
       THEN /\ delivered' = Append(delivered, [m.body.pkt EXCEPT !.daddr = Eth(0)])
            /\ UNCHANGED phase
       ELSE phase' = "aborted" /\ UNCHANGED delivered
  /\ UNCHANGED <<s, TOR_CCt_HOPs, var, tun, routerVars, world, pinged, faults>>

-----------------------------------------------------------------------------
(* A router takes part in building (router.cc, CCtCreation_6).             *)

Receives(r, cmd) ==
  /\ r \in up /\ inbox[r] # << >>
  /\ Head(inbox[r]).cmd = cmd

\* The body of the first datagram, and what is below its outermost layer.
BodyAt(r)   == Head(inbox[r]).body
OpensAt(r)  == Opens(entry[r].key, BodyAt(r))
PeeledAt(r) == DecryptThisMessage(BodyAt(r))

\* A first key is the router's own.  Nothing answers it.
NewKey_flagUnset(r) ==
  LET m == Head(inbox[r]) IN
  /\ Receives(r, "FAKE_DIFFIE_HELLMAN") /\ ~ TO_FORWARD_FDH[r]
  /\ entry' = [entry EXCEPT ![r].circuitRequesterAddr = m.from,
                            ![r].givenCicuitID = htons(m.cid),
                            ![r].key = m.body.key]
  /\ RouterTakes(r, IsKey(m.body))
  /\ UNCHANGED <<s, TOR_CCt_HOPs, var, tun, delivered, flags, world, pinged, faults>>
NewKey(r) ==
  LET m == Head(inbox[r]) IN
  /\ Receives(r, "FAKE_DIFFIE_HELLMAN") /\ ~ TO_FORWARD_FDH[r]
  /\ TO_FORWARD_FDH' = [TO_FORWARD_FDH EXCEPT ![r] = TRUE]
  /\ entry' = [entry EXCEPT ![r].circuitRequesterAddr = m.from,
                            ![r].givenCicuitID = htons(m.cid),
                            ![r].key = m.body.key]
  /\ RouterTakes(r, IsKey(m.body))
  /\ UNCHANGED <<s, TOR_CCt_HOPs, var, tun, delivered, TO_FORWARD_ECE, world, pinged, faults>>

\* What is sent on loses a layer and gets this router's identifier.
Onward_sameId(r, cmd) == Msg(r, cmd, Head(inbox[r]).cid, PeeledAt(r))
Onward(r, cmd) == Msg(r, cmd, htons(entry[r].myCircuitID), PeeledAt(r))

ForwardKey(r) ==
  /\ Receives(r, "FAKE_DIFFIE_HELLMAN") /\ TO_FORWARD_FDH[r]
  /\ RouterSends(r, OpensAt(r), entry[r].nextHop, Onward(r, "FAKE_DIFFIE_HELLMAN"))
  /\ UNCHANGED <<s, TOR_CCt_HOPs, var, tun, delivered, entry, flags, world, pinged, faults>>

NewExtend(r) ==
  LET m == Head(inbox[r]) IN
  /\ Receives(r, "ENC_CIRCUIT_EXTEND") /\ ~ TO_FORWARD_ECE[r]
  /\ TO_FORWARD_ECE' = [TO_FORWARD_ECE EXCEPT ![r] = TRUE]
  /\ entry' = [entry EXCEPT ![r].myCircuitID = MyCircuitID(entry[r].givenCicuitID, r),
                            ![r].nextHop = m.body.next]
  /\ RouterSends(r, OpensAt(r) /\ IsPort(PeeledAt(r)) /\ m.cid = htons(entry[r].givenCicuitID),
                 m.from, Msg(r, "ENC_CIRCUIT_EXTEND_DONE", m.cid, Empty))
  /\ UNCHANGED <<s, TOR_CCt_HOPs, var, tun, delivered, TO_FORWARD_FDH, world, pinged, faults>>

ForwardExtend(r) ==
  /\ Receives(r, "ENC_CIRCUIT_EXTEND") /\ TO_FORWARD_ECE[r]
  /\ RouterSends(r, OpensAt(r), entry[r].nextHop, Onward(r, "ENC_CIRCUIT_EXTEND"))
  /\ UNCHANGED <<s, TOR_CCt_HOPs, var, tun, delivered, entry, flags, world, pinged, faults>>

\* Here, unlike in stage 5, the identifier is translated on the way back.
ForwardDone_sameId(r) ==
  LET m == Head(inbox[r]) IN
  /\ Receives(r, "ENC_CIRCUIT_EXTEND_DONE")
  /\ RouterSends(r, m.cid = htons(entry[r].myCircuitID) /\ m.body = Empty,
                 entry[r].circuitRequesterAddr, Msg(r, "ENC_CIRCUIT_EXTEND_DONE", m.cid, Empty))
  /\ UNCHANGED <<s, TOR_CCt_HOPs, var, tun, delivered, entry, flags, world, pinged, faults>>
ForwardDone(r) ==
  LET m == Head(inbox[r]) IN
  /\ Receives(r, "ENC_CIRCUIT_EXTEND_DONE")
  /\ RouterSends(r, m.cid = htons(entry[r].myCircuitID) /\ m.body = Empty,
                 entry[r].circuitRequesterAddr,
                 Msg(r, "ENC_CIRCUIT_EXTEND_DONE", htons(entry[r].givenCicuitID), Empty))
  /\ UNCHANGED <<s, TOR_CCt_HOPs, var, tun, delivered, entry, flags, world, pinged, faults>>

-----------------------------------------------------------------------------
(* A router relays (router.cc, RelayThisStuff6).                           *)

IsExit(r) == entry[r].nextHop = LAST_HOP_PortNumber

RelayFwd(r) ==
  /\ Receives(r, "RELAY_DATA_FWD_ENC") /\ ~ IsExit(r)
  /\ RouterSends(r, OpensAt(r), entry[r].nextHop, Onward(r, "RELAY_DATA_FWD_ENC"))
  /\ UNCHANGED <<s, TOR_CCt_HOPs, var, tun, delivered, entry, flags, world, pinged, faults>>

\* The exit finds a packet without a source, and the kernel gives it that of the
\* exit's raw socket.
ExitFwd(r) ==
  LET q == PeeledAt(r).pkt
      asserted == OpensAt(r) /\ IsPacket(PeeledAt(r)) /\ q.saddr = NoIP IN
  /\ Receives(r, "RELAY_DATA_FWD_ENC") /\ IsExit(r)
  /\ RouterTakes(r, asserted)
  /\ world' = IF asserted THEN world \cup {[q EXCEPT !.saddr = Eth(r)]} ELSE world
  /\ UNCHANGED <<s, TOR_CCt_HOPs, var, tun, delivered, entry, flags, pinged, faults>>

\* A backward datagram gets this router's layer and the identifier it was given.
BackwardMsg(r, body) ==
  Msg(r, "RELAY_DATA_BWD_ENC", htons(entry[r].givenCicuitID),
      EncryptThisMessage(entry[r].key, body))

RelayBack(r) ==
  /\ Receives(r, "RELAY_DATA_BWD_ENC")
  /\ RouterSends(r, entry[r].key # NoKey, entry[r].circuitRequesterAddr,
                 BackwardMsg(r, BodyAt(r)))
  /\ UNCHANGED <<s, TOR_CCt_HOPs, var, tun, delivered, entry, flags, world, pinged, faults>>

\* A packet on the raw socket, which must be a ping (SocketAPI.cc:356, router.cc:719),
\* loses its destination and enters the onion.  (A router without a key would
\* dereference a null pointer.)
RawReply(r) ==
  LET d == entry[r].circuitRequesterAddr IN
  /\ r \in up /\ raw[r] # << >>
  /\ IF IsPing(Head(raw[r])) /\ entry[r].key # NoKey /\ d # NoAddress
       THEN /\ inbox' = Sent(inbox, d, BackwardMsg(r, PacketBody([Head(raw[r]) EXCEPT !.daddr = NoIP])))
            /\ raw' = [raw EXCEPT ![r] = Tail(@)]
            /\ UNCHANGED <<up, phase>>
       ELSE RouterEnds(r)
  /\ UNCHANGED <<s, TOR_CCt_HOPs, var, tun, delivered, entry, flags, world, pinged, faults>>

-----------------------------------------------------------------------------
(* The Internet and failures.                                              *)

\* What comes back for request q reaches the raw socket of the router it left from.
Answering(q, type) == [q EXCEPT !.type = type, !.saddr = q.daddr, !.daddr = q.saddr]
ComesBack(q, type) ==
  raw' = IF q.saddr \in up
           THEN [raw EXCEPT ![q.saddr] = Append(@, Answering(q, type))]
           ELSE raw

InternetReplies(q) ==
  /\ q \in world
  /\ world' = world \ {q}
  /\ ComesBack(q, "reply")
  /\ UNCHANGED <<proxyVars, up, entry, flags, inbox, pinged, faults>>

InternetLoses(q) ==
  /\ q \in world /\ faults < MaxFaults
  /\ world' = world \ {q}
  /\ faults' = faults + 1
  /\ UNCHANGED <<proxyVars, routerVars, inbox, pinged>>

\* A gateway reports that the host cannot be reached.
InternetRefuses(q) ==
  /\ q \in world /\ faults < MaxFaults
  /\ world' = world \ {q}
  /\ ComesBack(q, "error")
  /\ faults' = faults + 1
  /\ UNCHANGED <<proxyVars, up, entry, flags, inbox, pinged>>

RouterIsKilled(r) ==
  /\ r \in up /\ faults < MaxFaults
  /\ RouterEnds(r)
  /\ faults' = faults + 1
  /\ UNCHANGED <<s, TOR_CCt_HOPs, var, tun, delivered, entry, flags, world, pinged>>

-----------------------------------------------------------------------------
Build      == BuildStart \/ SendKey \/ SendExtend \/ AwaitDone \/ OpenTunnel
UdpRead(r) == NewKey(r) \/ ForwardKey(r) \/ NewExtend(r) \/ ForwardExtend(r)
              \/ ForwardDone(r) \/ RelayFwd(r) \/ ExitFwd(r) \/ RelayBack(r)
Internet   == \E q \in world : InternetReplies(q)
Failure    == \/ OpenTunnelFails
              \/ \E q \in world : InternetLoses(q) \/ InternetRefuses(q)
              \/ \E r \in Router : RouterIsKilled(r)

Next ==
  \/ Build
  \/ TunnelRead \/ SocketRead
  \/ \E h \in Host : UserPings(h)
  \/ \E r \in Router : UdpRead(r) \/ RawReply(r)
  \/ Internet
  \/ Failure

\* As in PlainCircuit: processes run until they block, and the Internet answers
\* what it does not lose.
Fairness ==
  /\ WF_vars(Build)
  /\ WF_vars(TunnelRead) /\ WF_vars(SocketRead)
  /\ \A r \in Router : WF_vars(UdpRead(r)) /\ WF_vars(RawReply(r))
  /\ WF_vars(Internet)

Spec == Init /\ [][Next]_vars /\ Fairness

-----------------------------------------------------------------------------
(* Properties.                                                             *)

PrevHop(j) == IF j = 1 THEN Proxy ELSE TOR_CCt_HOPs[j - 1]
GivenAt(j) == IF j = 1 THEN CircuitID ELSE entry[TOR_CCt_HOPs[j - 1]].myCircuitID

\* A hop the proxy counts as built holds the key made for it and no other, is
\* linked to its neighbours, and knows the identifier its predecessor uses.
ConfirmedHopsInPlace ==
  \A j \in 1 .. var :
    LET e == entry[TOR_CCt_HOPs[j]] IN
    /\ e.key = TOR_CCt_HOPs[j]
    /\ e.circuitRequesterAddr = PrevHop(j)
    /\ e.nextHop = TOR_CCt_HOPs[j + 1]
    /\ e.givenCicuitID = GivenAt(j)
    /\ e.myCircuitID = MyCircuitID(GivenAt(j), TOR_CCt_HOPs[j])

\* What waits at hop i is wrapped for exactly the hops that still have to open it:
\* a key or a next hop meant for hop j is bare at none before j, a ping is bare at
\* no hop, and an answer has the layers of the hops it came through
\* (proxy.cc:217-246, router.cc:298 and 333).
HopsFrom(i, j) == SubSeq(TOR_CCt_HOPs, i, j)
OnionLayers ==
  phase # "start" =>
  \A i \in 1 .. noOfHops : \A n \in DOMAIN inbox[TOR_CCt_HOPs[i]] :
    LET m == inbox[TOR_CCt_HOPs[i]][n] IN
    /\ m.cmd = "FAKE_DIFFIE_HELLMAN" =>
         \E j \in i .. noOfHops : m.body.key = TOR_CCt_HOPs[j] /\ m.body.layers = HopsFrom(i, j - 1)
    /\ m.cmd = "ENC_CIRCUIT_EXTEND" =>
         \E j \in i .. noOfHops : m.body.next = TOR_CCt_HOPs[j + 1] /\ m.body.layers = HopsFrom(i, j)
    /\ m.cmd = "RELAY_DATA_FWD_ENC" => m.body.layers = HopsFrom(i, noOfHops)
    /\ m.cmd = "RELAY_DATA_BWD_ENC" => m.body.layers = HopsFrom(i + 1, noOfHops)

\* Identifiers name circuits: what reaches a router from the proxy's side bears
\* the identifier it was given, what comes back the one it hands on, extend-done
\* messages included; and it comes from the neighbour on that side, which is what
\* router.cc:421-422 would like to assert.
IdentifiersAgree ==
  \A r \in Router : \A n \in DOMAIN inbox[r] :
    LET m == inbox[r][n]
        e == entry[r] IN
    IF m.cmd \in {"ENC_CIRCUIT_EXTEND_DONE", "RELAY_DATA_BWD_ENC"}
      THEN m.cid = htons(e.myCircuitID) /\ m.from = e.nextHop
      ELSE TO_FORWARD_FDH[r] =>
             m.cid = htons(e.givenCicuitID) /\ m.from = e.circuitRequesterAddr

\* While the circuit is built two datagrams are on their way at most, a key and
\* the extend message behind it, and none when the proxy sends the next key: a
\* receive buffer for two loses nothing.
InFlight == {q \in Node \X (1 .. RcvBuf) : q[2] \in DOMAIN inbox[q[1]]}
KeyThenExtend ==
  /\ phase \in {"start", "key", "built"} => InFlight = {}
  /\ phase = "extend" => Cardinality(InFlight) <= 1
  /\ phase = "await"  => Cardinality(InFlight) <= 2

\* The proxy never aborts.  A router ends when it is killed, or as the exit whose raw
\* socket has an ICMP error (SocketAPI.cc:356): no other assertion fails on either
\* side, no key is missing and no address unset.
EndsOnlyByFailure ==
  [][/\ phase' # "aborted"
     /\ \A r \in up \ up' :
          \/ faults' = faults + 1
          \/ /\ r = TOR_CCt_HOPs[noOfHops] /\ raw[r] # << >>
             /\ Head(raw[r]).type = "error"]_vars

\* Stage 6 keeps the promise of the circuit service whatever fails ...
Service == INSTANCE CircuitService WITH
  path <- SubSeq(TOR_CCt_HOPs, 1, var), asked <- pinged, answered <- AnswersOf(delivered)
ImplementsSafeService == Service!SafeSpec

\* ... and is live when nothing does.
ImplementsService == Service!Spec
-----------------------------------------------------------------------------
(* The inductive invariant behind the safety properties: the phase of the  *)
(* proxy and the place of a datagram tell which one it is.                 *)

Exit == TOR_CCt_HOPs[noOfHops]

Wrapped(b, i, j) == [b EXCEPT !.layers = HopsFrom(i, j)]
ToHop(i, cmd, body) == Msg(PrevHop(i), cmd, htons(GivenAt(i)), body)
FromHop(i, cmd, body) == Msg(TOR_CCt_HOPs[i], cmd, htons(GivenAt(i)), body)

\* While hop var + 1 is added: its key and its extend message at hop i, and the
\* answer of hop i.
KeyTo(i)    == ToHop(i, "FAKE_DIFFIE_HELLMAN", Wrapped(KeyBody(TOR_CCt_HOPs[var + 1]), i, var))
ExtendTo(i) == ToHop(i, "ENC_CIRCUIT_EXTEND", Wrapped(PortBody(TOR_CCt_HOPs[var + 2]), i, var + 1))
DoneBy(i)   == FromHop(i, "ENC_CIRCUIT_EXTEND_DONE", Empty)

\* The hop at which the key or the extend message is, none for number 0.
At(p) == IF p = 0 THEN NoAddress ELSE TOR_CCt_HOPs[p]

\* The queues when the key is at hop k and the extend message at hop e, behind the
\* key if it is the same hop, and when hop i has answered; nothing else is on its way.
KeyAndExtend(k, e) ==
  [n \in Node |-> IF n = At(k) THEN IF e = k THEN <<KeyTo(k), ExtendTo(e)>> ELSE <<KeyTo(k)>>
                  ELSE IF n = At(e) THEN <<ExtendTo(e)>> ELSE << >>]
Answer(i) ==
  [n \in Node |-> IF i # 0 /\ n = PrevHop(i) THEN <<DoneBy(i)>> ELSE << >>]
Silent == inbox = [n \in Node |-> << >>]

\* The entry and the flags of a router: before its key, between its key and its
\* extend message, and as a hop of the circuit.
Holds(r, e, fdh, ece) == entry[r] = e /\ TO_FORWARD_FDH[r] = fdh /\ TO_FORWARD_ECE[r] = ece
Fresh(r) == Holds(r, ZeroEntry, FALSE, FALSE)
KeyedEntry(i) ==
  [circuitRequesterAddr |-> PrevHop(i), givenCicuitID |-> GivenAt(i), myCircuitID |-> 0,
   nextHop |-> NoAddress, key |-> TOR_CCt_HOPs[i]]
Keyed(i) == Holds(TOR_CCt_HOPs[i], KeyedEntry(i), TRUE, FALSE)
LinkedEntry(i) ==
  [circuitRequesterAddr |-> PrevHop(i), givenCicuitID |-> GivenAt(i),
   myCircuitID |-> MyCircuitID(GivenAt(i), TOR_CCt_HOPs[i]),
   nextHop |-> TOR_CCt_HOPs[i + 1], key |-> TOR_CCt_HOPs[i]]
Linked(i) == Holds(TOR_CCt_HOPs[i], LinkedEntry(i), TRUE, TRUE)

\* The first n hops are linked, and only the first m know anything.
Placed(n, m) ==
  /\ \A i \in 1 .. n : Linked(i)
  /\ \A r \in Router : (\A i \in 1 .. m : r # TOR_CCt_HOPs[i]) => Fresh(r)

\* The hop to add holds its key, or the key is on its way at hop k, or it was lost to
\* a hop that is gone; then the extend message at hop e gets no further, either.
KeyedOrNot(k, e) ==
  \/ k = 0 /\ Keyed(var + 1)
  \/ k # 0 /\ e <= k /\ Fresh(TOR_CCt_HOPs[var + 1])
  \/ /\ k = 0 /\ Fresh(TOR_CCt_HOPs[var + 1])
     /\ \E d \in e + 1 .. var + 1 : TOR_CCt_HOPs[d] \notin up

Adding ==
  /\ Placed(var, var + 1)
  /\ \E k, e \in 0 .. var + 1 :
       inbox = KeyAndExtend(k, e) /\ KeyedOrNot(k, e) /\ (phase = "extend" => e = 0)

Added ==
  /\ phase = "await" /\ Placed(var + 1, var + 1)
  /\ \E i \in 0 .. var + 1 : inbox = Answer(i)

Building == phase \in {"start", "key", "extend", "await", "built"}
Resting  == phase \in {"start", "key", "built"}

BuildInv ==
  /\ tun = << >> /\ delivered = << >> /\ world = {} /\ pinged = << >>
  /\ raw = [r \in Router |-> << >>]
  /\ IF Resting THEN Silent /\ Placed(var, var) ELSE Adding \/ Added

\* Requests between the proxy and the exit bear no source, replies no destination.
Requests(a) == {p \in Packet : p.type = "request" /\ p.saddr = a}
Replies     == {p \in Packet : p.type = "reply"}

Forward(i)  == {ToHop(i, "RELAY_DATA_FWD_ENC", Wrapped(PacketBody(p), i, noOfHops)) :
                  p \in Requests(NoIP)}
Backward(i) == {FromHop(i, "RELAY_DATA_BWD_ENC", Wrapped(PacketBody(p), i, noOfHops)) :
                  p \in Replies}
Receivable(d) ==
  UNION ({Forward(i) : i \in {i \in 1 .. noOfHops : d = TOR_CCt_HOPs[i]}}
         \cup {Backward(i) : i \in {i \in 1 .. noOfHops : d = PrevHop(i)}})

ServeInv ==
  /\ Placed(noOfHops, noOfHops)
  /\ tun \in Seq(Requests(Eth(0))) /\ delivered \in Seq(Replies)
  /\ world \subseteq Requests(Eth(Exit))
  /\ raw = [r \in Router |-> raw[r]]
  /\ \A r \in Router : raw[r] \in Seq(Replies \cup IcmpError) /\ (raw[r] # << >> => r = Exit)
  /\ inbox = [n \in Node |-> inbox[n]]
  /\ \A n \in Node : inbox[n] \in Seq(Receivable(n))

HopsChosen ==
  IF phase = "start"
    THEN s = 1 /\ TOR_CCt_HOPs = << >> /\ var = 0
    ELSE s = 2 /\ \E i \in 0 .. noOfRouters - 1 : TOR_CCt_HOPs = RandomlySelectHops2(i)

OnionInv ==
  /\ TypeOK /\ HopsChosen
  /\ phase # "aborted"
  /\ phase \in {"key", "extend", "await"} => var < noOfHops
  /\ phase \in {"built", "relay", "exited"} => var = noOfHops
  /\ IF Building THEN BuildInv ELSE ServeInv
=============================================================================
