---------------------------- MODULE PlainCircuit ----------------------------
(***************************************************************************)
(* Stage 5: a circuit without encryption.  The proxy extends the circuit   *)
(* hop by hop (proxy.cc, Build_An_Circuit), then relays the pings that the *)
(* user's applications send into the tunnel (tunnelPlusSock_reader); each  *)
(* router keeps one circuit entry and handles extend, extend-done and relay*)
(* messages and the answers that reach its raw socket (router.cc, Handler  *)
(* and RelayThisStuff).                                                    *)
(*                                                                         *)
(* The module starts where Startup ends: every router has registered and   *)
(* waits in select.  A datagram is a record; its field cid is the two bytes*)
(* at offset 21 as the little-endian host reads them.  What goes wrong is  *)
(* bounded by MaxFaults: a router is killed, the tunnel device cannot be   *)
(* opened, the Internet loses a ping or answers it with an ICMP error,     *)
(* whose length is not the 84 bytes that the routers assert of a packet.   *)
(*                                                                         *)
(* A definition X_suffix above a definition X is X with a fault put in, to *)
(* see that the properties below would notice it; no behaviour uses it.    *)
(***************************************************************************)
EXTENDS MiniTor, FiniteSets

CONSTANTS Host,       \* IP addresses of hosts on the Internet
          MaxPings,   \* bound on the pings users send
          RcvBuf,     \* datagrams a UDP receive buffer holds
          MaxFaults   \* bound on failures

ASSUME PlainAssumption ==
  /\ Host \subseteq Int /\ Host \cap (NoIP .. noOfRouters) = {}
  /\ MaxPings \in Nat /\ RcvBuf \in Nat \ {0} /\ MaxFaults \in Nat

VARIABLES
  \* The proxy.
  phase,          \* where its thread of control is
  s,              \* proxy.cc:125, the next circuit number
  myCctHops,      \* the hops, closed by LAST_HOP_PortNumber
  var,            \* the loop variable of Build_An_Circuit
  sendToAddress,  \* of sockParent
  tun,            \* packets waiting in the tunnel device
  delivered,      \* packets the proxy wrote to the tunnel device
  \* The routers.
  up,             \* the router processes that run
  entry,          \* CircuitInfoEntryTable[0] of each router
  TO_FORWARD,
  raw,            \* receive queue of each router's raw socket
  \* The network.
  inbox,          \* receive queues of the UDP sockets
  world,          \* echo requests travelling on the Internet
  \* Bookkeeping.
  pinged,         \* the hosts pinged so far: ping n went to pinged[n]
  faults

proxyVars  == <<phase, s, myCctHops, var, sendToAddress, tun, delivered>>
routerVars == <<up, entry, TO_FORWARD, raw>>
vars == <<proxyVars, routerVars, inbox, world, pinged, faults>>

-----------------------------------------------------------------------------
(* Messages and packets.                                                   *)

Commands == {"CIRCUIT_EXTEND", "CIRCUIT_EXTEND_DONE",
             "RELAY_THIS_DATA_FWD", "RELAY_THIS_DATA_BACKWD"}

Ping     == 1 .. MaxPings
IP       == {NoIP} \cup (0 .. noOfRouters) \cup Host
HopPort  == Router \cup {LAST_HOP_PortNumber, NoAddress}

\* Pings have 84 bytes.  An ICMP error, which can reach a raw socket, has not.
Packet    == [id : Ping, type : {"request", "reply"}, saddr : IP, daddr : IP]
IcmpError == [id : Ping, type : {"error"}, saddr : IP, daddr : IP]
NoPacket  == [id |-> 0, type |-> "none", saddr |-> NoIP, daddr |-> NoIP]
IsPing(p) == p.type \in {"request", "reply"}

Message == [from : Node, cmd : Commands, cid : Word, next : HopPort,
            pkt : Packet \cup {NoPacket}]

ExtendMsg(from, cid, next) ==
  [from |-> from, cmd |-> "CIRCUIT_EXTEND", cid |-> cid, next |-> next, pkt |-> NoPacket]

DoneMsg(from, cid) ==
  [from |-> from, cmd |-> "CIRCUIT_EXTEND_DONE", cid |-> cid, next |-> NoAddress,
   pkt |-> NoPacket]

RelayMsg(from, cmd, cid, pkt) ==
  [from |-> from, cmd |-> cmd, cid |-> cid, next |-> NoAddress, pkt |-> pkt]

\* 23 bytes and nothing behind them, the length of an extend-done message.
IsBare(m) == m.next = NoAddress /\ m.pkt = NoPacket

CircuitInfoEntry ==
  [circuitRequesterAddr : Node \cup {NoAddress}, prevHopRealIP : IP,
   givenCicuitID : Word, myCircuitID : Word, nextHop : HopPort]

ZeroEntry ==
  [circuitRequesterAddr |-> NoAddress, prevHopRealIP |-> NoIP,
   givenCicuitID |-> 0, myCircuitID |-> 0, nextHop |-> NoAddress]

TypeOK ==
  /\ phase \in {"start", "send", "await", "built", "relay", "exited"}
  /\ s \in Word
  /\ myCctHops \in {<< >>} \cup {RandomlySelectHops2(i) : i \in 0 .. noOfRouters - 1}
  /\ var \in 0 .. noOfHops
  /\ sendToAddress \in Router \cup {NoAddress}
  /\ tun \in Seq(Packet)
  /\ delivered \in Seq(Packet \cup {NoPacket})
  /\ up \subseteq Router
  /\ entry \in [Router -> CircuitInfoEntry]
  /\ TO_FORWARD \in [Router -> BOOLEAN]
  /\ raw \in [Router -> Seq(Packet \cup IcmpError)]
  /\ inbox \in [Node -> Seq(Message)]
  /\ world \subseteq Packet
  /\ pinged \in Seq(Host) /\ Len(pinged) <= MaxPings
  /\ faults \in 0 .. MaxFaults

Init ==
  /\ phase = "start"
  /\ s = 1
  /\ myCctHops = << >>
  /\ var = 0
  /\ sendToAddress = NoAddress
  /\ tun = << >>
  /\ delivered = << >>
  /\ up = Router
  /\ entry = [r \in Router |-> ZeroEntry]
  /\ TO_FORWARD = [r \in Router |-> FALSE]
  /\ raw = [r \in Router |-> << >>]
  /\ inbox = [n \in Node |-> << >>]
  /\ world = {}
  /\ pinged = << >>
  /\ faults = 0

-----------------------------------------------------------------------------
(* Sending.                                                                *)

LiveNodes == up \cup (IF phase = "exited" THEN {} ELSE {Proxy})

\* The state of the UDP queues after m was sent to d, given them before.
Sent(queues, d, m) == Deliver(queues, LiveNodes, RcvBuf, d, m)

\* A router process ends.  The proxy gets SIGCHLD: blocked in select it is
\* interrupted and exits (proxy.cc:402-406), blocked in recvfrom it goes on
\* waiting (SA_RESTART), and between two calls it does not notice.
RouterEnds(r) ==
  /\ up' = up \ {r}
  /\ inbox' = [inbox EXCEPT ![r] = << >>]
  /\ raw' = [raw EXCEPT ![r] = << >>]
  /\ phase' \in IF phase = "relay" THEN {"relay", "exited"} ELSE {phase}

\* Router r takes the first datagram of its UDP queue and sends m to d.  A failed
\* assertion ends the process, and so does a sendto to port 0, from an entry that
\* was never filled.
RouterSends(r, asserted, d, m) ==
  IF asserted /\ d # NoAddress
    THEN /\ inbox' = Sent(Consume(inbox, r), d, m)
         /\ UNCHANGED <<up, raw, phase>>
    ELSE RouterEnds(r)

-----------------------------------------------------------------------------
(* The proxy builds the circuit (proxy.cc, Build_An_Circuit).              *)

CircuitID == s - 1

BuildStart ==
  /\ phase = "start"
  /\ \E i \in 0 .. noOfRouters - 1 :
       /\ myCctHops' = RandomlySelectHops2(i)
       /\ sendToAddress' = RandomlySelectHops2(i)[1]
  /\ s' = s + 1
  /\ var' = 0
  /\ phase' = "send"
  /\ UNCHANGED <<tun, delivered, routerVars, inbox, world, pinged, faults>>

\* The port the extend message carries for hop: whoHaveSendMe[hop - 1], or the
\* exit marker.
NextHopInfo_offByOne(hop) ==
  IF hop = LAST_HOP_PortNumber THEN hop ELSE (hop % noOfRouters) + 1
NextHopInfo(hop) == hop

\* CreateExtendCctMessage stores the circuit number without htons.
SendExtend_noWait ==
  /\ phase = "send"
  /\ inbox' = Sent(inbox, sendToAddress,
                   ExtendMsg(Proxy, CircuitID, NextHopInfo(myCctHops[var + 2])))
  /\ var' = var + 1
  /\ phase' = IF var + 1 = noOfHops THEN "built" ELSE "send"
  /\ UNCHANGED <<s, myCctHops, sendToAddress, tun, delivered, routerVars, world,
                 pinged, faults>>
SendExtend ==
  /\ phase = "send"
  /\ inbox' = Sent(inbox, sendToAddress,
                   ExtendMsg(Proxy, CircuitID, NextHopInfo(myCctHops[var + 2])))
  /\ phase' = "await"
  /\ UNCHANGED <<s, myCctHops, var, sendToAddress, tun, delivered, routerVars, world,
                 pinged, faults>>

\* Any datagram ends the wait: only a log line depends on what it says.
AwaitDone ==
  /\ phase = "await" /\ inbox[Proxy] # << >>
  /\ inbox' = Consume(inbox, Proxy)
  /\ var' = var + 1
  /\ phase' = IF var + 1 = noOfHops THEN "built" ELSE "send"
  /\ UNCHANGED <<s, myCctHops, sendToAddress, tun, delivered, routerVars, world,
                 pinged, faults>>

OpenTunnel ==
  /\ phase = "built"
  /\ phase' = "relay"
  /\ UNCHANGED <<s, myCctHops, var, sendToAddress, tun, delivered, routerVars, inbox,
                 world, pinged, faults>>

OpenTunnelFails ==
  /\ phase = "built" /\ faults < MaxFaults
  /\ phase' = "exited"
  /\ faults' = faults + 1
  /\ UNCHANGED <<s, myCctHops, var, sendToAddress, tun, delivered, routerVars, inbox,
                 world, pinged>>

-----------------------------------------------------------------------------
(* The proxy relays (proxy.cc, tunnelPlusSock_reader, stage 5).            *)

\* An application on the host pings h: the kernel routes it into the tunnel.
UserPings(h) ==
  /\ phase = "relay" /\ Len(pinged) < MaxPings
  /\ pinged' = Append(pinged, h)
  /\ tun' = Append(tun, [id |-> Len(pinged) + 1, type |-> "request",
                         saddr |-> Eth(0), daddr |-> h])
  /\ UNCHANGED <<phase, s, myCctHops, var, sendToAddress, delivered, routerVars, inbox,
                 world, faults>>

TunnelRead_again ==
  /\ phase = "relay" /\ tun # << >>
  /\ tun' \in {tun, Tail(tun)}
  /\ sendToAddress' = myCctHops[1]
  /\ inbox' = Sent(inbox, myCctHops[1],
                   RelayMsg(Proxy, "RELAY_THIS_DATA_FWD", CircuitID, Head(tun)))
  /\ UNCHANGED <<phase, s, myCctHops, var, delivered, routerVars, world, pinged, faults>>
TunnelRead ==
  /\ phase = "relay" /\ tun # << >>
  /\ tun' = Tail(tun)
  /\ sendToAddress' = myCctHops[1]
  /\ inbox' = Sent(inbox, myCctHops[1],
                   RelayMsg(Proxy, "RELAY_THIS_DATA_FWD", CircuitID, Head(tun)))
  /\ UNCHANGED <<phase, s, myCctHops, var, delivered, routerVars, world, pinged, faults>>

\* Whatever arrives is stripped of 23 bytes and written to the tunnel.
SocketRead ==
  /\ phase = "relay" /\ inbox[Proxy] # << >>
  /\ inbox' = Consume(inbox, Proxy)
  /\ delivered' = Append(delivered, Head(inbox[Proxy]).pkt)
  /\ UNCHANGED <<phase, s, myCctHops, var, sendToAddress, tun, routerVars, world,
                 pinged, faults>>

-----------------------------------------------------------------------------
(* A router handles a datagram (router.cc, Handler, stage 5).              *)

Receives(r, cmd) ==
  /\ r \in up /\ inbox[r] # << >>
  /\ Head(inbox[r]).cmd = cmd

\* The entry a first extend message m creates at router r; prevHopRealIP stays.
NewEntry_noRequester(r, m) ==
  [entry[r] EXCEPT !.givenCicuitID = htons(m.cid),
                   !.myCircuitID = MyCircuitID(htons(m.cid), r),
                   !.nextHop = m.next]
NewEntry(r, m) ==
  [entry[r] EXCEPT !.circuitRequesterAddr = m.from,
                   !.givenCicuitID = htons(m.cid),
                   !.myCircuitID = MyCircuitID(htons(m.cid), r),
                   !.nextHop = m.next]

\* The answer goes to lastSender, with the identifier as it came.
NewExtend(r) ==
  LET m == Head(inbox[r]) IN
  /\ Receives(r, "CIRCUIT_EXTEND") /\ ~ TO_FORWARD[r]
  /\ entry' = [entry EXCEPT ![r] = NewEntry(r, m)]
  /\ TO_FORWARD' = [TO_FORWARD EXCEPT ![r] = TRUE]
  /\ RouterSends(r, TRUE, m.from, DoneMsg(r, m.cid))
  /\ UNCHANGED <<s, myCctHops, var, sendToAddress, tun, delivered, world, pinged, faults>>

ExtendOnward_sameId(r, m) == ExtendMsg(r, m.cid, m.next)
ExtendOnward(r, m) == ExtendMsg(r, htons(entry[r].myCircuitID), m.next)

ForwardExtend(r) ==
  LET m == Head(inbox[r]) IN
  /\ Receives(r, "CIRCUIT_EXTEND") /\ TO_FORWARD[r]
  /\ RouterSends(r, TRUE, entry[r].nextHop, ExtendOnward(r, m))
  /\ UNCHANGED <<s, myCctHops, var, sendToAddress, tun, delivered, entry, TO_FORWARD,
                 world, pinged, faults>>

\* The identifier of an extend-done message is not translated on the way back.
ForwardDone(r) ==
  LET m == Head(inbox[r]) IN
  /\ Receives(r, "CIRCUIT_EXTEND_DONE")
  /\ RouterSends(r, IsBare(m), entry[r].circuitRequesterAddr, DoneMsg(r, m.cid))
  /\ UNCHANGED <<s, myCctHops, var, sendToAddress, tun, delivered, entry, TO_FORWARD,
                 world, pinged, faults>>

-----------------------------------------------------------------------------
(* Relaying towards the exit (router.cc, RelayThisStuff, forward).         *)

IsExit(r) == entry[r].nextHop = LAST_HOP_PortNumber

\* Source address and identifier are replaced; the old source is remembered.
PingOnward_sameId(r, m) ==
  RelayMsg(r, "RELAY_THIS_DATA_FWD", m.cid, [m.pkt EXCEPT !.saddr = Eth(r)])
PingOnward_sameSource(r, m) ==
  RelayMsg(r, "RELAY_THIS_DATA_FWD", htons(entry[r].myCircuitID), m.pkt)
PingOnward(r, m) ==
  RelayMsg(r, "RELAY_THIS_DATA_FWD", htons(entry[r].myCircuitID),
           [m.pkt EXCEPT !.saddr = Eth(r)])

RelayFwd(r) ==
  LET m == Head(inbox[r]) IN
  /\ Receives(r, "RELAY_THIS_DATA_FWD") /\ ~ IsExit(r)
  /\ entry' = [entry EXCEPT ![r].prevHopRealIP = m.pkt.saddr]
  /\ RouterSends(r, TRUE, entry[r].nextHop, PingOnward(r, m))
  /\ UNCHANGED <<s, myCctHops, var, sendToAddress, tun, delivered, TO_FORWARD, world,
                 pinged, faults>>

\* The exit asserts that it has a ping.  SendToWorld sends the ICMP part; the kernel
\* puts the address of the exit's raw socket into the new IP header.
ExitFwd(r) ==
  LET m == Head(inbox[r]) IN
  /\ Receives(r, "RELAY_THIS_DATA_FWD") /\ IsExit(r)
  /\ IF IsPing(m.pkt)
       THEN /\ inbox' = Consume(inbox, r)
            /\ world' = world \cup {[m.pkt EXCEPT !.saddr = Eth(r)]}
            /\ UNCHANGED <<up, raw, phase>>
       ELSE RouterEnds(r) /\ UNCHANGED world
  /\ UNCHANGED <<s, myCctHops, var, sendToAddress, tun, delivered, entry, TO_FORWARD,
                 pinged, faults>>

-----------------------------------------------------------------------------
(* The Internet.                                                           *)

\* What comes back for request q reaches the raw socket of the router it left from.
Answering(q, type) == [q EXCEPT !.type = type, !.saddr = q.daddr, !.daddr = q.saddr]
ComesBack(q, type) ==
  raw' = IF q.saddr \in up
           THEN [raw EXCEPT ![q.saddr] = Append(@, Answering(q, type))]
           ELSE raw

InternetReplies(q) ==
  /\ q \in world
  /\ world' = world \ {q}
  /\ ComesBack(q, "reply")
  /\ UNCHANGED <<proxyVars, up, entry, TO_FORWARD, inbox, pinged, faults>>

InternetLoses(q) ==
  /\ q \in world /\ faults < MaxFaults
  /\ world' = world \ {q}
  /\ faults' = faults + 1
  /\ UNCHANGED <<proxyVars, routerVars, inbox, pinged>>

\* A gateway reports that the host cannot be reached.
InternetRefuses(q) ==
  /\ q \in world /\ faults < MaxFaults
  /\ world' = world \ {q}
  /\ ComesBack(q, "error")
  /\ faults' = faults + 1
  /\ UNCHANGED <<proxyVars, up, entry, TO_FORWARD, inbox, pinged>>

-----------------------------------------------------------------------------
(* Relaying back to the proxy (router.cc, RelayThisStuff, backward).       *)

IsFirstHop(r) == entry[r].circuitRequesterAddr = Proxy

\* The datagram router r makes of a backward one with identifier cid and packet
\* pkt: the first hop restores the address of eth0 and leaves the identifier,
\* the others restore what they remember of the forward way.
BackwardMsg_firstHopSameIP(r, cid, pkt) ==
  IF IsFirstHop(r)
    THEN RelayMsg(r, "RELAY_THIS_DATA_BACKWD", cid, pkt)
    ELSE RelayMsg(r, "RELAY_THIS_DATA_BACKWD", htons(entry[r].givenCicuitID),
                  [pkt EXCEPT !.daddr = entry[r].prevHopRealIP])
BackwardMsg(r, cid, pkt) ==
  IF IsFirstHop(r)
    THEN RelayMsg(r, "RELAY_THIS_DATA_BACKWD", cid, [pkt EXCEPT !.daddr = Eth(0)])
    ELSE RelayMsg(r, "RELAY_THIS_DATA_BACKWD", htons(entry[r].givenCicuitID),
                  [pkt EXCEPT !.daddr = entry[r].prevHopRealIP])

RelayBack(r) ==
  LET m == Head(inbox[r]) IN
  /\ Receives(r, "RELAY_THIS_DATA_BACKWD")
  /\ RouterSends(r, IsPing(m.pkt), entry[r].circuitRequesterAddr,
                 BackwardMsg(r, m.cid, m.pkt))
  /\ UNCHANGED <<s, myCctHops, var, sendToAddress, tun, delivered, entry, TO_FORWARD,
                 world, pinged, faults>>

\* A packet on the raw socket, which must be a ping (SocketAPI.cc:356, router.cc:687),
\* is wrapped under the given identifier and relayed like a backward message.
RawReply(r) ==
  LET d == entry[r].circuitRequesterAddr IN
  /\ r \in up /\ raw[r] # << >>
  /\ IF IsPing(Head(raw[r])) /\ d # NoAddress
       THEN /\ inbox' = Sent(inbox, d, BackwardMsg(r, htons(entry[r].givenCicuitID), Head(raw[r])))
            /\ raw' = [raw EXCEPT ![r] = Tail(@)]
            /\ UNCHANGED <<up, phase>>
       ELSE RouterEnds(r)
  /\ UNCHANGED <<s, myCctHops, var, sendToAddress, tun, delivered, entry, TO_FORWARD,
                 world, pinged, faults>>

-----------------------------------------------------------------------------
RouterIsKilled(r) ==
  /\ r \in up /\ faults < MaxFaults
  /\ RouterEnds(r)
  /\ faults' = faults + 1
  /\ UNCHANGED <<s, myCctHops, var, sendToAddress, tun, delivered, entry, TO_FORWARD,
                 world, pinged>>

-----------------------------------------------------------------------------
Build     == BuildStart \/ SendExtend \/ AwaitDone \/ OpenTunnel
UdpRead(r) == NewExtend(r) \/ ForwardExtend(r) \/ ForwardDone(r)
              \/ RelayFwd(r) \/ ExitFwd(r) \/ RelayBack(r)
Internet  == \E q \in world : InternetReplies(q)
Failure   == \/ OpenTunnelFails
             \/ \E q \in world : InternetLoses(q) \/ InternetRefuses(q)
             \/ \E r \in Router : RouterIsKilled(r)

Next ==
  \/ Build
  \/ TunnelRead \/ SocketRead
  \/ \E h \in Host : UserPings(h)
  \/ \E r \in Router : UdpRead(r) \/ RawReply(r)
  \/ Internet
  \/ Failure

\* Each process runs on until it blocks, and a turn of its select loop serves
\* every descriptor that is ready.  The Internet answers what it does not lose.
\* Users need not ping and nothing has to fail.
Fairness ==
  /\ WF_vars(Build)
  /\ WF_vars(TunnelRead) /\ WF_vars(SocketRead)
  /\ \A r \in Router : WF_vars(UdpRead(r)) /\ WF_vars(RawReply(r))
  /\ WF_vars(Internet)

Spec == Init /\ [][Next]_vars /\ Fairness

-----------------------------------------------------------------------------
(* Properties.                                                             *)

\* The node before hop j, and the identifier hop j is to be given.
PrevHop(j) == IF j = 1 THEN Proxy ELSE myCctHops[j - 1]
GivenAt(j) == IF j = 1 THEN htons(CircuitID) ELSE entry[myCctHops[j - 1]].myCircuitID

\* Hop j holds its entry, linked to its neighbours in both directions.
InPlace(j) ==
  LET r == myCctHops[j] IN
  /\ TO_FORWARD[r]
  /\ entry[r].circuitRequesterAddr = PrevHop(j)
  /\ entry[r].nextHop = myCctHops[j + 1]
  /\ entry[r].givenCicuitID = GivenAt(j)
  /\ entry[r].myCircuitID = MyCircuitID(GivenAt(j), r)

\* The proxy takes any datagram for the extend-done it waits for
\* (proxy.cc:145-158); still every hop it counts as built is in place.
ConfirmedHopsInPlace == \A j \in 1 .. var : InPlace(j)

\* Build_An_Circuit and the routers play strictly in turn: at most one datagram
\* is on its way, and none once the proxy has the floor.
Building == phase \in {"start", "send", "await", "built"}
TurnTaking ==
  Building =>
    /\ \A n \in Node : Len(inbox[n]) <= 1
    /\ \A n, o \in Node : inbox[n] # << >> /\ inbox[o] # << >> => n = o
    /\ phase # "await" => \A n \in Node : inbox[n] = << >>

\* Routers that were not selected take no part: no datagram reaches them and
\* their table stays as it was.
OnPath(r) == \E j \in DOMAIN myCctHops : myCctHops[j] = r
BystandersUntouched ==
  \A r \in Router : ~ OnPath(r) =>
    inbox[r] = << >> /\ raw[r] = << >> /\ entry[r] = ZeroEntry /\ ~ TO_FORWARD[r]

\* RelayThisStuff uses table entry 0 where its comments speak of a look-up by
\* identifier (router.cc:156 and 217): the look-up would find that entry, and
\* the datagram comes from the neighbour the entry names.
LookupWouldAgree ==
  \A r \in Router : \A n \in DOMAIN inbox[r] :
    LET m == inbox[r][n] IN
    /\ m.cmd = "RELAY_THIS_DATA_FWD" =>
         m.cid = htons(entry[r].givenCicuitID) /\ m.from = entry[r].circuitRequesterAddr
    /\ m.cmd = "RELAY_THIS_DATA_BACKWD" =>
         m.cid = htons(entry[r].myCircuitID) /\ m.from = entry[r].nextHop

\* A hop behind the first sees its predecessor as the source of a ping, and the
\* Internet sees the exit: the host's own address is in neither (router.cc:167-173).
SourceIsThePredecessor ==
  /\ \A j \in 2 .. noOfHops : phase # "start" =>
       \A n \in DOMAIN inbox[myCctHops[j]] :
         LET m == inbox[myCctHops[j]][n] IN
         m.cmd = "RELAY_THIS_DATA_FWD" => m.pkt.saddr = Eth(myCctHops[j - 1])
  /\ \A q \in world : q.saddr = Eth(myCctHops[noOfHops])

\* A ping is in one place: the tunnel, a queue, the Internet, a raw socket that
\* holds what came back for it, or answered.
NoPingIsDuplicated ==
  \A n \in Ping : OnePlace(n, PingsIn(tun, delivered, Carried(inbox), raw, world))

\* A hop the proxy still needs for the hop it asked for: all of them before it asks
\* and while the question is on its way, those before the answer afterwards.
StillNeeded(j) ==
  \/ phase = "send"
  \/ \E k \in 1 .. var + 1 :
       LET q == inbox[myCctHops[k]] IN
       q # << >> /\ (Head(q).cmd = "CIRCUIT_EXTEND" \/ j < k)

\* A hop that dies while it is needed, or a datagram lost, leaves the proxy in
\* recvfrom for ever (proxy.cc:145, no timeout, SA_RESTART): whatever else happens,
\* it neither counts another hop nor serves a circuit with a gap.
Doomed ==
  /\ phase \in {"send", "await"}
  /\ \/ phase = "await" /\ \A n \in Node : inbox[n] = << >>
     \/ \E j \in 1 .. var + 1 : myCctHops[j] \notin up /\ StillNeeded(j)
LostHopBlocksBuild == [][Doomed => Doomed' /\ var' = var]_vars

\* A router ends when it is killed, or as the exit whose raw socket has an ICMP error
\* (SocketAPI.cc:356): for no address that was never set (router.cc:591, 611, 240),
\* and for no other of the lengths that router.cc:190, 216, 610 and 687 assert.
RoutersEndOnlyByFailure ==
  [][\A r \in up \ up' :
       \/ faults' = faults + 1
       \/ /\ r = myCctHops[noOfHops] /\ raw[r] # << >>
          /\ Head(raw[r]).type = "error"]_vars

\* What users get is an answer to what they asked, once, from the host they
\* asked, and addressed to eth0: with the hops the proxy counts as the path,
\* stage 5 implements the circuit service, failures or not.
Service == INSTANCE CircuitService WITH
  path <- SubSeq(myCctHops, 1, var), asked <- pinged, answered <- AnswersOf(delivered)
ImplementsSafeService == Service!SafeSpec

\* Without failures the service is live as well: the circuit is completed and
\* every ping is answered.
ImplementsService == Service!Spec

\* What the log line of a forwarded extend-done says (router.cc:618): it leaves
\* under the identifier the sender was given.
DoneCarriesGivenId ==
  \A d \in Node : \A n \in DOMAIN inbox[d] :
    LET m == inbox[d][n] IN
    m.cmd = "CIRCUIT_EXTEND_DONE" => m.cid = htons(entry[m.from].givenCicuitID)

\* What README.md:2 claims, "failure detection and recovery": when a router of a
\* working circuit has died and enough routers are left, a circuit of live
\* routers comes into service again.
PathAlive == \A j \in 1 .. noOfHops : myCctHops[j] \in up
FailureRecovery ==
  phase = "relay" /\ ~ PathAlive /\ Cardinality(up) >= noOfHops
    ~> phase = "relay" /\ PathAlive

\* A reply is addressed to the host's eth0 when it reaches the tunnel, though it
\* left the exit router addressed to 0.0.0.0 (router.cc:237 of an entry whose
\* prevHopRealIP the exit never sets).
RepliesReachEth0 ==
  \A k \in DOMAIN delivered : delivered[k].type = "reply" /\ delivered[k].daddr = Eth(0)

-----------------------------------------------------------------------------
(* The inductive invariant behind the safety properties.                   *)

\* The hops are chosen at the first step and the loop variable follows the phase.
HopsChosen ==
  /\ phase = "start" <=> myCctHops = << >>
  /\ s = IF phase = "start" THEN 1 ELSE 2
  /\ phase # "start" => sendToAddress = myCctHops[1]
  /\ phase = "start" => var = 0
  /\ phase \in {"send", "await"} => var < noOfHops
  /\ phase \in {"built", "relay", "exited"} => var = noOfHops

\* The first k hops are in place, the others as they started.
Placed(k) ==
  \A j \in 1 .. noOfHops :
    IF j <= k THEN InPlace(j)
    ELSE entry[myCctHops[j]] = ZeroEntry /\ ~ TO_FORWARD[myCctHops[j]]

Silent     == \A n \in Node : inbox[n] = << >>
Only(d, m) == \A n \in Node : inbox[n] = IF n = d THEN <<m>> ELSE << >>

\* Where an extend message or its answer can be: at hop i on its way out, for
\* hop var + 1; at the hop before i on its way back, when that hop is in place;
\* or lost with a router that was killed.
ExtendOut(i) == Only(myCctHops[i], ExtendMsg(PrevHop(i), htons(GivenAt(i)), myCctHops[var + 2]))
DoneBack(i)  == \E c \in Word : Only(PrevHop(i), DoneMsg(myCctHops[i], c))
Outstanding ==
  \/ Placed(var) /\ (Silent \/ \E i \in 1 .. var + 1 : ExtendOut(i))
  \/ Placed(var + 1) /\ (Silent \/ \E i \in 1 .. var + 1 : DoneBack(i))

BuildInv ==
  /\ Building => /\ tun = << >> /\ delivered = << >> /\ world = {}
                 /\ \A r \in Router : raw[r] = << >>
  /\ phase \in {"start", "send", "built"} => Silent
  /\ phase \in {"send", "built"} => Placed(var)
  /\ phase = "await" => Outstanding

\* What waits at hop i comes from a neighbour, under the identifier shared with it.
FwdOK(i, m) ==
  /\ m.cmd = "RELAY_THIS_DATA_FWD"
  /\ m.from = PrevHop(i) /\ m.cid = htons(GivenAt(i))
  /\ m.pkt.type = "request" /\ m.pkt.saddr = Eth(PrevHop(i))
BackOK(i, m) ==
  /\ m.cmd = "RELAY_THIS_DATA_BACKWD"
  /\ m.from = myCctHops[i + 1] /\ m.cid = htons(entry[myCctHops[i]].myCircuitID)
  /\ m.pkt.type = "reply"
HomeOK(m) ==
  m.cmd = "RELAY_THIS_DATA_BACKWD" /\ m.pkt.type = "reply" /\ m.pkt.daddr = Eth(0)

RelayInv ==
  ~ Building =>
    /\ Placed(noOfHops)
    /\ \A i \in 1 .. noOfHops : \A n \in DOMAIN inbox[myCctHops[i]] :
         FwdOK(i, inbox[myCctHops[i]][n]) \/ BackOK(i, inbox[myCctHops[i]][n])
    /\ \A n \in DOMAIN inbox[Proxy] : HomeOK(inbox[Proxy][n])
    /\ \A r \in Router : /\ \A n \in DOMAIN raw[r] : raw[r][n].type \in {"reply", "error"}
                         /\ raw[r] # << >> => r = myCctHops[noOfHops]
    /\ \A q \in world : q.type = "request" /\ q.saddr = Eth(myCctHops[noOfHops])
    /\ \A n \in DOMAIN tun : tun[n].type = "request" /\ tun[n].saddr = Eth(0)
    /\ RepliesReachEth0

CircuitInv ==
  TypeOK /\ HopsChosen /\ BystandersUntouched /\ BuildInv /\ RelayInv
=============================================================================
