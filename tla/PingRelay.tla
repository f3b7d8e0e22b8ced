------------------------------ MODULE PingRelay ------------------------------
(***************************************************************************)
(* Stages 2 to 4: no circuit.  The proxy hands each ping it reads from the *)
(* tunnel to a router drawn at random (proxy.cc, tunnelPlusSock_reader;    *)
(* SocketAPI.cc, SetRandomReceiver).  The router answers a ping to the     *)
(* tunnel's own network itself and sends any other to the Internet; what   *)
(* its raw socket receives it sends to whoever last sent it a datagram     *)
(* (router.cc, Handler).  In stage 2 the proxy has no branch that sends.   *)
(*                                                                         *)
(* The module starts where Startup ends; sockets and failures are those of *)
(* PlainCircuit, and the Internet may also answer with an ICMP error, whose*)
(* length is not the 84 bytes the raw socket's reader asserts.             *)
(*                                                                         *)
(* An Internet checksum is modelled by what it was computed over: the two  *)
(* addresses, in any order, for the IP header (module Checksum shows that  *)
(* exchanging words leaves the sum alone) and the type for the ICMP part.  *)
(*                                                                         *)
(* A definition X_suffix above a definition X is X with a fault put in, to *)
(* see that the properties below would notice it; no behaviour uses it.    *)
(***************************************************************************)
EXTENDS MiniTor

CONSTANTS Host,         \* IP addresses of hosts on the Internet
          TunnelHost,   \* addresses 10.5.51.x behind the tunnel
          TunnelIP,     \* the host's own address 10.5.51.2 on the tunnel
          MaxPings,     \* bound on the pings users send
          RcvBuf,       \* datagrams a UDP receive buffer holds
          MaxFaults     \* bound on failures

Pingable == Host \cup TunnelHost

ASSUME RelayAssumption ==
  /\ Pingable \subseteq Int /\ TunnelIP \in Int
  /\ Host \cap TunnelHost = {} /\ TunnelIP \notin Pingable
  /\ (Pingable \cup {TunnelIP}) \cap (NoIP .. noOfRouters) = {}
  /\ MaxPings \in Nat /\ RcvBuf \in Nat \ {0} /\ MaxFaults \in Nat

VARIABLES
  stage,        \* of the configuration file
  \* The proxy.
  phase,        \* it serves its select loop, has exited or aborted
  tun,          \* packets waiting in the tunnel device
  delivered,    \* packets the proxy wrote to the tunnel device
  \* The routers.
  up,           \* the router processes that run
  lastSender,   \* of each router's sockChild
  raw,          \* receive queue of each router's raw socket
  \* The network.
  inbox,        \* receive queues of the UDP sockets
  world,        \* echo requests travelling on the Internet
  \* Bookkeeping.
  pinged,       \* the addresses pinged so far: ping n went to pinged[n]
  faults

proxyVars  == <<phase, tun, delivered>>
routerVars == <<up, lastSender, raw>>
vars == <<stage, proxyVars, routerVars, inbox, world, pinged, faults>>

-----------------------------------------------------------------------------
(* Packets, and datagrams that carry one.                                  *)

Ping  == 1 .. MaxPings
IP    == {NoIP, TunnelIP} \cup (0 .. noOfRouters) \cup Pingable
Types == {"request", "reply", "error"}

\* check and icmpCheck: what the checksums were computed over.
Packet == [id : Ping, type : Types, saddr : IP, daddr : IP,
           check : SUBSET IP, icmpCheck : Types]

HeaderSum(p) == {p.saddr, p.daddr}
Intact(p)    == p.check = HeaderSum(p) /\ p.icmpCheck = p.type

\* A packet with its checksums, as kernels send it.
Whole(n, type, saddr, daddr) ==
  [id |-> n, type |-> type, saddr |-> saddr, daddr |-> daddr,
   check |-> {saddr, daddr}, icmpCheck |-> type]

Message == [from : Node, pkt : Packet]

TypeOK ==
  /\ stage \in 2 .. 4
  /\ phase \in {"relay", "exited", "aborted"}
  /\ tun \in Seq(Packet)
  /\ delivered \in Seq(Packet)
  /\ up \subseteq Router
  /\ lastSender \in [Router -> Node \cup {NoAddress}]
  /\ raw \in [Router -> Seq(Packet)]
  /\ inbox \in [Node -> Seq(Message)]
  /\ world \subseteq Packet
  /\ pinged \in Seq(Pingable) /\ Len(pinged) <= MaxPings
  /\ faults \in 0 .. MaxFaults

Init ==
  /\ stage \in 2 .. 4
  /\ phase = "relay"
  /\ tun = << >>
  /\ delivered = << >>
  /\ up = Router
  /\ lastSender = [r \in Router |-> NoAddress]
  /\ raw = [r \in Router |-> << >>]
  /\ inbox = [n \in Node |-> << >>]
  /\ world = {}
  /\ pinged = << >>
  /\ faults = 0

LiveNodes == up \cup (IF phase = "relay" THEN {Proxy} ELSE {})
Sent(queues, d, m) == Deliver(queues, LiveNodes, RcvBuf, d, m)

\* A router process ends; SIGCHLD may interrupt the proxy's select.
RouterEnds(r) ==
  /\ up' = up \ {r}
  /\ inbox' = [inbox EXCEPT ![r] = << >>]
  /\ raw' = [raw EXCEPT ![r] = << >>]
  /\ phase' \in IF phase = "relay" THEN {"relay", "exited"} ELSE {phase}

-----------------------------------------------------------------------------
(* The proxy (proxy.cc, tunnelPlusSock_reader, stages 2 to 4).             *)

\* A ping within the tunnel's network leaves from the tunnel's own address, any
\* other from eth0.
PingSource(h) == IF h \in TunnelHost THEN TunnelIP ELSE Eth(0)

UserPings(h) ==
  /\ phase = "relay" /\ Len(pinged) < MaxPings
  /\ pinged' = Append(pinged, h)
  /\ tun' = Append(tun, Whole(Len(pinged) + 1, "request", PingSource(h), h))
  /\ UNCHANGED <<stage, phase, delivered, routerVars, inbox, world, faults>>

\* The table of senders that registration leaves behind: a slot for each router,
\* the others NULL.
MAX_SENDERS   == 10
whoHaveSendMe == [k \in 0 .. MAX_SENDERS - 1 |->
                    IF k + 1 \in Router THEN k + 1 ELSE NoAddress]

\* Slots are drawn until one holds an address; the router behind it may be gone.
SetRandomReceiver_anySlot == {whoHaveSendMe[k] : k \in DOMAIN whoHaveSendMe}
SetRandomReceiver == {whoHaveSendMe[k] : k \in DOMAIN whoHaveSendMe} \ {NoAddress}

TunnelRead_again ==
  /\ phase = "relay" /\ tun # << >>
  /\ tun' \in {tun, Tail(tun)}
  /\ \E d \in SetRandomReceiver :
       inbox' = Sent(inbox, d, [from |-> Proxy, pkt |-> Head(tun)])
  /\ UNCHANGED <<stage, phase, delivered, routerVars, world, pinged, faults>>

\* Stage 2 logs the packet and sends nothing.
TunnelRead ==
  /\ phase = "relay" /\ tun # << >>
  /\ tun' = Tail(tun)
  /\ IF stage \in {3, 4}
       THEN \E d \in SetRandomReceiver :
              IF d = NoAddress
                THEN phase' = "aborted" /\ UNCHANGED inbox
                ELSE /\ inbox' = Sent(inbox, d, [from |-> Proxy, pkt |-> Head(tun)])
                     /\ UNCHANGED phase
       ELSE UNCHANGED <<phase, inbox>>
  /\ UNCHANGED <<stage, delivered, routerVars, world, pinged, faults>>

\* The proxy asserts that what a router sends is an echo reply, and writes it to
\* the tunnel as it is.
SocketRead ==
  LET p == Head(inbox[Proxy]).pkt IN
  /\ phase = "relay" /\ inbox[Proxy] # << >>
  /\ inbox' = Consume(inbox, Proxy)
  /\ IF p.type = "reply"
       THEN delivered' = Append(delivered, p) /\ UNCHANGED phase
       ELSE phase' = "aborted" /\ UNCHANGED delivered
  /\ UNCHANGED <<stage, tun, routerVars, world, pinged, faults>>

-----------------------------------------------------------------------------
(* A router (router.cc, Handler).                                          *)

isThisICMPEchoRequestForTunnel(p) == p.daddr \in TunnelHost \cup {TunnelIP}

\* The request becomes its reply in place, and both checksums are computed again.
ProcessIPPacket_staleCheck(p) ==
  [p EXCEPT !.type = "reply", !.saddr = p.daddr, !.daddr = p.saddr]
ProcessIPPacket(p) == Whole(p.id, "reply", p.daddr, p.saddr)

Receives(r) == r \in up /\ inbox[r] # << >>

Received_packetSource(r) == lastSender' = [lastSender EXCEPT ![r] = Head(inbox[r]).pkt.saddr]
Received(r) == lastSender' = [lastSender EXCEPT ![r] = Head(inbox[r]).from]

AnswerItself(r) ==
  LET m == Head(inbox[r]) IN
  /\ Receives(r) /\ isThisICMPEchoRequestForTunnel(m.pkt)
  /\ Received(r)
  /\ inbox' = Sent(Consume(inbox, r), m.from, [from |-> r, pkt |-> ProcessIPPacket(m.pkt)])
  /\ UNCHANGED <<stage, proxyVars, up, raw, world, pinged, faults>>

\* Only the ICMP part is sent: the kernel makes a new header from eth<r>.
SendToWorld_unsaved(r) ==
  LET m == Head(inbox[r]) IN
  /\ Receives(r) /\ ~ isThisICMPEchoRequestForTunnel(m.pkt)
  /\ inbox' = Consume(inbox, r)
  /\ world' = world \cup {Whole(m.pkt.id, m.pkt.type, Eth(r), m.pkt.daddr)}
  /\ UNCHANGED <<stage, proxyVars, routerVars, pinged, faults>>
SendToWorld(r) ==
  LET m == Head(inbox[r]) IN
  /\ Receives(r) /\ ~ isThisICMPEchoRequestForTunnel(m.pkt)
  /\ Received(r)
  /\ inbox' = Consume(inbox, r)
  /\ world' = IF stage \in {3, 4}
                THEN world \cup {Whole(m.pkt.id, m.pkt.type, Eth(r), m.pkt.daddr)}
                ELSE world
  /\ UNCHANGED <<stage, proxyVars, up, raw, pinged, faults>>

ChangeDestAddressToEth0_staleCheck(p) == [p EXCEPT !.daddr = Eth(0)]
ChangeDestAddressToEth0(p) == [p EXCEPT !.daddr = Eth(0), !.check = {p.saddr, Eth(0)}]

\* The raw socket's reader asserts a length of 84, which an ICMP error has not; the
\* datagram goes to lastSender, and to port 0 when there is none.
RawRead(r) ==
  LET p == Head(raw[r])
      d == lastSender[r] IN
  /\ r \in up /\ raw[r] # << >>
  /\ IF p.type # "error" /\ d # NoAddress
       THEN /\ inbox' = Sent(inbox, d, [from |-> r, pkt |-> ChangeDestAddressToEth0(p)])
            /\ raw' = [raw EXCEPT ![r] = Tail(@)]
            /\ UNCHANGED <<up, phase>>
       ELSE RouterEnds(r)
  /\ UNCHANGED <<stage, tun, delivered, lastSender, world, pinged, faults>>

-----------------------------------------------------------------------------
(* The Internet and failures.                                              *)

\* A packet for eth<r> reaches the raw socket that router r bound to it.
ArrivesAt(r, p) == raw' = IF r \in up THEN [raw EXCEPT ![r] = Append(@, p)] ELSE raw

InternetReplies(q) ==
  /\ q \in world
  /\ world' = world \ {q}
  /\ ArrivesAt(q.saddr, Whole(q.id, "reply", q.daddr, q.saddr))
  /\ UNCHANGED <<stage, proxyVars, up, lastSender, inbox, pinged, faults>>

InternetLoses(q) ==
  /\ q \in world /\ faults < MaxFaults
  /\ world' = world \ {q}
  /\ faults' = faults + 1
  /\ UNCHANGED <<stage, proxyVars, routerVars, inbox, pinged>>

\* A gateway reports that the host cannot be reached.
InternetRefuses(q) ==
  /\ q \in world /\ faults < MaxFaults
  /\ world' = world \ {q}
  /\ ArrivesAt(q.saddr, Whole(q.id, "error", q.daddr, q.saddr))
  /\ faults' = faults + 1
  /\ UNCHANGED <<stage, proxyVars, up, lastSender, inbox, pinged>>

RouterIsKilled(r) ==
  /\ r \in up /\ faults < MaxFaults
  /\ RouterEnds(r)
  /\ faults' = faults + 1
  /\ UNCHANGED <<stage, tun, delivered, lastSender, world, pinged>>

-----------------------------------------------------------------------------
UdpRead(r) == AnswerItself(r) \/ SendToWorld(r)
Internet   == \E q \in world : InternetReplies(q)
Failure    == \/ \E q \in world : InternetLoses(q) \/ InternetRefuses(q)
              \/ \E r \in Router : RouterIsKilled(r)

Next ==
  \/ \E h \in Pingable : UserPings(h)
  \/ TunnelRead \/ SocketRead
  \/ \E r \in Router : UdpRead(r) \/ RawRead(r)
  \/ Internet
  \/ Failure

\* As in PlainCircuit: processes run until they block, and the Internet answers
\* what it does not lose.
Fairness ==
  /\ WF_vars(TunnelRead) /\ WF_vars(SocketRead)
  /\ \A r \in Router : WF_vars(UdpRead(r)) /\ WF_vars(RawRead(r))
  /\ WF_vars(Internet)

Spec == Init /\ [][Next]_vars /\ Fairness

-----------------------------------------------------------------------------
(* Properties.                                                             *)

\* Routers hear only from the proxy, and the proxy only from routers that have an
\* answer.  This is why the last sender is the right receiver for a packet that
\* comes in from the Internet at any later time (router.cc:667), and why the
\* proxy may assert that it reads echo replies (proxy.cc:431).
LastSenderIsTheProxy ==
  /\ \A r \in Router : raw[r] # << >> => lastSender[r] = Proxy
  /\ \A r \in Router : \A n \in DOMAIN inbox[r] :
       inbox[r][n].from = Proxy /\ inbox[r][n].pkt.type = "request"
  /\ \A n \in DOMAIN inbox[Proxy] : inbox[Proxy][n].pkt.type = "reply"

\* Whichever router a ping went through, its answer is written to the tunnel as an
\* echo reply from the address that was pinged to the address it was pinged from,
\* with checksums that fit (the kernel drops any other).
RepliesReachThePinger ==
  \A k \in DOMAIN delivered :
    LET p == delivered[k] IN
    /\ p.type = "reply" /\ Intact(p)
    /\ p.saddr = pinged[p.id] /\ p.daddr = PingSource(pinged[p.id])

\* No assertion of the proxy fails and no NULL slot is used; a router ends only when
\* it is killed or its raw socket's assertion meets an ICMP error
\* (SocketAPI.cc:356).
EndsOnlyByFailure ==
  [][/\ phase' # "aborted"
     /\ \A r \in up \ up' : faults' = faults + 1 \/ Head(raw[r]).type = "error"]_vars

\* Users get at most one answer to a ping, from whom they asked, whatever fails.
Service == INSTANCE PingService WITH
  Host <- Pingable, asked <- pinged, answered <- AnswersOf(delivered)
ImplementsPingService == Service!SafeSpec

\* In stages 3 and 4 a ping is answered, whichever routers are drawn, unless
\* something has failed (with room in the buffers).
Asked(n)    == n \in DOMAIN pinged
Answered(n) == \E k \in DOMAIN delivered : delivered[k].id = n
AnsweredUnlessFailed ==
  \A n \in Ping : stage # 2 /\ Asked(n) ~> Answered(n) \/ faults > 0

-----------------------------------------------------------------------------
(* The inductive invariant behind the safety properties: where a packet is *)
(* tells which one it is.                                                  *)

AsSent(n)     == Whole(n, "request", PingSource(pinged[n]), pinged[n])
AsAnswered(n) == Whole(n, "reply", pinged[n], PingSource(pinged[n]))

Requests == {AsSent(n) : n \in DOMAIN pinged}
Answers  == {AsAnswered(n) : n \in DOMAIN pinged}

\* Pings the routers do not answer themselves, from and back to router r.
Foreign      == {n \in DOMAIN pinged : pinged[n] \in Host}
Leaving(r)   == {Whole(n, "request", Eth(r), pinged[n]) : n \in Foreign}
Returning(r) == {Whole(n, t, pinged[n], Eth(r)) : n \in Foreign, t \in {"reply", "error"}}

Receivable(d) == IF d = Proxy THEN [from : Router, pkt : Answers]
                 ELSE [from : {Proxy}, pkt : Requests]

\* A router that something is away for, or has come back to, has heard from the
\* proxy.
RelayInv ==
  /\ TypeOK
  /\ phase # "aborted"
  /\ tun \in Seq(Requests) /\ delivered \in Seq(Answers)
  /\ \A d \in Node : inbox[d] \in Seq(Receivable(d))
  /\ \A q \in world : \E r \in Router : q \in Leaving(r) /\ lastSender[r] = Proxy
  /\ \A r \in Router : /\ raw[r] \in Seq(Returning(r))
                       /\ raw[r] # << >> => lastSender[r] = Proxy
                       /\ lastSender[r] \in {Proxy, NoAddress}
=============================================================================
