------------------------------ MODULE MiniTor ------------------------------
(***************************************************************************)
(* Vocabulary shared by the modules of the miniTOR verification: the       *)
(* processes, circuit identifiers, the selection of hops, and the UDP      *)
(* loopback sockets through which the proxy and the routers talk.          *)
(*                                                                         *)
(* The launcher (Stage1.cc) forks noOfRouters router processes from the    *)
(* process that then becomes the proxy.  A UDP address (a port on the      *)
(* loopback interface) is identified with the process that owns it: this   *)
(* is what Startup establishes (RegisteredAddressIsTheRouters) before the  *)
(* proxy uses one.                                                         *)
(***************************************************************************)
EXTENDS Integers, Sequences

CONSTANTS noOfRouters,   \* num_routers of the configuration file
          noOfHops       \* minitor_hops of the configuration file

\* proxy.cc:183 asserts that every router number is below 7.
ASSUME RoutersAssumption == noOfRouters \in 1 .. 6

\* proxy.cc:577-578 assert this before a circuit is built.
ASSUME HopsAssumption == noOfHops \in Nat /\ 0 < noOfHops /\ noOfHops <= noOfRouters

Proxy  == 0
Router == 1 .. noOfRouters
Node   == Proxy .. noOfRouters

\* The port that marks the exit of a circuit, and an all-zero sockaddr_in.
LAST_HOP_PortNumber == 65535
NoAddress           == -1

(***************************************************************************)
(* Circuit identifiers are unsigned shorts.                                *)
(***************************************************************************)
Word == 0 .. 65535

\* htons and ntohs of a little-endian machine.  (A definition X_suffix above X is
\* X with a fault put in, to see that the properties notice; nothing uses it.)
htons_wide(x) == 256 * x + (x \div 256)
htons(x) == 256 * (x % 256) + (x \div 256)

\* The identifier under which router r hands a circuit on that it knows as given.
MyCircuitID(given, r) == (given + 256 * r + 1) % 65536

(***************************************************************************)
(* RandomlySelectHops2 draws i = rand() % noOfRouters and takes the        *)
(* noOfHops routers that follow it cyclically; the caller then stores the  *)
(* exit marker behind them.                                                *)
(***************************************************************************)
RandomlySelectHops2_stuck(i) ==
  [j \in 1 .. noOfHops + 1 |->
     IF j <= noOfHops THEN (i % noOfRouters) + 1 ELSE LAST_HOP_PortNumber]
RandomlySelectHops2(i) ==
  [j \in 1 .. noOfHops + 1 |->
     IF j <= noOfHops THEN ((i + j) % noOfRouters) + 1 ELSE LAST_HOP_PortNumber]

(***************************************************************************)
(* IP addresses: Eth(0) is the host's own eth0, Eth(r) is the interface    *)
(* eth<r> of router r, NoIP is 0.0.0.0.                                    *)
(***************************************************************************)
Eth(n) == n
NoIP   == -1

(***************************************************************************)
(* UDP over the loopback interface: one receive queue per socket, first in *)
(* first out; a datagram for a closed socket or a full queue is dropped    *)
(* without an error to the sender.                                         *)
(***************************************************************************)
Deliver(inbox, live, buffer, d, m) ==
  IF d \in live /\ Len(inbox[d]) < buffer
    THEN [inbox EXCEPT ![d] = Append(@, m)]
    ELSE inbox

Consume(inbox, d) == [inbox EXCEPT ![d] = Tail(@)]

(***************************************************************************)
(* Where pings are: the packets in the tunnel device, written to it, in a  *)
(* queue of datagrams (inbox[n] has the packets they carry), on the way    *)
(* through the Internet (a set) or at a raw socket.                        *)
(***************************************************************************)
Places == ({"tun", "delivered", "world"} \X {Proxy}) \cup ({"inbox"} \X Node)
          \cup ({"raw"} \X Router)

PingsIn(tun, delivered, inbox, raw, world) ==
  [x \in Places |-> CASE x[1] = "tun"       -> tun
                      [] x[1] = "delivered" -> delivered
                      [] x[1] = "inbox"     -> inbox[x[2]]
                      [] x[1] = "raw"       -> raw[x[2]]
                      [] x[1] = "world"     -> [q \in world |-> q]]

\* The packets that the datagrams of each queue carry.
Pkts(q)    == [k \in DOMAIN q |-> q[k].pkt]
Carried(q) == [n \in Node |-> Pkts(q[n])]

\* Ping n is once in one place, if at all.
OnePlace(n, places) ==
  \A x, y \in Places : \A i \in DOMAIN places[x], j \in DOMAIN places[y] :
    places[x][i].id = n /\ places[y][j].id = n => x = y /\ i = j

\* What the packets written to the tunnel answer: which ping, and who did.
AnswersOf(written) ==
  [k \in DOMAIN written |-> [ping |-> written[k].id, by |-> written[k].saddr]]
=============================================================================
