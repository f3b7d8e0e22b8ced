------------------------------ MODULE Startup ------------------------------
(***************************************************************************)
(* Start of a miniTOR run: the launcher (Stage1.cc, main) reads the        *)
(* configuration, forks the routers and becomes the proxy; each router     *)
(* binds its raw socket and announces itself with an up message (router.cc,*)
(* Router); the proxy counts noOfRouters such messages and remembers where *)
(* each came from (proxy.cc, EnterTainRouterUpMsges; SocketAPI.cc,         *)
(* SaveLastSenderInfo).  Everything the proxy later knows of a router is   *)
(* the address saved here.                                                 *)
(*                                                                         *)
(* What may go wrong is bounded by MaxFaults: fork fails, the raw socket   *)
(* cannot be bound, a router process dies.                                 *)
(*                                                                         *)
(* A definition X_suffix above a definition X is X with a fault put in, to *)
(* see that the properties below would notice it; no behaviour uses it.    *)
(***************************************************************************)
EXTENDS Integers, Sequences, FiniteSets

CONSTANTS MaxRouters,    \* bound on num_routers in the configuration file
          Stages,        \* the values of stage in the configuration file
          MaxRouterID,   \* 6: proxy.cc:183 asserts routerID < 7
          MAX_SENDERS,   \* 10: slots of UDPSocket::whoHaveSendMe
          Port,          \* the ephemeral ports of the host
          NULL,
          MaxFaults      \* bound on failures

ASSUME StartupAssumption ==
  /\ MaxRouters \in Nat \ {0}
  /\ Stages \subseteq 1 .. 6
  /\ MaxRouterID \in Nat /\ MAX_SENDERS \in Nat /\ MaxRouterID <= MAX_SENDERS
  /\ NULL \notin Port
  /\ MaxFaults \in Nat

VARIABLES stage, noOfRouters, noOfHops,  \* read from the configuration file
          pc,             \* what the parent process is doing
          forked,         \* turns of the fork loop done (i in Stage1.cc:64)
          state,          \* what each router process is doing
          port,           \* the port each router's socket got, or NULL
          inbox,          \* receive queue of the proxy's socket
          whoHaveSendMe,  \* the address saved for each router, or NULL
          senderCount,
          received,       \* turns of the registration loop done (proxy.cc:168)
          faults

config == <<stage, noOfRouters, noOfHops>>
vars == <<config, pc, forked, state, port, inbox, whoHaveSendMe, senderCount,
          received, faults>>

Routers == 1 .. MaxRouters
Router  == 1 .. noOfRouters
Slot    == 1 .. MAX_SENDERS

\* A router's announcement: its number and the port it claims, and the port it
\* was really sent from.
UpMessage == [id : Routers, claims : {0}, from : Port]

Live(r) == state[r] \in {"init", "bound", "handling"}

TypeOK ==
  /\ stage \in Stages
  /\ noOfRouters \in Routers
  /\ noOfHops \in 0 .. MaxRouters + 1
  /\ pc \in {"fork", "register", "serving", "aborted", "done"}
  /\ forked \in 0 .. MaxRouters
  /\ state \in [Routers -> {"none", "init", "bound", "handling", "exited"}]
  /\ port \in [Routers -> Port \cup {NULL}]
  /\ inbox \in Seq(UpMessage)
  /\ whoHaveSendMe \in [Slot -> Port \cup {NULL}]
  /\ senderCount \in Nat
  /\ received \in Nat
  /\ faults \in 0 .. MaxFaults

Init ==
  /\ stage \in Stages
  /\ noOfRouters \in Routers
  /\ noOfHops \in 0 .. MaxRouters + 1
  /\ pc = "fork"
  /\ forked = 0
  /\ state = [r \in Routers |-> "none"]
  /\ port = [r \in Routers |-> NULL]
  /\ inbox = << >>
  /\ whoHaveSendMe = [n \in Slot |-> NULL]
  /\ senderCount = 0
  /\ received = 0
  /\ faults = 0

-----------------------------------------------------------------------------
(* The launcher.                                                           *)

Fork ==
  /\ pc = "fork" /\ forked < noOfRouters
  /\ state' = [state EXCEPT ![forked + 1] = "init"]
  /\ forked' = forked + 1
  /\ UNCHANGED <<config, pc, port, inbox, whoHaveSendMe, senderCount, received, faults>>

\* fork() returns -1, which the loop does not look at: the router is missing.
ForkFails ==
  /\ pc = "fork" /\ forked < noOfRouters
  /\ faults < MaxFaults
  /\ forked' = forked + 1
  /\ faults' = faults + 1
  /\ UNCHANGED <<config, pc, state, port, inbox, whoHaveSendMe, senderCount, received>>

BecomeProxy ==
  /\ pc = "fork" /\ forked = noOfRouters
  /\ pc' = "register"
  /\ UNCHANGED <<config, forked, state, port, inbox, whoHaveSendMe, senderCount,
                 received, faults>>

-----------------------------------------------------------------------------
(* A router.                                                               *)

BindRaw(r) ==
  /\ state[r] = "init"
  /\ state' = [state EXCEPT ![r] = "bound"]
  /\ UNCHANGED <<config, pc, forked, port, inbox, whoHaveSendMe, senderCount,
                 received, faults>>

\* The raw socket cannot be bound: the router exits before its up message.
BindRawFails(r) ==
  /\ state[r] = "init"
  /\ faults < MaxFaults
  /\ state' = [state EXCEPT ![r] = "exited"]
  /\ faults' = faults + 1
  /\ UNCHANGED <<config, pc, forked, port, inbox, whoHaveSendMe, senderCount, received>>

\* Ports the sockets of live routers are bound to.
PortsInUse_none == {}
PortsInUse == {port[r] : r \in {q \in Routers : Live(q)}}

AfterUp == IF stage = 1 THEN "exited" ELSE "handling"

\* The text of the message is written while the socket is still unbound, so it
\* claims port 0; the first sendto then binds the socket to a free port.
SendUp_exitFirst(r) ==
  /\ state[r] = "bound" /\ stage = 1
  /\ state' = [state EXCEPT ![r] = "exited"]
  /\ UNCHANGED <<config, pc, forked, port, inbox, whoHaveSendMe, senderCount,
                 received, faults>>
SendUp(r) ==
  /\ state[r] = "bound"
  /\ \E p \in Port \ PortsInUse :
       /\ port' = [port EXCEPT ![r] = p]
       /\ inbox' = Append(inbox, [id |-> r, claims |-> 0, from |-> p])
  /\ state' = [state EXCEPT ![r] = AfterUp]
  /\ UNCHANGED <<config, pc, forked, whoHaveSendMe, senderCount, received, faults>>

\* A router process is killed.  The proxy's recvfrom is restarted after SIGCHLD.
Die(r) ==
  /\ Live(r)
  /\ pc \in {"fork", "register"}
  /\ faults < MaxFaults
  /\ state' = [state EXCEPT ![r] = "exited"]
  /\ faults' = faults + 1
  /\ UNCHANGED <<config, pc, forked, port, inbox, whoHaveSendMe, senderCount, received>>

-----------------------------------------------------------------------------
(* The proxy.                                                              *)

\* The assertions a received up message has to pass.
Acceptable_offByOne(m) ==
  /\ m.id < MaxRouterID
  /\ senderCount < MAX_SENDERS
  /\ whoHaveSendMe[m.id] = NULL
Acceptable(m) ==
  /\ m.id <= MaxRouterID
  /\ senderCount < MAX_SENDERS
  /\ whoHaveSendMe[m.id] = NULL

SaveLastSenderInfo_claimedPort(m) ==
  /\ whoHaveSendMe' = [whoHaveSendMe EXCEPT ![m.id] = m.claims]
  /\ senderCount' = senderCount + 1
SaveLastSenderInfo_nextSlot(m) ==
  /\ whoHaveSendMe' = [whoHaveSendMe EXCEPT ![senderCount + 1] = m.from]
  /\ senderCount' = senderCount + 1
SaveLastSenderInfo(m) ==
  /\ whoHaveSendMe' = [whoHaveSendMe EXCEPT ![m.id] = m.from]
  /\ senderCount' = senderCount + 1

ReceiveUp ==
  /\ pc = "register" /\ received < noOfRouters
  /\ inbox # << >>
  /\ Acceptable(Head(inbox))
  /\ inbox' = Tail(inbox)
  /\ SaveLastSenderInfo(Head(inbox))
  /\ received' = received + 1
  /\ UNCHANGED <<config, pc, forked, state, port, faults>>

RejectUp ==
  /\ pc = "register" /\ received < noOfRouters
  /\ inbox # << >>
  /\ ~ Acceptable(Head(inbox))
  /\ pc' = "aborted"
  /\ inbox' = Tail(inbox)
  /\ UNCHANGED <<config, forked, state, port, whoHaveSendMe, senderCount, received, faults>>

CircuitWanted == stage > 4
HopsAllowed   == 0 < noOfHops /\ noOfHops <= noOfRouters

\* The registration loop has done its turns.
AllReceived_oneShort == received + 1 >= noOfRouters
AllReceived == received = noOfRouters

\* All announcements are in: stage 1 ends; stages 5 and 6 check noOfHops.
FinishRegistration ==
  /\ pc = "register" /\ AllReceived
  /\ pc' = IF stage = 1 THEN "done"
           ELSE IF CircuitWanted /\ ~ HopsAllowed THEN "aborted"
           ELSE "serving"
  /\ UNCHANGED <<config, forked, state, port, inbox, whoHaveSendMe, senderCount,
                 received, faults>>

-----------------------------------------------------------------------------
Launcher  == Fork \/ BecomeProxy
RouterStep(r) == BindRaw(r) \/ SendUp(r)
ProxyStep == ReceiveUp \/ RejectUp \/ FinishRegistration
Failure   == ForkFails \/ \E r \in Routers : BindRawFails(r) \/ Die(r)

Next == Launcher \/ ProxyStep \/ Failure \/ \E r \in Routers : RouterStep(r)

\* Each process keeps running until it blocks; nothing makes a failure happen.
Fairness ==
  /\ WF_vars(Launcher)
  /\ WF_vars(ProxyStep)
  /\ \A r \in Routers : WF_vars(RouterStep(r))

Spec == Init /\ [][Next]_vars /\ Fairness

-----------------------------------------------------------------------------
(* Properties.                                                             *)

Registered == {r \in Routers \cap Slot : whoHaveSendMe[r] # NULL}

\* An address the proxy saved for router r is the one r sent from, and was
\* saved from r's own and only up message: the slot is chosen by the number in
\* the text, the address by the datagram (proxy.cc:182-184).
RegisteredAddressIsTheRouters ==
  \A r \in Registered :
    /\ whoHaveSendMe[r] = port[r]
    /\ \A n \in DOMAIN inbox : inbox[n].id # r

\* When the proxy goes on to serve, the counting loop (proxy.cc:168) has seen
\* every configured router once, so that every whoHaveSendMe[r - 1] it will
\* dereference is set; and a circuit is built of as many routers as there are
\* only (proxy.cc:577-578): a draw of hops cannot meet a router twice.
ServingKnowsEveryRouter ==
  /\ pc \in {"serving", "done"} => Registered = Router /\ senderCount = noOfRouters
  /\ pc = "serving" /\ CircuitWanted => HopsAllowed

\* Two routers saved under one address: the first has gone and its port was
\* handed out again.  Two live routers are never confused.
SharedAddressMeansOneGone ==
  \A r, q \in Registered :
    r # q /\ whoHaveSendMe[r] = whoHaveSendMe[q] => ~ Live(r) \/ ~ Live(q)

\* The proxy's assertions fail for what the configuration asks for only: too
\* many routers or an impossible number of hops; no order of the up messages
\* and no failure of a router trips them.
AbortsOnlyMisconfigured ==
  pc = "aborted" => noOfRouters > MaxRouterID \/ (CircuitWanted /\ ~ HopsAllowed)

\* A router that is lost before its announcement is never made up for: from
\* then on the proxy does not leave the registration loop for the serving loop.
Lost(r) == \/ state[r] = "exited" /\ port[r] = NULL
           \/ state[r] = "none" /\ forked >= r
LostRouterBlocksService ==
  [][\A r \in Router : Lost(r) => pc' \notin {"serving", "done"}]_vars

\* Without failures a run that is well configured reaches service (stage 1: its
\* regular end), whatever the order of forks, binds and announcements.
WellConfigured == noOfRouters <= MaxRouterID /\ (CircuitWanted => HopsAllowed)
RegistrationCompletes ==
  WellConfigured /\ [](faults = 0) => <>(pc = IF stage = 1 THEN "done" ELSE "serving")

\* router.cc:780 and 785 announce "port: %s" as the router's port.
AnnouncedPortIsTheRouters ==
  \A n \in DOMAIN inbox : inbox[n].claims = inbox[n].from

-----------------------------------------------------------------------------
(* The inductive invariant behind the safety properties.                   *)

\* A process that was not forked, or that has not sent, owns no port; live
\* routers own different ports.
PortsOwned ==
  /\ forked <= noOfRouters
  /\ \A r \in Routers :
       /\ state[r] # "none" => r <= forked
       /\ state[r] \in {"none", "init", "bound"} => port[r] = NULL
  /\ \A r, q \in Routers :
       r # q /\ Live(r) /\ Live(q) /\ port[r] # NULL => port[r] # port[q]

\* A queued up message is its sender's only one and comes from the sender's port.
UpMessagesGenuine ==
  /\ \A n \in DOMAIN inbox :
       /\ inbox[n].id \in Router
       /\ inbox[n].from = port[inbox[n].id]
  /\ \A n, k \in DOMAIN inbox : inbox[n].id = inbox[k].id => n = k

\* What is counted is what is registered.
RegistrationCounted ==
  /\ Registered \subseteq Router
  /\ received = Cardinality(Registered)
  /\ senderCount = received
  /\ pc \in {"serving", "done"} => received = noOfRouters
  /\ pc = "serving" /\ CircuitWanted => HopsAllowed

StartupInv ==
  /\ TypeOK
  /\ PortsOwned
  /\ UpMessagesGenuine
  /\ RegisteredAddressIsTheRouters
  /\ RegistrationCounted
  /\ AbortsOnlyMisconfigured
=============================================================================
