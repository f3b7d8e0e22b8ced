# miniTOR in TLA+

TLA+ models of miniTOR (`src/`), the TLC configurations that check them, and
proofs checked by the TLA+ proof system. miniTOR is one program: a launcher forks
`num_routers` router processes and becomes the proxy; proxy and routers talk by
UDP on the loopback interface, and the proxy relays the pings that users of the
host send into a tunnel device through a circuit of routers to the Internet and
back. The `stage` of the configuration file selects how: 1 only starts, 2 to 4
relay through one router or none, 5 builds a plain circuit, 6 an onion-encrypted one.

## 1. Inventory

| Component | Code | State | Operations | Modelled in |
|---|---|---|---|---|
| Launcher | `Stage1.cc` | stage, `noOfRouters`, `noOfHops`, fork loop | read the configuration, fork, become proxy, reap children | `Config` (reading), `Startup` (forking); the checks of argument and file are left out |
| UDP sockets | `SocketAPI.cc/.h` `UDPSocket` | receive queue, `lastSender`, `sendToAddress`, `whoHaveSendMe`, `senderCount` | send (binds implicitly), receive, save and select addresses | `MiniTor`, `Startup`, in the circuits |
| Raw sockets | `SocketAPI.cc` `RawSockets` | queue of IP packets per router | bind to `eth<r>`, send the ICMP part, receive | `Startup`, in the circuits |
| Router start | `router.cc` `Router` | pid, socket, raw socket | bind raw socket, send the up message, exit in stage 1 | `Startup` |
| Proxy: registration | `proxy.cc` `EnterTainRouterUpMsges`, `Proxy` | loop counter, table of senders | receive up messages, assert, check `noOfHops` | `Startup` |
| Proxy, stage 5 | `proxy.cc` `Build_An_Circuit`, `tunnelPlusSock_reader` | `s`, `myCctHops`, `var`, tunnel, position in the code | choose hops, extend, await, open tunnel, relay both ways | `PlainCircuit` |
| Router, stage 5 | `router.cc` `Handler`, `RelayThisStuff` | `CircuitInfoEntryTable[0]`, `TO_FORWARD` | create or forward extend, forward extend-done, relay, exit, wrap raw replies | `PlainCircuit` |
| Proxy, stage 6 | `proxy.cc` `Build_An_Circuit_6`, `CreateOnionEncryptMessages`, `OnionEncrypt`, `OnionDecrypt` | `TOR_CCt_HOPs`, keys, `var`, tunnel | send key, send extend, await, wrap and unwrap | `OnionCircuit` |
| Router, stage 6 | `router.cc` `CCtCreation_6`, `RelayThisStuff6` | entry with key, `TO_FORWARD_FDH`, `TO_FORWARD_ECE` | take or forward a key, take or forward an extend, peel or add a layer | `OnionCircuit` |
| Ping relay, stages 2-4 | `proxy.cc` `tunnelPlusSock_reader`, `router.cc` `Handler`, `SocketAPI.cc` `SetRandomReceiver` | tunnel, `lastSender`, table of senders, raw socket | draw a router, answer a ping, send it to the world, return what comes back | `PingRelay` |
| Padding, checksum | `aes_jh.c`, `SocketAPI.cc`, `MyDEBUG.cc` | a body of 500 bytes at most, an IP header | pad, encrypt, decrypt, strip; Internet checksum, rewriting a header | `Padding`, `Checksum` |
| AES, keys | `aes_jh.c`, libcrypto | key schedules | encrypt, decrypt | ideal layers in `OnionCircuit` and `Padding` |
| Log and config files | `File.cc`, `MyDEBUG.cc` | open files | read the next line, write logs | `Config` (reading); logs are pure output |
| Unused sources | `MyEncAPI.*`, `Test/main.cc` | | | no: empty or unused |

**Interactions.** The address of a router gets to the proxy as the source of its up
message; the number in the text chooses the table slot. In building a circuit every
extend travels along the hops that exist and every answer back; in relaying each
hop looks at table entry 0. A router's death reaches the proxy as `SIGCHLD`, which
interrupts `select` (the proxy exits) but not `recvfrom` (`SA_RESTART`).

**What is hard here**, component by component, and what makes it correct:

- *Start*: routers announce themselves in any order, or never; the proxy counts
  messages, not routers; ports are recycled. Correct: an address in slot `r` is
  router `r`'s, the proxy serves only when it knows every router, its assertions
  fail for a wrong configuration only.
- *Building*: the proxy takes any datagram for the answer it waits for; one flag
  tells a router whether an extend is its own; nothing is retried; routers can die.
  Correct: a hop counted as built is in place, and its neighbours agree with it
  about identifiers; routers not chosen are left alone.
- *Relaying*: pings and replies overlap at every hop, full queues drop datagrams,
  entry 0 stands in for a look-up, remembered addresses get overwritten. Correct:
  a datagram belongs to the entry it is handled under; a reply reaches `eth0`
  whatever its way, once, from the host that was pinged; no hop behind the first
  sees the sender's address; a router never sends to an address that is not set; of
  its assertions only the one on the length of a raw packet can fail, by an ICMP error.
- *Stages 2 to 4*: the answer to a ping comes back at any later time, and a router
  sends it to whoever it heard from last; the proxy may draw a router that is gone;
  an ICMP error is not 84 bytes long and ends the router it reaches. Correct: the last sender is the right one, a
  ping is answered at most once, by whom it was sent to, with checksums that fit.
- *Bytes*: every layer lengthens a body, in arrays of 500 bytes no one checks; padding
  must come off whatever the last byte is; headers are rewritten in place, with sums
  that may be out of date. Correct: bodies fit and arrive to the byte; what is
  recomputed verifies.
- *Configuration*: settings are read by position, comments are skipped line by line.
  Correct: each variable gets the number of its own setting.
- *Onion*: a key and the message encrypted with it follow one another unanswered;
  each hop has to be given as many layers as are left to open; both sides assert.
  Correct: layers and keys match at every hop, and no assertion fails but that of the
  raw socket.

`PROJECT.json` lists each hazard at its line with the properties that cover it.

## 2. Modules

- **MiniTor** - shared vocabulary: process numbers, circuit identifiers (16 bits,
  `htons` as the byte swap of a little-endian host), `RandomlySelectHops2`, the
  receive queues (`Deliver` drops when the receiver is gone or its buffer full); and
  the places a ping can be in (`PingsIn`, `OnePlace`), from the tunnel to the Internet.
- **Startup** - configuration to service. One action per fork, bind, up message,
  turn of the registration loop, and failure. Every small configuration is an
  initial state; an ephemeral port is any one no live router holds.
- **CircuitService** - the abstract promise: a path of different routers grows to
  `noOfHops`; then hosts may be pinged; a ping is answered at most once, by the
  host asked. `SafeSpec` is what failures leave of it, `Spec` adds liveness.
- **PlainCircuit** (stage 5) and **OnionCircuit** (stage 6) - one action per branch
  of the handlers; both implement `CircuitService` under the mapping: the path is
  the hops the proxy counts as built, the questions the pings sent, the answers
  what was written to the tunnel.
- **PingService** - the same promise without a path: a ping is answered at most once,
  by the host that was asked.
- **PingRelay** (stages 2, 3 and 4, chosen initially) - one action per branch of the
  proxy's and the routers' loops; it implements `PingService`.
- **Config** - the lines of a file, which `fgets` returns one by one and cuts when they
  are long, and the settings taken from them by position. `next` and `inside` are the
  file position, `reading` is where `main` is.
- **Padding** - one body of stage 6, a member of `Contents`, on its way through up to six hops, byte by byte:
  wrapped, peeled, answered, wrapped on the way home, unwrapped. `OnionCircuit`
  takes from it that a layer comes off as it was put on.
- **Checksum** - the sum of an IP header and the handlers that rewrite the header.
- **MCStartup, MCPlainCircuit, MCOnionCircuit, MCPingRelay, MCConfig, MCPadding,
  MCChecksum** - constants for TLC.
- **MiniTorProofs** - lemmas on the shared vocabulary; **StartupProofs,
  PlainCircuitProofs, OnionCircuitProofs, PingRelayProofs, ConfigProofs, PaddingProofs,
  ChecksumProofs** - theorems about one module each, among them that stages 5 and 6
  implement `CircuitService` and stages 2 to 4 `PingService`.

**State and code.** `phase` is where the proxy's single thread is (`send`: about to
send an extend, `await`: in `recvfrom`, `relay`: in the select loop). `entry[r]` is
entry 0 of router `r`'s table; other entries are never used. A datagram is a record
of the fields the handlers read; `from` is the source address that `recvfrom`
leaves in `lastSender`, `cid` the two bytes at offset 21 as the host reads them.
A handler that receives, changes its table and sends is one action, because the
processes share nothing but sockets: another process sees only what is sent, which
is the last thing the handler does. An address is the number of the process that
owns it, which `Startup` justifies. In `OnionCircuit` a body is its content under a
sequence of layers, and only the outermost layer's key removes that layer; another
key leaves bytes on which the padding assertion (`aes_jh.c:123`) fails.

A definition `X_suffix` that stands above a definition `X` is `X` with a plausible
fault put in. No behaviour uses it; putting it in place of `X` makes TLC find the
property named in `PROJECT.json` violated.

In `PingRelay` a checksum is what it was computed over, the two addresses of the IP
header and the type of the ICMP part; a rewritten packet whose sum was not computed
again shows. `Checksum` treats the sums themselves.

**Environment assumed.** Applications send 84-byte echo requests (the code asserts
that size), from `eth0` or, within the tunnel's network, from the tunnel's address;
hosts answer a ping at most once, or a gateway sends an ICMP error instead; a raw
socket sees what answers its own router's requests only; UDP on loopback neither
reorders nor duplicates what one queue receives, but drops when a buffer is full; a
`sendto` to port 0 fails and ends the process (`SocketAPI.cc:180`). Failures are a
failing fork, bind or tunnel, a killed router, a lost ping and a refused one,
`MaxFaults` in number. In every stage that relays, a refused ping ends the router whose
raw socket gets the error, which is not 84 bytes long (`SocketAPI.cc:356`): in stages 5
and 6 the exit, with the effects of its death on the proxy.

## 3. What the runs check

| Run | Bounds | Shows |
|---|---|---|
| `startup` | 1 to 3 routers, highest legal number 2, 0 to 4 hops, stages 1, 4, 5, three ports, 1 failure | saved addresses are genuine; service only with every router known and no more hops than routers; two slots share an address only when one router is gone; only a wrong configuration aborts; a router lost early blocks service for good; otherwise registration completes |
| `plain_safety` | 4 routers, 3 hops, 2 hosts, 3 pings, buffers of 2, 2 failures | building in turn, hops in place, bystanders untouched, look-ups agree, source addresses, replies home, no ping in two places, a router ends by a kill or, at the exit, by an ICMP error only, a lost hop or datagram blocks the build for good, `CircuitService!SafeSpec` implemented |
| `plain_live` | 3 routers, 3 hops, 2 pings, no failures | `CircuitService!Spec` implemented, liveness included |
| `onion_safety` | as `plain_safety` | keys and hops in place, layers match the hops that remain, identifiers agree with neighbours, at most a key and an extend in flight, the proxy never aborts and a router ends by a kill or, at the exit, by an ICMP error only, `SafeSpec` implemented |
| `onion_live` | as `plain_live` | `CircuitService!Spec` implemented |
| `relay` | 3 routers, a host outside and one behind the tunnel, 3 pings, buffers of 3, 2 failures, stages 2 to 4 | the last sender is the proxy, answers go to the pinger with fitting sums, only failures end a process, `PingService!SafeSpec` implemented; in stages 3 and 4 a ping is answered unless something failed |
| `config` | every file of up to five lines: settings in order, possibly cut off, comments of either length between | each variable gets its own setting's number, unless a comment is longer than 99 characters |
| `padding` | 1 to 6 hops, the three lengths the program sends, contents ending in bytes that could be padding | every body fits 500 bytes with its header, and arrives as it was sent |
| `checksum` | words whose sums carry once, twice or not at all, 3 rewritings | two folds are enough; a recomputed header verifies |
| `startup_port` | | *violation*: the port in an up message is not the router's |
| `plain_done_id` | | *violation*: a forwarded extend-done does not leave under the logged identifier |
| `plain_recovery` | | *violation*: no recovery from a dead router |

**Why the bounds suffice.** The code treats a first hop, a middle hop and an exit
differently and nothing else, so three hops have every role, with a router left
over as a bystander. Three pings against buffers of two make queues overflow and
let replies overtake the next request at a hop. Two failures cover a dead router
together with a lost or a refused ping, or two dead routers. Identifiers are not
reduced: they are computed in 16 bits as in the code. In `startup` the highest legal
router number is 2 so that a configuration with too many routers is among those
checked. `relay` needs three pings so that two answers can be on their way to one
router while the proxy sends it another. Six hops are the most the program allows, so
`padding` covers every circuit; a body's bytes matter only where they may be taken for
padding, which is why few values of bytes are enough. The sum of four words carries at
most three times, and `checksum` has words with each. Deadlock is not checked: the program stops when the users do, after a
failure, or at the end of stage 1; a file, a body and a header are done with.

**Fairness.** Weak fairness of each process: one that can go on does so, and a turn
of a select loop serves every ready descriptor (`proxy.cc:407`, `router.cc:500` and
651), so the UDP and the raw socket of a router are each served. The Internet
answers what it does not lose. Nothing forces users to ping or anything to fail.
Liveness is claimed without failures and with room in the buffers, since the code
neither detects a loss nor sends anything again.

**Divergences** between the code and what it says of itself. The first three have
runs that end in a violation:

1. A router writes its up message before its socket is bound, so the port it
   announces is always 0 (`router.cc:780` and 785). The proxy works because it uses
   the datagram's source address.
2. In stage 5 an extend-done is forwarded under the identifier it came with, while
   the log line (`router.cc:618`) names the translated one. Stage 6 translates it.
3. `README.md:2` claims failure detection and recovery. When a router of a working
   circuit dies, pings go into the dead circuit, or the proxy exits.

The others are built into the models as the code has them:

4. The configuration file says that a comment line "should be ignored" (`config:1`), but
   `fgets` takes 99 characters (`File.cc:28`), and the rest of a longer comment counts
   as a setting. `Config` reads such files as the code does; `ReadsTheSettings` excludes
   them.
5. `README.stage2.txt:22` describes pings that a router answers in stage 2, but the
   proxy sends only in stages 3 and 4 and from stage 5 on (`proxy.cc:509`); in
   `PingRelay` a ping of stage 2 ends at the proxy, and liveness is claimed from
   stage 3 on.
6. A comment speaks of PKCS5 padding (`aes_jh.c:72`), but only the last byte has the
   number of padding bytes, the others are zero (`aes_jh.c:85`). Both ends do the
   same, so `ContentArrives` holds.

## 4. What is proved

For every value of the constants that satisfies their assumptions: `num_routers`
is 1 to 6 (`proxy.cc:183`), hops 1 to `num_routers` (`proxy.cc:577`), buffers hold
at least one datagram, hosts on the Internet are not the program's own addresses;
in `Startup`, legal router numbers fit the table of senders; in `Config`, a setting
comes after one line with each of those before it, as in the file that comes with the
program (`config:2-4`).

- **MiniTorProofs** - the drawn hops are different routers (`HopsDistinct`); lemmas:
  identifiers stay in 16 bits, queues stay queues of messages.
- **StartupProofs** - `StartupInvariant`, and from it type correctness and the four
  invariants and the action property of `startup`. `StartupInv` adds what the
  properties need to be inductive: live routers own different ports and send once
  (`PortsOwned`), what is queued is genuine and its sender's only message
  (`UpMessagesGenuine`), and what is counted is what is registered
  (`RegistrationCounted`), and that the check of `noOfHops` lies before service. That the proxy knows *every* router is then a matter of
  cardinalities: `noOfRouters` different slots of `noOfRouters` routers.
- **PlainCircuitProofs** - `CircuitInvariant`, and from it type correctness, all
  the invariants of `plain_safety` but `NoPingIsDuplicated` (below), and
  `RoutersSurvive` (`RoutersEndOnlyByFailure`): no datagram ends a router, only a kill,
  and an ICMP error in the raw socket of the exit. No other raw socket ever holds
  anything (`RawHead`). `CircuitInv` says where the one datagram of the building phase can
  be (`Outstanding`): an extend at some hop on its way out, with the hops confirmed
  so far in place; or an answer on its way back, with one hop more in place; or
  nothing, when its carrier was killed. This is why the proxy may take any datagram for
  the answer. While relaying (`RelayInv`) every datagram at hop `i` comes from hop
  `i - 1` as a request or from `i + 1` as a reply, under the identifier shared with
  it; a reply's destination is right again when it leaves the first hop. There is
  one lemma per action; `WhatArrives` and `HeadMessage` derive from the invariant
  what a router can find in its queue, `RelayingStep` what a step of a complete
  circuit must respect. `DeadHopBlocks` adds an action property: when a hop the
  build still needs is dead, or the datagram is gone (`Doomed`), this stays so, and
  the proxy never leaves the build.
- **OnionCircuitProofs** - `OnionInvariant`, and from it every invariant of
  `onion_safety` and `NobodyAborts` (`EndsOnlyByFailure`), with the same exception as
  in stage 5. Here two datagrams may be under way, so
  `OnionInv` describes the queues completely: while hop `var + 1` is added, its key is
  at hop `k` and its extend message at hop `e <= k`, behind the key if they are at the
  same hop (`KeyAndExtend`), or hop `i` has answered (`Answer`). A key may be lost and
  its extend message not yet sent, so the invariant also has to say why a router never
  gets an extend message without a key: a key is lost only to a router that is gone,
  and that router is ahead of the extend message (`KeyedOrNot`). Each entry is
  all zero, keyed or linked. Once the circuit serves, a queue of hop `i` holds
  requests wrapped for hops `i` and on and replies wrapped by hops `i + 1` and on
  (`Receivable`). The steps of the construction are proved as moves of two
  datagrams (`Two`, `FirstTaken`, `SecondSent` ...), those of the service with
  `DeliverWithin` and `ConsumeWithin` of `MiniTorProofs`; `HopPeels`, `ProxyWraps` and
  `ProxyUnwraps` are what the layers need.
- **PingRelayProofs** - `RelayInvariant`, and from it type correctness, both other
  invariants of `relay` and `EndsOnlyByFailure`. `RelayInv` says that a packet's place
  determines it: in the tunnel and on the way out it is the ping as the user sent it,
  on the Internet it bears the address of a router that has heard from the proxy, in
  that router's raw socket it is its answer or an error, and so on.
- **Pings are tracked** - a packet is rewritten, wrapped, queued and dropped on its way;
  what stays is the number of the ping. `Tracked` (`MiniTorProofs`) says of a set of
  genuine packets that everything in the tunnel, the queues, the raw sockets, on the
  Internet and among the packets written is one of them, and that no two of all those
  have the same number. One lemma per move (`TakeTun`, `PutInbox`, `TakeWorld`,
  `QueuesCleared` ...) says what taking a packet from a place and putting one there
  does to that; the actions of all three programs are proved as such moves. What is
  genuine differs: in stages 5 and 6 a request is addressed to the host that was pinged
  and a reply comes from it (the source of a request and the target of a reply are
  rewritten at every hop); in stages 2 to 4 `RelayInv` has the addresses, and only the
  number is left to say. While a circuit is built there is no packet at all.
- **PlainCircuitProofs**, second part - `EveryPacketIsAPing` is that invariant for stage 5;
  `NoDuplicates` (`NoPingIsDuplicated`) follows. `PlainImplementsService` is the
  refinement: the abstract path is a prefix of the hops chosen, which are different
  routers, and only grows; users ping only once it is complete; what the proxy
  writes is the only packet of its ping, so it answers one not answered before, and
  it is genuine, so the one who answered is the host asked.
- **OnionCircuitProofs**, second part - the same for stage 6. The packets are the contents of bodies
  under layers (`Bodies`), and `OnionInvariant` is what makes the layers come off: a
  hop or the proxy that could not open a body would stop, and nothing be written.
- **PingRelayProofs** also has `PingsAreNotDuplicated` and `RelayImplementsPingService`,
  for stages 2 to 4, where an answer may come back while other pings are under way.
- **Nothing stalls** - `BuildsUnlessFailed`, in both proof modules of the circuits: as
  long as nothing has failed, every router runs, no raw socket holds anything but
  replies (`OnlyReplies`), and a proxy that waits, which it does
  without a timeout, has the datagram it waits for, or the one that leads to it, at a
  process. With fairness this is why the circuit gets built; TLC checks the conclusion in
  `plain_live` and `onion_live`. Every handler replaces the datagram it takes, so the
  addresses it sends to must be filled in and the queue there must have room. In stage 5
  the queue is empty. In stage 6 only a key has a datagram behind it, so two places are
  enough, and the theorem asks for them (`RcvBuf >= 2`): with one, the extend message may
  be lost behind the key, which nothing but `sleep(2)` keeps apart (`proxy.cc:350`).
- **ConfigProofs** - `SettingsAreRead` (`ReadsTheSettings`) and `ConfigTypes`, for files of any
  length. The program only counts the texts it has taken; `ConfigInv` says what that
  count means in the file: the settings behind the position are those counted
  (`Behind`), and those ahead are the others (`Ahead`), so the next text that is no
  comment is the line of the setting that is due, or there is none. It holds as long as
  no comment is longer than `fgets` takes: the rest of one has no key at all.
- **PaddingProofs** - `StrippedIsTheText`: stripping gives back what was padded, for every
  sequence of bytes, although the padding is told by its last byte only and the text may
  end in such bytes. `PaddingInvariant` says which layers are on a body in each phase:
  those of the hops from the one at work to the last addressed, each padded around a
  ciphertext of `Size(len, depth)` bytes. From it type correctness, `ContentsArrive`
  and `BodiesFit`: 500 bytes are enough for 24 hops; 6 are allowed. `MaxHops` and
  `Contents` (sequences of 2, 16 or 84 bytes, the lengths the program sends) are
  arbitrary.
- **ChecksumProofs** - all sums are taken modulo 65535, where 0 has two words that stand
  for it. `StandsFor` says of a word that it is a sum modulo 65535, and 0 for the sum 0
  only, which makes it unique. `FoldTwiceStandsFor`: two folds give that word, for the
  sum of up to 65536 words; one's complement addition gives it too
  (`CarriesAreTakenIn`); and a header with its own complement in it adds up to a
  multiple of 65535 that is not 0, whatever else is in it (`RewritingVerifies`).

**Only model-checked**: liveness and everything under fairness, which the prover does
not reach (registration that ends in `startup`, `CircuitService!Spec` in `plain_live` and
`onion_live`, answered pings in `relay`). The refinements proved are those of the safety
specifications (`SafeSpec`). Every invariant and every action property that a passing
run checks is a theorem.

## 5. Not modelled, and the plan

Left out for good: log files, formatting, the cipher itself, the setup of interfaces
and routes by scripts, unused sources. `recvfrom` and `select` fail only by `SIGCHLD`;
a failing `recvfrom`, whose length of -1 is stored unsigned (`SocketAPI.cc:88`), has no
cause in the models. Packets other than 84-byte pings are outside what any stage
handles: the routers assert the size.

Settings are read by position, so a line left out, two lines exchanged or a blank line
give variables the numbers of other settings. The repository documents one order and
promises nothing for another; `Files` has the lines in that order, possibly cut off. The word before a number goes into an array of 10 or 20 characters
(`Stage1.cc:47-60`), one of which `num_routers` overruns by two; what lies behind it
depends on the build and is not modelled.
