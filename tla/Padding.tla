------------------------------ MODULE Padding ------------------------------
(***************************************************************************)
(* The bytes of stage 6: how a body is padded and encrypted once per hop   *)
(* and loses its layers again (aes_jh.c; SocketAPI.cc, EncryptThisMessage, *)
(* DecryptThisMessage; proxy.cc, OnionEncrypt, OnionDecrypt), in messages  *)
(* of maxMessageLength bytes behind a header of 23.                        *)
(*                                                                         *)
(* The module follows one body on its way: a key, the port of the next hop *)
(* or a packet goes out under the layers of the hops that open it, and the *)
(* reply to a packet comes back under a layer of every hop.  The cipher is *)
(* ideal: of an encrypted text only the length shows, and decryption under *)
(* the key it was encrypted with gives back the padded text.  OnionCircuit *)
(* takes it from here that a layer is removed as it was put on.            *)
(*                                                                         *)
(* A definition X_suffix above a definition X is X with a fault put in, to *)
(* see that the properties below would notice it; no behaviour uses it.    *)
(***************************************************************************)
EXTENDS Integers, Sequences

CONSTANTS MaxHops,   \* 6: a circuit has no more hops than there are routers
          Contents   \* what bodies carry: the keys, ports and packets

Byte == 0 .. 255

KeyLength    == 16
PortLength   == 2
PacketLength == 84
Lengths      == {KeyLength, PortLength, PacketLength}

ASSUME PaddingAssumption ==
  /\ MaxHops \in Nat
  /\ \A c \in Contents : c \in Seq(Byte) /\ Len(c) \in Lengths

AES_KEY_LENGTH_IN_CHARS == 16
maxMessageLength_tight  == 128
maxMessageLength        == 500
HeaderLength            == 23

-----------------------------------------------------------------------------
(* aes_jh.c.                                                               *)

Zeros(n) == [k \in 1 .. n |-> 0]

padding_required_ifAny(len) ==
  (AES_KEY_LENGTH_IN_CHARS - (len % AES_KEY_LENGTH_IN_CHARS)) % AES_KEY_LENGTH_IN_CHARS
padding_required(len) == AES_KEY_LENGTH_IN_CHARS - (len % AES_KEY_LENGTH_IN_CHARS)

\* Zeros, and the number of padding bytes in the last.
PadTo(in, pad) == in \o Zeros(pad - 1) \o <<pad>>
Padded(in)     == PadTo(in, padding_required(Len(in)))

\* The last byte tells how much to remove; the assertion sees to its range only.
padding_used(out) == out[Len(out)]
ValidPadding(out) ==
  0 < padding_used(out) /\ padding_used(out) <= AES_KEY_LENGTH_IN_CHARS
Stripped_oneMore(out) == SubSeq(out, 1, Len(out) - padding_used(out) - 1)
Stripped(out) == SubSeq(out, 1, Len(out) - padding_used(out))

-----------------------------------------------------------------------------
VARIABLES noOfHops,
          content,  \* the bytes to be carried
          target,   \* the hop that is to have them; the proxy is hop 0
          phase,    \* "wrap" at the proxy, "out" and "home" between hops, "unwrap"
                    \* at the proxy, "read" by the target, "aborted"
          hop,      \* the hop whose key is next
          layers,   \* the padded texts under encryption, the outermost first
          text      \* the body where no layer is on it

vars == <<noOfHops, content, target, phase, hop, layers, text>>

\* A body is its text or, once encrypted, as long as its outermost padded text; the
\* bytes of a ciphertext mean nothing to anyone.
Cipher(len) == Zeros(len)
Body == IF layers = << >> THEN text ELSE Cipher(Len(Head(layers).padded))

TypeOK ==
  /\ noOfHops \in 1 .. MaxHops
  /\ content \in Contents
  /\ target \in 0 .. noOfHops
  /\ phase \in {"wrap", "out", "home", "unwrap", "read", "aborted"}
  /\ hop \in 0 .. noOfHops + 1
  /\ layers \in Seq([key : 1 .. MaxHops, padded : Seq(Byte)])
  /\ text \in Seq(Byte)

\* A key for hop n is wrapped for the hops before n, the port that n is to extend
\* to for n as well, a packet for every hop; layers go on from the last hop's.
LastLayer_oneMore(len, n) == IF len = KeyLength THEN n ELSE n + 1
LastLayer(len, n) == IF len = KeyLength THEN n - 1 ELSE n

Init ==
  /\ noOfHops \in 1 .. MaxHops
  /\ content \in Contents
  /\ target \in IF Len(content) = PacketLength THEN {noOfHops} ELSE 1 .. noOfHops
  /\ phase = "wrap"
  /\ hop = LastLayer(Len(content), target)
  /\ layers = << >>
  /\ text = content

-----------------------------------------------------------------------------
(* SocketAPI.cc: one layer more, one layer less.                           *)

EncryptThisMessage(key, body) ==
  /\ layers' = <<[key |-> key, padded |-> Padded(body)]>> \o layers
  /\ text' = << >>

\* Under the layer is the next one, whole, or the text.
Opens(key) ==
  /\ layers # << >> /\ Head(layers).key = key
  /\ ValidPadding(Head(layers).padded)
  /\ Len(layers) > 1 => Len(Stripped(Head(layers).padded)) = Len(layers[2].padded)

\* Decryption under key, then at the place and in the phase given.
DecryptThisMessage(key, at, then) ==
  IF Opens(key)
    THEN /\ layers' = Tail(layers)
         /\ text' = IF Len(layers) = 1 THEN Stripped(Head(layers).padded) ELSE << >>
         /\ hop' = at /\ phase' = then
    ELSE phase' = "aborted" /\ UNCHANGED <<hop, layers, text>>

-----------------------------------------------------------------------------
(* The way of a body.                                                      *)

\* The loop of OnionEncrypt at the proxy.
Wrap ==
  /\ phase = "wrap" /\ hop > 0
  /\ EncryptThisMessage(hop, Body)
  /\ hop' = hop - 1
  /\ UNCHANGED <<noOfHops, content, target, phase>>

SendOut ==
  /\ phase = "wrap" /\ hop = 0
  /\ hop' = 1 /\ phase' = "out"
  /\ UNCHANGED <<noOfHops, content, target, layers, text>>

\* A hop before the target passes on what is below its layer.
Peel ==
  /\ phase = "out" /\ hop < target
  /\ DecryptThisMessage(hop, hop + 1, "out")
  /\ UNCHANGED <<noOfHops, content, target>>

\* The target takes a key as it comes, and a port or a packet from below its layer.
TakeKey ==
  /\ phase = "out" /\ hop = target /\ Len(content) = KeyLength
  /\ phase' = "read"
  /\ UNCHANGED <<noOfHops, content, target, hop, layers, text>>

OpenLast ==
  /\ phase = "out" /\ hop = target /\ Len(content) # KeyLength
  /\ DecryptThisMessage(hop, hop, "read")
  /\ UNCHANGED <<noOfHops, content, target>>

\* The reply to a packet is another packet, which the exit wraps first.
Reply ==
  /\ phase = "read" /\ target = noOfHops /\ Len(content) = PacketLength
  /\ \E c \in Contents :
       Len(c) = PacketLength /\ content' = c /\ EncryptThisMessage(target, c)
  /\ target' = 0
  /\ hop' = noOfHops - 1 /\ phase' = "home"
  /\ UNCHANGED noOfHops

AddLayer ==
  /\ phase = "home" /\ hop > 0
  /\ EncryptThisMessage(hop, Body)
  /\ hop' = hop - 1
  /\ UNCHANGED <<noOfHops, content, target, phase>>

ComeHome ==
  /\ phase = "home" /\ hop = 0
  /\ hop' = 1 /\ phase' = "unwrap"
  /\ UNCHANGED <<noOfHops, content, target, layers, text>>

\* The loop of OnionDecrypt at the proxy.
Unwrap ==
  /\ phase = "unwrap"
  /\ DecryptThisMessage(hop, hop + 1, IF hop = noOfHops THEN "read" ELSE "unwrap")
  /\ UNCHANGED <<noOfHops, content, target>>

Next == \/ Wrap \/ SendOut \/ Peel \/ TakeKey \/ OpenLast
        \/ Reply \/ AddLayer \/ ComeHome \/ Unwrap

Spec == Init /\ [][Next]_vars

-----------------------------------------------------------------------------
(* Properties.                                                             *)

\* Padding makes every layer longer, with the body's own length lost from sight: a
\* circuit as long as the program allows still fits the arrays of 500 bytes that
\* EncryptThisMessage and the senders copy into unchecked (SocketAPI.cc:430).
FitsTheMessage == HeaderLength + Len(Body) <= maxMessageLength

\* What the target or the proxy ends up with is the content, to the byte, whatever
\* its length and its last byte are: the lengths the receivers assert
\* (router.cc:374, 427 and 311; proxy.cc:460) are those of what was sent, and no
\* padding fails the assertion of aes_jh.c:125.
ContentArrives ==
  /\ phase # "aborted"
  /\ phase = "read" => layers = << >> /\ text = content
=============================================================================
