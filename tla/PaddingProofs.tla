---------------------------- MODULE PaddingProofs ----------------------------
(***************************************************************************)
(* Proofs about Padding, for every bound on the hops and all contents of   *)
(* bodies: what is padded is stripped to what it was, every layer comes    *)
(* off as it was put on, and what arrives is what was sent.                *)
(***************************************************************************)
EXTENDS Padding, SequenceTheorems, TLAPS

-----------------------------------------------------------------------------
(* The inductive invariant.                                                *)

\* The length of a body of len bytes under d layers, one or more: the padding of the
\* innermost fills up a block, and each of the others is a block.
Size(len, d) == 16 * d + len - (len % 16)

\* The layers of the hops a + 1 to b are on the content, each around the next.
Layered(a, b) ==
  /\ layers \in Seq([key : 1 .. MaxHops, padded : Seq(Byte)])
  /\ Len(layers) = b - a
  /\ \A i \in 1 .. b - a :
       /\ layers[i].key = a + i
       /\ layers[i].padded = IF i = b - a THEN Padded(content)
                             ELSE Padded(Cipher(Size(Len(content), b - a - i)))
  /\ text = IF b = a THEN content ELSE << >>

\* Which layers are on depends on the phase and the hop.
Way ==
  \/ /\ phase = "wrap" /\ target \in 1 .. noOfHops
     /\ hop \in 0 .. LastLayer(Len(content), target)
     /\ Layered(hop, LastLayer(Len(content), target))
  \/ /\ phase = "out" /\ target \in 1 .. noOfHops /\ hop \in 1 .. target
     /\ Layered(hop - 1, LastLayer(Len(content), target))
  \/ /\ phase = "home" /\ target = 0 /\ hop \in 0 .. noOfHops - 1
     /\ Layered(hop, noOfHops)
  \/ /\ phase = "unwrap" /\ target = 0 /\ hop \in 1 .. noOfHops
     /\ Layered(hop - 1, noOfHops)
  \/ /\ phase = "read" /\ target \in 0 .. noOfHops /\ hop \in 0 .. noOfHops + 1
     /\ layers = << >> /\ text = content

PaddingInv ==
  /\ noOfHops \in 1 .. MaxHops
  /\ content \in Contents
  /\ Way

-----------------------------------------------------------------------------
(* Padding and stripping.                                                  *)

LEMMA PaddingRequired ==
  ASSUME NEW len \in Nat
  PROVE  padding_required(len) \in 1 .. 16 /\ len + padding_required(len) = Size(len, 1)
<1>1. len % 16 \in 0 .. 15
  OBVIOUS
<1> QED
  BY <1>1 DEF padding_required, AES_KEY_LENGTH_IN_CHARS, Size

LEMMA SizeIs ==
  ASSUME NEW len \in Nat, NEW d \in Nat \ {0}
  PROVE  /\ Size(len, d) \in Nat
         /\ Size(len, d) + padding_required(Size(len, d)) = Size(len, d + 1)
<1>1. PICK r : r = len % 16
  OBVIOUS
<1>2. r \in 0 .. 15 /\ r <= len
  BY <1>1
<1>3. PICK n : n = Size(len, d)
  OBVIOUS
<1>4. n \in Nat /\ n = 16 * d + len - r /\ Size(len, d + 1) = n + 16
  BY <1>1, <1>2, <1>3 DEF Size
<1>5. n % 16 = 0
  <2>1. PICK k \in Int : len = 16 * k + r
    BY <1>1
  <2>2. n = 16 * (d + k)
    BY <1>2, <1>4, <2>1
  <2> QED
    BY <2>1, <2>2
<1>6. padding_required(n) = 16
  BY <1>5 DEF padding_required, AES_KEY_LENGTH_IN_CHARS
<1> QED
  BY <1>3, <1>4, <1>6

\* Padding keeps the bytes, and puts its length last.
LEMMA PaddedIs ==
  ASSUME NEW x \in Seq(Byte)
  PROVE  /\ Padded(x) \in Seq(Byte) /\ Len(Padded(x)) = Size(Len(x), 1)
         /\ Len(Padded(x)) = Len(x) + padding_required(Len(x))
         /\ \A k \in 1 .. Len(x) : Padded(x)[k] = x[k]
         /\ padding_used(Padded(x)) = padding_required(Len(x))
<1>1. PICK p, n : p = padding_required(Len(x)) /\ n = Len(x)
  OBVIOUS
<1>2. n \in Nat /\ p \in 1 .. 16 /\ n + p = Size(n, 1)
  BY <1>1, PaddingRequired
<1>3. PICK z : z = Zeros(p - 1)
  OBVIOUS
<1>4. z \in Seq(Byte) /\ Len(z) = p - 1
  BY <1>2, <1>3 DEF Zeros, Byte
<1>5. PICK l : l = <<p>>
  OBVIOUS
<1>6. l \in Seq(Byte) /\ Len(l) = 1 /\ l[1] = p
  BY <1>2, <1>5 DEF Byte
<1>7. PICK y : y = x \o z
  OBVIOUS
<1>8. y \in Seq(Byte) /\ Len(y) = n + p - 1 /\ \A k \in 1 .. n : y[k] = x[k]
  <2>1. /\ y \in Seq(Byte) /\ Len(y) = n + (p - 1)
        /\ \A k \in 1 .. n + (p - 1) : y[k] = IF k <= n THEN x[k] ELSE z[k - n]
    <3>1. /\ y \in Seq(Byte) /\ Len(y) = Len(x) + Len(z)
          /\ \A k \in 1 .. Len(x) + Len(z) : y[k] = IF k <= Len(x) THEN x[k] ELSE z[k - Len(x)]
      BY <1>4, <1>7, ConcatProperties
    <3> QED
      BY <1>1, <1>4, <3>1
  <2>2. \A k \in 1 .. n : k \in 1 .. n + (p - 1) /\ k <= n
    BY <1>2
  <2> QED
    BY <1>2, <2>1, <2>2
<1>9. PICK o : o = y \o l
  OBVIOUS
<1>10. /\ o \in Seq(Byte) /\ Len(o) = n + p /\ o[n + p] = p
       /\ \A k \in 1 .. n : o[k] = x[k]
  <2>1. /\ o \in Seq(Byte) /\ Len(o) = Len(y) + Len(l)
        /\ \A k \in 1 .. Len(y) + Len(l) : o[k] = IF k <= Len(y) THEN y[k] ELSE l[k - Len(y)]
    BY <1>6, <1>8, <1>9, ConcatProperties
  <2>2. Len(y) + Len(l) = n + p /\ n + p \in 1 .. n + p /\ ~ (n + p <= n + p - 1)
        /\ (n + p) - (n + p - 1) = 1
    BY <1>2, <1>6, <1>8
  <2>3. o[n + p] = p
    BY <1>6, <1>8, <2>1, <2>2
  <2>4. \A k \in 1 .. n : k \in 1 .. n + p /\ k <= n + p - 1
    BY <1>2
  <2> QED
    BY <1>8, <2>1, <2>2, <2>3, <2>4
<1>11. Padded(x) = o
  BY <1>1, <1>3, <1>5, <1>7, <1>9 DEF Padded, PadTo
<1> QED
  BY <1>1, <1>2, <1>10, <1>11 DEF padding_used

\* Whatever a text ends in, stripping what was padded gives it back.
THEOREM StrippedIsTheText ==
  ASSUME NEW x \in Seq(Byte)
  PROVE  ValidPadding(Padded(x)) /\ Stripped(Padded(x)) = x
<1>1. PICK o, p, n : o = Padded(x) /\ p = padding_required(Len(x)) /\ n = Len(x)
  OBVIOUS
<1>2. n \in Nat /\ p \in 1 .. 16
  BY <1>1, PaddingRequired
<1>3. /\ o \in Seq(Byte) /\ Len(o) = n + p /\ padding_used(o) = p
      /\ \A k \in 1 .. n : o[k] = x[k]
  BY <1>1, PaddedIs
<1>4. ValidPadding(o)
  BY <1>2, <1>3 DEF ValidPadding, AES_KEY_LENGTH_IN_CHARS
<1>5. Stripped(o) = SubSeq(o, 1, n)
  BY <1>2, <1>3 DEF Stripped
<1>6. SubSeq(o, 1, n) = x
  <2>1. \A k \in 1 .. n : o[k] \in Byte
    BY <1>2, <1>3
  <2>2. PICK t : t = SubSeq(o, 1, n)
    OBVIOUS
  <2>3. /\ t \in Seq(Byte) /\ Len(t) = IF 1 <= n THEN n - 1 + 1 ELSE 0
        /\ \A k \in 1 .. n - 1 + 1 : t[k] = o[1 + k - 1]
    BY <1>2, <2>1, <2>2, SubSeqProperties
  <2>4. Len(t) = n /\ \A k \in 1 .. n : t[k] = x[k]
    <3>1. Len(t) = n /\ n - 1 + 1 = n
      BY <1>2, <2>3
    <3>2. \A k \in 1 .. n : 1 + k - 1 = k
      OBVIOUS
    <3> QED
      BY <1>3, <2>3, <3>1, <3>2
  <2>5. t = x
    BY <1>1, <2>3, <2>4, SeqEqual
  <2> QED
    BY <2>2, <2>5
<1> QED
  BY <1>1, <1>4, <1>5, <1>6

-----------------------------------------------------------------------------
(* Layers.                                                                 *)

LEMMA ContentIs ==
  ASSUME content \in Contents
  PROVE  /\ content \in Seq(Byte) /\ Len(content) \in Lengths /\ Len(content) \in 1 .. 84
         /\ Size(Len(content), 1) <= 96
<1>1. content \in Seq(Byte) /\ Len(content) \in {16, 2, 84}
  BY PaddingAssumption DEF PaddingAssumption, Lengths, KeyLength, PortLength, PacketLength
<1>2. \A n \in {16, 2, 84} : n \in 1 .. 84 /\ Size(n, 1) <= 96
  BY DEF Size
<1> QED
  BY <1>1, <1>2 DEF Lengths, KeyLength, PortLength, PacketLength

\* What is inside layer i of those of the hops a + 1 to b.
LEMMA CipherIs ==
  ASSUME NEW n \in Nat
  PROVE  Cipher(n) \in Seq(Byte) /\ Len(Cipher(n)) = n
BY DEF Cipher, Zeros, Byte

\* The outermost layer is as long as its depth says.
LEMMA Outermost ==
  ASSUME content \in Seq(Byte), NEW a \in Int, NEW b \in Int, a < b, Layered(a, b)
  PROVE  /\ layers # << >> /\ Head(layers) = layers[1] /\ Len(layers) = b - a
         /\ Head(layers).padded \in Seq(Byte)
         /\ Len(Head(layers).padded) = Size(Len(content), b - a)
<1>1. PICK d \in Nat \ {0} : d = b - a
  OBVIOUS
<1>2. PICK h : h = layers[1]
  OBVIOUS
<1>3. /\ layers # << >> /\ Head(layers) = h /\ Len(layers) = d
      /\ h.padded = IF 1 = d THEN Padded(content)
                    ELSE Padded(Cipher(Size(Len(content), d - 1)))
  <2>1. Len(layers) = d /\ 1 \in 1 .. d
    BY <1>1 DEF Layered
  <2> QED
    BY <1>1, <1>2, <2>1 DEF Layered
<1>4. CASE d = 1
  BY <1>1, <1>2, <1>3, <1>4, PaddedIs
<1>5. CASE d # 1
  <2>1. PICK n, e : e = d - 1 /\ n = Size(Len(content), e)
    OBVIOUS
  <2>2. e \in Nat \ {0} /\ e + 1 = d /\ Len(content) \in Nat
    BY <1>5, <2>1
  <2>3. n \in Nat /\ n + padding_required(n) = Size(Len(content), d)
    BY <2>1, <2>2, SizeIs
  <2>4. h.padded \in Seq(Byte) /\ Len(h.padded) = n + padding_required(n)
    BY <1>3, <1>5, <2>1, <2>3, CipherIs, PaddedIs
  <2> QED
    BY <1>1, <1>2, <1>3, <2>3, <2>4
<1> QED
  BY <1>4, <1>5

\* A body is as long as its depth says.
LEMMA BodyIs ==
  ASSUME content \in Seq(Byte), NEW a \in Int, NEW b \in Int, a <= b, Layered(a, b)
  PROVE  Body = IF a = b THEN content ELSE Cipher(Size(Len(content), b - a))
<1>1. CASE a = b
  <2>1. Len(layers) = 0 /\ text = content
    BY <1>1 DEF Layered
  <2>2. layers = << >>
    BY <2>1, EmptySeq DEF Layered
  <2> QED
    BY <1>1, <2>1, <2>2 DEF Body
<1>2. CASE a # b
  BY <1>2, Outermost DEF Body
<1> QED
  BY <1>1, <1>2

\* A layer more.
LEMMA PutLayer ==
  ASSUME content' \in Seq(Byte), NEW a \in 1 .. MaxHops, NEW b \in Int, a <= b,
         NEW x, x = IF a = b THEN content' ELSE Cipher(Size(Len(content'), b - a)),
         EncryptThisMessage(a, x),
         a = b => layers = << >>, a # b => Layered(a, b) /\ content' = content
  PROVE  Layered(a - 1, b)'
<1>1. PICK l : l = [key |-> a, padded |-> Padded(x)]
  OBVIOUS
<1>2. PICK R : R = [key : 1 .. MaxHops, padded : Seq(Byte)]
  OBVIOUS
<1>3. PICK d \in Nat : d = b - a
  OBVIOUS
<1>4. layers \in Seq(R) /\ Len(layers) = d
  <2>1. CASE a = b
    BY <1>3, <2>1, EmptySeq
  <2>2. CASE a # b
    BY <1>2, <1>3, <2>2 DEF Layered
  <2> QED
    BY <2>1, <2>2
<1>5. x \in Seq(Byte)
  <2>1. CASE a = b
    BY <2>1
  <2>2. CASE a # b
    <3>1. Size(Len(content'), b - a) \in Nat
      <4>1. Len(content') \in Nat /\ b - a \in Nat \ {0}
        BY <2>2
      <4> QED
        BY <4>1, SizeIs
    <3> QED
      BY <2>2, <3>1, CipherIs
  <2> QED
    BY <2>1, <2>2
<1>6. l \in R /\ l.key = a /\ l.padded = Padded(x)
  BY <1>1, <1>2, <1>5, PaddedIs
<1>7. PICK o : o = <<l>>
  OBVIOUS
<1>8. o \in Seq(R) /\ Len(o) = 1 /\ o[1] = l
  BY <1>6, <1>7
<1>9. PICK z : z = o \o layers
  OBVIOUS
<1>10. /\ z \in Seq(R) /\ Len(z) = d + 1
       /\ \A i \in 1 .. d + 1 : z[i] = IF i <= 1 THEN o[i] ELSE layers[i - 1]
  <2>1. /\ z \in Seq(R) /\ Len(z) = 1 + d
        /\ \A i \in 1 .. 1 + d : z[i] = IF i <= 1 THEN o[i] ELSE layers[i - 1]
    <3>1. /\ z \in Seq(R) /\ Len(z) = Len(o) + Len(layers)
          /\ \A i \in 1 .. Len(o) + Len(layers) :
               z[i] = IF i <= Len(o) THEN o[i] ELSE layers[i - Len(o)]
      BY <1>4, <1>8, <1>9, ConcatProperties
    <3> QED
      BY <1>4, <1>8, <3>1
  <2>2. 1 + d = d + 1
    OBVIOUS
  <2> QED
    BY <2>1, <2>2
<1>11. layers' = z /\ text' = << >>
  BY <1>1, <1>7, <1>9 DEF EncryptThisMessage
<1>12. b - (a - 1) = d + 1 /\ b # a - 1
  BY <1>3
<1>13. ASSUME NEW i \in 1 .. d + 1
       PROVE  /\ z[i].key = (a - 1) + i
              /\ z[i].padded = IF i = d + 1 THEN Padded(content')
                               ELSE Padded(Cipher(Size(Len(content'), d + 1 - i)))
  <2>1. CASE i = 1
    <3>1. z[i] = l /\ (a - 1) + i = a /\ d + 1 - i = d /\ (i = d + 1 <=> a = b)
      BY <1>3, <1>8, <1>10, <2>1
    <3> QED
      BY <1>3, <1>6, <3>1
  <2>2. CASE i # 1
    <3>1. PICK j : j = i - 1
      OBVIOUS
    <3>2. /\ j \in 1 .. d /\ z[i] = layers[j] /\ a + j = (a - 1) + i /\ d - j = d + 1 - i
          /\ (j = d <=> i = d + 1) /\ a # b
      BY <1>3, <1>10, <2>2, <3>1
    <3>3. /\ layers[j].key = a + j
          /\ layers[j].padded = IF j = d THEN Padded(content)
                                ELSE Padded(Cipher(Size(Len(content), d - j)))
      BY <1>3, <3>2 DEF Layered
    <3> QED
      BY <3>2, <3>3
  <2> QED
    BY <2>1, <2>2
<1>14. PICK e, c : e = a - 1 /\ c = content'
  OBVIOUS
<1>15. /\ z \in Seq(R) /\ Len(z) = b - e
       /\ \A i \in 1 .. b - e :
            /\ z[i].key = e + i
            /\ z[i].padded = IF i = b - e THEN Padded(c)
                             ELSE Padded(Cipher(Size(Len(c), b - e - i)))
  BY <1>10, <1>12, <1>13, <1>14
<1>16. Layered(e, b)'
  BY <1>2, <1>11, <1>12, <1>14, <1>15 DEF Layered
<1> QED
  BY <1>14, <1>16

\* A layer less: it opens, and what is below it is whole.
LEMMA RemoveLayer ==
  ASSUME content \in Seq(Byte), NEW a \in Nat, NEW b \in Int, a < b, Layered(a, b),
         content' = content, NEW at, NEW then, DecryptThisMessage(a + 1, at, then)
  PROVE  Layered(a + 1, b)' /\ hop' = at /\ phase' = then
<1>1. PICK d \in Nat : d + 1 = b - a
  <2>1. (b - a) - 1 \in Nat /\ ((b - a) - 1) + 1 = b - a
    OBVIOUS
  <2> QED
    BY <2>1
<1>2. PICK h, R : h = layers[1] /\ R = [key : 1 .. MaxHops, padded : Seq(Byte)]
  OBVIOUS
<1>3. /\ layers \in Seq(R) /\ Len(layers) = d + 1 /\ layers # << >> /\ Head(layers) = h
      /\ \A i \in 1 .. d + 1 :
           /\ layers[i].key = a + i
           /\ layers[i].padded = IF i = d + 1 THEN Padded(content)
                                 ELSE Padded(Cipher(Size(Len(content), d + 1 - i)))
  BY <1>1, <1>2, Outermost DEF Layered
<1>4. PICK x \in Seq(Byte) : /\ h.key = a + 1 /\ h.padded = Padded(x)
                             /\ d = 0 => x = content
                             /\ d # 0 => Len(x) = Size(Len(content), d)
  <2>1. 1 \in 1 .. d + 1 /\ (1 = d + 1 <=> d = 0) /\ d + 1 - 1 = d
    BY <1>1
  <2>2. CASE d = 0
    BY <1>2, <1>3, <2>1, <2>2
  <2>3. CASE d # 0
    <3>1. Size(Len(content), d) \in Nat
      <4>1. Len(content) \in Nat /\ d \in Nat \ {0}
        BY <2>3
      <4> QED
        BY <4>1, SizeIs
    <3> QED
      BY <1>2, <1>3, <2>1, <2>3, <3>1, CipherIs
  <2> QED
    BY <2>2, <2>3
<1>5. ValidPadding(h.padded) /\ Stripped(h.padded) = x
  BY <1>4, StrippedIsTheText
<1>6. Opens(a + 1)
  <2>1. ASSUME Len(layers) > 1
        PROVE  Len(x) = Len(layers[2].padded)
    <3>1. d # 0 /\ 2 \in 1 .. d + 1 /\ d + 1 - 2 = d - 1 /\ (2 = d + 1 <=> d = 1)
      BY <1>3, <2>1
    <3>2. CASE d = 1
      <4>1. layers[2].padded = Padded(content)
        BY <1>3, <3>1, <3>2
      <4> QED
        BY <1>4, <3>1, <3>2, <4>1, PaddedIs
    <3>3. CASE d # 1
      <4>1. PICK e, n : e = d - 1 /\ n = Size(Len(content), e)
        OBVIOUS
      <4>2. e \in Nat \ {0} /\ e + 1 = d /\ Len(content) \in Nat
        BY <3>1, <3>3, <4>1
      <4>3. layers[2].padded = Padded(Cipher(n))
        BY <1>3, <3>1, <3>3, <4>1
      <4>4. n \in Nat /\ n + padding_required(n) = Size(Len(content), d)
        BY <4>1, <4>2, SizeIs
      <4>5. Len(Padded(Cipher(n))) = n + padding_required(n)
        BY <4>4, CipherIs, PaddedIs
      <4> QED
        BY <1>4, <3>1, <4>3, <4>4, <4>5
    <3> QED
      BY <3>2, <3>3
  <2> QED
    BY <1>3, <1>4, <1>5, <2>1 DEF Opens
<1>7. PICK z : z = Tail(layers)
  OBVIOUS
<1>8. z \in Seq(R) /\ Len(z) = d /\ \A i \in 1 .. d : z[i] = layers[i + 1]
  <2>1. /\ z \in Seq(R) /\ Len(z) = d + 1 - 1 /\ \A i \in 1 .. Len(z) : z[i] = layers[i + 1]
    BY <1>3, <1>7, HeadTailProperties
  <2> QED
    BY <2>1
<1>9. /\ layers' = z /\ hop' = at /\ phase' = then
      /\ text' = IF d = 0 THEN content ELSE << >>
  <2>1. Len(layers) = 1 <=> d = 0
    BY <1>3
  <2> QED
    BY <1>3, <1>4, <1>5, <1>6, <1>7, <2>1 DEF DecryptThisMessage
<1>10. b - (a + 1) = d /\ (b = a + 1 <=> d = 0)
  BY <1>1
<1>11. ASSUME NEW i \in 1 .. d
       PROVE  /\ z[i].key = (a + 1) + i
              /\ z[i].padded = IF i = d THEN Padded(content)
                               ELSE Padded(Cipher(Size(Len(content), d - i)))
  <2>1. PICK j : j = i + 1
    OBVIOUS
  <2>2. /\ j \in 1 .. d + 1 /\ z[i] = layers[j] /\ a + j = (a + 1) + i /\ d + 1 - j = d - i
        /\ (j = d + 1 <=> i = d)
    BY <1>8, <2>1
  <2> QED
    BY <1>3, <2>2
<1> QED
  BY <1>2, <1>8, <1>9, <1>10, <1>11 DEF Layered

-----------------------------------------------------------------------------
(* The steps.                                                              *)

\* Where the hops and the layers are.
LEMMA Bounds ==
  ASSUME PaddingInv
  PROVE  /\ content \in Seq(Byte) /\ Len(content) \in Lengths
         /\ MaxHops \in Nat /\ noOfHops \in 1 .. MaxHops /\ noOfHops \in Int
         /\ target \in 1 .. noOfHops => /\ target \in Int
                                        /\ LastLayer(Len(content), target) \in Int
                                        /\ LastLayer(Len(content), target) <= noOfHops
                                        /\ LastLayer(Len(content), target) =
                                             IF Len(content) = KeyLength THEN target - 1
                                                                         ELSE target
BY ContentIs, PaddingAssumption DEF PaddingInv, PaddingAssumption, LastLayer

LEMMA InitInv == Init => PaddingInv
<1> SUFFICES ASSUME Init
             PROVE  PaddingInv
  OBVIOUS
<1>1. /\ noOfHops \in 1 .. MaxHops /\ phase = "wrap" /\ layers = << >> /\ text = content
      /\ content \in Contents
      /\ hop = LastLayer(Len(content), target)
  BY DEF Init
<1>2. MaxHops \in Nat /\ noOfHops \in Int /\ noOfHops \in 1 .. noOfHops
  BY <1>1, PaddingAssumption DEF PaddingAssumption
<1>3. target \in 1 .. noOfHops
  BY <1>2 DEF Init
<1>4. hop \in 0 .. hop
  BY <1>1, <1>3 DEF LastLayer
<1>5. Layered(hop, hop)
  <2>1. /\ layers \in Seq([key : 1 .. MaxHops, padded : Seq(Byte)]) /\ Len(layers) = 0
        /\ hop - hop = 0 /\ 1 .. 0 = {}
    BY <1>1, <1>4, EmptySeq
  <2> QED
    BY <1>1, <2>1 DEF Layered
<1> QED
  BY <1>1, <1>3, <1>4, <1>5 DEF PaddingInv, Way

\* The proxy wraps, and the routers on the way back.
LEMMA LayerPut ==
  ASSUME PaddingInv, NEW b \in Int, hop > 0, hop \in 0 .. b, b <= noOfHops, Layered(hop, b),
         EncryptThisMessage(hop, Body), hop' = hop - 1, UNCHANGED <<noOfHops, content, target>>
  PROVE  Layered(hop, b)' /\ hop' \in 0 .. b
<1>1. PICK a : a = hop
  OBVIOUS
<1>2. a \in 1 .. MaxHops /\ a \in Int /\ a <= b /\ content' \in Seq(Byte) /\ content' = content
  BY <1>1, Bounds
<1>3. PICK x : x = Body
  OBVIOUS
<1>4. x = IF a = b THEN content' ELSE Cipher(Size(Len(content'), b - a))
  BY <1>1, <1>2, <1>3, BodyIs
<1>5. a = b => layers = << >>
  <2>1. ASSUME a = b
        PROVE  layers = << >>
    <3>1. Len(layers) = 0
      BY <1>1, <1>2, <2>1 DEF Layered
    <3> QED
      BY <1>1, <3>1, EmptySeq DEF Layered
  <2> QED
    BY <2>1
<1>6. EncryptThisMessage(a, x) /\ Layered(a, b)
  BY <1>1, <1>3
<1>7. Layered(a - 1, b)'
  BY <1>2, <1>4, <1>5, <1>6, PutLayer
<1>8. PICK c : c = a - 1
  OBVIOUS
<1>9. hop' = c /\ Layered(c, b)' /\ c \in 0 .. b
  BY <1>1, <1>2, <1>7, <1>8
<1> QED
  BY <1>9 DEF Layered

LEMMA WrapStep ==
  ASSUME PaddingInv, Wrap
  PROVE  PaddingInv'
<1>1. /\ phase = "wrap" /\ hop > 0 /\ EncryptThisMessage(hop, Body) /\ hop' = hop - 1
      /\ UNCHANGED <<noOfHops, content, target, phase>>
  BY DEF Wrap
<1>2. /\ target \in 1 .. noOfHops /\ hop \in 0 .. LastLayer(Len(content), target)
      /\ Layered(hop, LastLayer(Len(content), target))
  BY <1>1 DEF PaddingInv, Way
<1>3. PICK b : b = LastLayer(Len(content), target)
  OBVIOUS
<1>4. b \in Int /\ b <= noOfHops /\ hop \in 0 .. b /\ Layered(hop, b)
  BY <1>2, <1>3, Bounds
<1>5. Layered(hop, b)' /\ hop' \in 0 .. b
  BY <1>1, <1>4, LayerPut
<1>6. b = LastLayer(Len(content), target)'
  BY <1>1, <1>3
<1>7. Layered(hop, LastLayer(Len(content), target))'
  BY <1>5, <1>6
<1> QED
  BY <1>1, <1>2, <1>5, <1>6, <1>7 DEF PaddingInv, Way

LEMMA SendOutStep ==
  ASSUME PaddingInv, SendOut
  PROVE  PaddingInv'
<1>1. /\ phase = "wrap" /\ hop = 0 /\ hop' = 1 /\ phase' = "out"
      /\ UNCHANGED <<noOfHops, content, target, layers, text>>
  BY DEF SendOut
<1>2. target \in 1 .. noOfHops /\ Layered(0, LastLayer(Len(content), target))
  BY <1>1 DEF PaddingInv, Way
<1>3. hop' \in 1 .. target /\ hop' - 1 = 0
  BY <1>1, <1>2, Bounds
<1>4. Layered(hop - 1, LastLayer(Len(content), target))'
  BY <1>1, <1>2, <1>3 DEF Layered
<1> QED
  BY <1>1, <1>2, <1>3, <1>4 DEF PaddingInv, Way

LEMMA PeelStep ==
  ASSUME PaddingInv, Peel
  PROVE  PaddingInv'
<1>1. /\ phase = "out" /\ hop < target /\ DecryptThisMessage(hop, hop + 1, "out")
      /\ UNCHANGED <<noOfHops, content, target>>
  BY DEF Peel
<1>2. /\ target \in 1 .. noOfHops /\ hop \in 1 .. target
      /\ Layered(hop - 1, LastLayer(Len(content), target))
  BY <1>1 DEF PaddingInv, Way
<1>3. PICK a, b : a = hop - 1 /\ b = LastLayer(Len(content), target)
  OBVIOUS
<1>4. /\ a \in Nat /\ b \in Int /\ a < b /\ a + 1 = hop /\ content \in Seq(Byte)
      /\ Layered(a, b) /\ hop + 1 \in 1 .. target /\ (hop + 1) - 1 = a + 1
  BY <1>1, <1>2, <1>3, Bounds
<1>5. DecryptThisMessage(a + 1, hop + 1, "out")
  BY <1>1, <1>4
<1>6. Layered(a + 1, b)' /\ hop' = hop + 1 /\ phase' = "out"
  BY <1>1, <1>4, <1>5, RemoveLayer
<1>7. b = LastLayer(Len(content), target)' /\ hop' - 1 = a + 1
  BY <1>1, <1>3, <1>4, <1>6
<1>8. Layered(hop - 1, LastLayer(Len(content), target))'
  BY <1>6, <1>7
<1> QED
  BY <1>1, <1>2, <1>4, <1>6, <1>8 DEF PaddingInv, Way

\* Where no layer is left there is the content.
LEMMA NoLayerLeft ==
  ASSUME NEW b \in Int
  PROVE  /\ Layered(b, b) => layers = << >> /\ text = content
         /\ Layered(b, b)' => layers' = << >> /\ text' = content'
<1>1. b - b = 0
  OBVIOUS
<1>2. \A S : \A q \in Seq(S) : Len(q) = 0 => q = << >>
  BY EmptySeq
<1> QED
  BY <1>1, <1>2 DEF Layered

LEMMA TakeKeyStep ==
  ASSUME PaddingInv, TakeKey
  PROVE  PaddingInv'
<1>1. /\ phase = "out" /\ hop = target /\ Len(content) = KeyLength /\ phase' = "read"
      /\ UNCHANGED <<noOfHops, content, target, hop, layers, text>>
  BY DEF TakeKey
<1>2. target \in 1 .. noOfHops /\ Layered(hop - 1, LastLayer(Len(content), target))
  BY <1>1 DEF PaddingInv, Way
<1>3. PICK a : a = hop - 1
  OBVIOUS
<1>4. /\ a \in Int /\ a = LastLayer(Len(content), target)
      /\ target \in 0 .. noOfHops /\ hop \in 0 .. noOfHops + 1
  BY <1>1, <1>2, <1>3, Bounds
<1>5. Layered(a, a)
  BY <1>2, <1>3, <1>4
<1>6. layers = << >> /\ text = content
  BY <1>4, <1>5, NoLayerLeft
<1> QED
  BY <1>1, <1>4, <1>6 DEF PaddingInv, Way

LEMMA OpenLastStep ==
  ASSUME PaddingInv, OpenLast
  PROVE  PaddingInv'
<1>1. /\ phase = "out" /\ hop = target /\ Len(content) # KeyLength
      /\ DecryptThisMessage(hop, hop, "read")
      /\ UNCHANGED <<noOfHops, content, target>>
  BY DEF OpenLast
<1>2. target \in 1 .. noOfHops /\ Layered(hop - 1, LastLayer(Len(content), target))
  BY <1>1 DEF PaddingInv, Way
<1>3. PICK a, b : a = hop - 1 /\ b = LastLayer(Len(content), target)
  OBVIOUS
<1>4. /\ a \in Nat /\ b \in Int /\ a < b /\ a + 1 = hop /\ b = hop /\ content \in Seq(Byte)
      /\ Layered(a, b) /\ target \in 0 .. noOfHops /\ hop \in 0 .. noOfHops + 1
  BY <1>1, <1>2, <1>3, Bounds
<1>5. DecryptThisMessage(a + 1, hop, "read")
  BY <1>1, <1>4
<1>6. Layered(a + 1, b)' /\ hop' = hop /\ phase' = "read"
  BY <1>1, <1>4, <1>5, RemoveLayer
<1>7. Layered(b, b)'
  BY <1>4, <1>6
<1>8. layers' = << >> /\ text' = content'
  BY <1>4, <1>7, NoLayerLeft
<1> QED
  BY <1>1, <1>4, <1>6, <1>8 DEF PaddingInv, Way

LEMMA ReplyStep ==
  ASSUME PaddingInv, Reply
  PROVE  PaddingInv'
<1>1. /\ phase = "read" /\ target = noOfHops /\ noOfHops' = noOfHops
      /\ target' = 0 /\ hop' = noOfHops - 1 /\ phase' = "home"
  BY DEF Reply
<1>2. content' \in Contents /\ EncryptThisMessage(target, content')
  BY DEF Reply
<1>3. PICK a, x : a = target /\ x = content'
  OBVIOUS
<1>4. layers = << >> /\ noOfHops \in 1 .. MaxHops
  BY <1>1 DEF PaddingInv, Way
<1>6. x \in Seq(Byte)
  BY <1>2, <1>3, PaddingAssumption DEF PaddingAssumption
<1>7. EncryptThisMessage(a, x) /\ a \in 1 .. MaxHops /\ a \in Int /\ a = noOfHops
  BY <1>1, <1>2, <1>3, <1>4, Bounds
<1>8. Layered(a - 1, a)'
  BY <1>3, <1>4, <1>6, <1>7, PutLayer
<1>9. PICK c : c = a - 1
  OBVIOUS
<1>10. hop' = c /\ Layered(c, a)' /\ noOfHops' = a
  BY <1>1, <1>7, <1>8, <1>9
<1>11. Layered(hop, noOfHops)'
  BY <1>10
<1>12. hop' \in 0 .. noOfHops' - 1
  BY <1>1, <1>4, Bounds
<1> QED
  BY <1>1, <1>2, <1>4, <1>11, <1>12 DEF PaddingInv, Way

LEMMA AddLayerStep ==
  ASSUME PaddingInv, AddLayer
  PROVE  PaddingInv'
<1>1. /\ phase = "home" /\ hop > 0 /\ EncryptThisMessage(hop, Body) /\ hop' = hop - 1
      /\ UNCHANGED <<noOfHops, content, target, phase>>
  BY DEF AddLayer
<1>2. target = 0 /\ hop \in 0 .. noOfHops - 1 /\ Layered(hop, noOfHops)
  BY <1>1 DEF PaddingInv, Way
<1>3. PICK b : b = noOfHops
  OBVIOUS
<1>4. b \in Int /\ b <= noOfHops /\ hop \in 0 .. b /\ Layered(hop, b)
  BY <1>2, <1>3, Bounds
<1>5. Layered(hop, b)'
  BY <1>1, <1>4, LayerPut
<1>6. Layered(hop, noOfHops)' /\ hop' \in 0 .. noOfHops' - 1
  BY <1>1, <1>2, <1>3, <1>5, Bounds
<1> QED
  BY <1>1, <1>2, <1>6 DEF PaddingInv, Way

LEMMA ComeHomeStep ==
  ASSUME PaddingInv, ComeHome
  PROVE  PaddingInv'
<1>1. /\ phase = "home" /\ hop = 0 /\ hop' = 1 /\ phase' = "unwrap"
      /\ UNCHANGED <<noOfHops, content, target, layers, text>>
  BY DEF ComeHome
<1>2. target = 0 /\ Layered(0, noOfHops)
  BY <1>1 DEF PaddingInv, Way
<1>3. hop' \in 1 .. noOfHops' /\ hop' - 1 = 0
  BY <1>1, Bounds
<1>4. Layered(hop - 1, noOfHops)'
  BY <1>1, <1>2, <1>3 DEF Layered
<1> QED
  BY <1>1, <1>2, <1>3, <1>4 DEF PaddingInv, Way

LEMMA UnwrapStep ==
  ASSUME PaddingInv, Unwrap
  PROVE  PaddingInv'
<1>1. PICK then : then = IF hop = noOfHops THEN "read" ELSE "unwrap"
  OBVIOUS
<1>2. /\ phase = "unwrap" /\ DecryptThisMessage(hop, hop + 1, then)
      /\ UNCHANGED <<noOfHops, content, target>>
  BY <1>1 DEF Unwrap
<1>3. target = 0 /\ hop \in 1 .. noOfHops /\ Layered(hop - 1, noOfHops)
  BY <1>2 DEF PaddingInv, Way
<1>4. PICK a, b : a = hop - 1 /\ b = noOfHops
  OBVIOUS
<1>5. /\ a \in Nat /\ b \in Int /\ a < b /\ a + 1 = hop /\ content \in Seq(Byte)
      /\ Layered(a, b) /\ hop + 1 \in 1 .. noOfHops + 1 /\ 0 \in 0 .. noOfHops
      /\ hop + 1 \in 0 .. noOfHops + 1
  BY <1>3, <1>4, Bounds
<1>6. DecryptThisMessage(a + 1, hop + 1, then)
  BY <1>2, <1>5
<1>7. Layered(a + 1, b)' /\ hop' = hop + 1 /\ phase' = then
  BY <1>2, <1>5, <1>6, RemoveLayer
<1>8. CASE hop = noOfHops
  <2>1. Layered(b, b)'
    BY <1>4, <1>5, <1>7, <1>8
  <2>2. layers' = << >> /\ text' = content'
    BY <1>5, <2>1, NoLayerLeft
  <2> QED
    BY <1>1, <1>2, <1>3, <1>5, <1>7, <1>8, <2>2 DEF PaddingInv, Way
<1>9. CASE hop # noOfHops
  <2>1. hop' \in 1 .. noOfHops' /\ hop' - 1 = a + 1
    BY <1>2, <1>3, <1>5, <1>7, <1>9, Bounds
  <2>2. Layered(hop - 1, noOfHops)'
    BY <1>2, <1>4, <1>7, <2>1
  <2> QED
    BY <1>1, <1>2, <1>3, <1>7, <1>9, <2>1, <2>2 DEF PaddingInv, Way
<1> QED
  BY <1>8, <1>9

LEMMA StutterInv ==
  ASSUME PaddingInv, UNCHANGED vars
  PROVE  PaddingInv'
<1>1. \A a, b : Layered(a, b)' = Layered(a, b)
  BY DEF vars, Layered
<1> QED
  BY <1>1 DEF vars, PaddingInv, Way

\* Which layers are on a body, and which keys and lengths they have.
THEOREM PaddingInvariant == Spec => []PaddingInv
<1>1. PaddingInv /\ [Next]_vars => PaddingInv'
  BY WrapStep, SendOutStep, PeelStep, TakeKeyStep, OpenLastStep, ReplyStep, AddLayerStep,
     ComeHomeStep, UnwrapStep, StutterInv DEF Next
<1> QED
  BY <1>1, InitInv, PTL DEF Spec

-----------------------------------------------------------------------------
(* Theorems.                                                               *)

LEMMA InvTypes ==
  ASSUME PaddingInv
  PROVE  TypeOK
<1>1. content \in Seq(Byte) /\ noOfHops \in 1 .. MaxHops /\ noOfHops \in Int
  BY Bounds
<1>2. \A S : << >> \in Seq(S)
  BY EmptySeq
<1>3. /\ layers \in Seq([key : 1 .. MaxHops, padded : Seq(Byte)])
      /\ text \in Seq(Byte)
  <2>1. ASSUME NEW a, NEW b, Layered(a, b)
        PROVE  /\ layers \in Seq([key : 1 .. MaxHops, padded : Seq(Byte)])
               /\ text \in Seq(Byte)
    BY <1>1, <1>2, <2>1 DEF Layered
  <2>2. CASE phase = "read"
    BY <1>1, <1>2, <2>2 DEF PaddingInv, Way
  <2>3. CASE phase # "read"
    <3>1. \E a, b : Layered(a, b)
      BY <2>3 DEF PaddingInv, Way
    <3> QED
      BY <2>1, <3>1
  <2> QED
    BY <2>2, <2>3
<1>4. target \in 0 .. noOfHops /\ hop \in 0 .. noOfHops + 1
  BY <1>1, Bounds DEF PaddingInv, Way
<1> QED
  BY <1>1, <1>3, <1>4 DEF PaddingInv, Way, TypeOK

\* Type correctness: contents, texts and padded bodies are sequences of bytes and keys are
\* those of hops, for any number of hops.
THEOREM PaddingTypes == Spec => []TypeOK
BY InvTypes, PaddingInvariant, PTL

\* Every content is read as it was sent, and no assertion on a padding fails, however
\* many hops there are and whatever the bytes.
THEOREM ContentsArrive == Spec => []ContentArrives
<1>1. PaddingInv => ContentArrives
  BY DEF PaddingInv, Way, ContentArrives
<1> QED
  BY <1>1, PaddingInvariant, PTL

LEMMA InvFits ==
  ASSUME PaddingInv, MaxHops <= 24
  PROVE  FitsTheMessage
<1>1. /\ content \in Seq(Byte) /\ Size(Len(content), 1) <= 96
      /\ Len(content) \in Nat /\ Len(content) <= 84
  <2>1. /\ content \in Seq(Byte) /\ Len(content) \in 1 .. 84
        /\ Size(Len(content), 1) <= 96
    BY ContentIs DEF PaddingInv
  <2>2. \A n \in 1 .. 84 : n \in Nat /\ n <= 84
    OBVIOUS
  <2> QED
    BY <2>1, <2>2
<1>2. ASSUME NEW a \in Int, NEW b \in Int, 0 <= a, a <= b, b <= 24, Layered(a, b)
      PROVE  FitsTheMessage
  <2>1. Body = IF a = b THEN content ELSE Cipher(Size(Len(content), b - a))
    BY <1>1, <1>2, BodyIs
  <2>2. CASE a = b
    BY <1>1, <2>1, <2>2 DEF FitsTheMessage, HeaderLength, maxMessageLength
  <2>3. CASE a # b
    <3>1. PICK d \in Nat \ {0} : d = b - a
      BY <1>2, <2>3
    <3>2. PICK n : n = Size(Len(content), d)
      OBVIOUS
    <3>3. n \in Nat
      BY <1>1, <3>1, <3>2, SizeIs
    <3>4. n <= 96 + 16 * 23
      <4>1. d <= 24
        BY <1>2, <3>1
      <4>2. PICK r \in 0 .. 15 : r = Len(content) % 16
        BY <1>1
      <4>3. n = 16 * d + Len(content) - r /\ 16 * 1 + Len(content) - r <= 96
        BY <1>1, <3>2, <4>2 DEF Size
      <4> QED
        BY <1>1, <4>1, <4>2, <4>3
    <3>5. Len(Body) = n
      BY <2>1, <2>3, <3>1, <3>2, <3>3, CipherIs
    <3> QED
      BY <3>3, <3>4, <3>5 DEF FitsTheMessage, HeaderLength, maxMessageLength
  <2> QED
    BY <2>2, <2>3
<1>3. noOfHops \in Int /\ noOfHops <= 24 /\ MaxHops \in Nat
  BY Bounds
<1>4. CASE phase = "wrap" \/ phase = "out"
  <2>1. PICK b : b = LastLayer(Len(content), target)
    OBVIOUS
  <2>2. target \in 1 .. noOfHops
    BY <1>4 DEF PaddingInv, Way
  <2>3. b \in Int /\ b <= 24
    BY <1>3, <2>1, <2>2, Bounds
  <2>4. CASE phase = "wrap"
    BY <1>2, <2>1, <2>3, <2>4 DEF PaddingInv, Way
  <2>5. CASE phase = "out"
    <3>1. PICK a : a = hop - 1
      OBVIOUS
    <3>2. hop \in 1 .. target /\ Layered(a, b)
      BY <2>1, <2>5, <3>1 DEF PaddingInv, Way
    <3>3. a \in Int /\ 0 <= a /\ a <= b
      BY <2>1, <2>2, <3>1, <3>2, Bounds
    <3> QED
      BY <1>2, <2>3, <3>2, <3>3
  <2> QED
    BY <1>4, <2>4, <2>5
<1>5. CASE phase = "home" \/ phase = "unwrap"
  <2>1. CASE phase = "home"
    BY <1>2, <1>3, <2>1 DEF PaddingInv, Way
  <2>2. CASE phase = "unwrap"
    <3>1. PICK a : a = hop - 1
      OBVIOUS
    <3>2. hop \in 1 .. noOfHops /\ Layered(a, noOfHops)
      BY <2>2, <3>1 DEF PaddingInv, Way
    <3>3. a \in Int /\ 0 <= a /\ a <= noOfHops
      BY <1>3, <3>1, <3>2
    <3> QED
      BY <1>2, <1>3, <3>2, <3>3
  <2> QED
    BY <1>5, <2>1, <2>2
<1>6. CASE phase = "read"
  <2>1. Body = content
    BY <1>6 DEF PaddingInv, Way, Body
  <2> QED
    BY <1>1, <2>1 DEF FitsTheMessage, HeaderLength, maxMessageLength
<1> QED
  BY <1>4, <1>5, <1>6 DEF PaddingInv, Way

\* With its header every body that is sent fits the arrays of 500 bytes, which no code
\* checks, for up to 24 hops; the program allows six (proxy.cc:183).
THEOREM BodiesFit == MaxHops <= 24 => (Spec => []FitsTheMessage)
<1> SUFFICES ASSUME MaxHops <= 24
             PROVE  Spec => []FitsTheMessage
  OBVIOUS
<1>1. PaddingInv => FitsTheMessage
  BY InvFits
<1> QED
  BY <1>1, PaddingInvariant, PTL
=============================================================================
