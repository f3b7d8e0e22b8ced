--------------------------- MODULE ChecksumProofs ---------------------------
(***************************************************************************)
(* Proofs about Checksum, for all words: two folds take in every carry,    *)
(* and what a handler computes again verifies, from whatever the header    *)
(* was before.  A folded sum is the sum modulo 65535, where of the two     *)
(* words that are 0 modulo 65535 the word 0 stands for the sum 0 only.     *)
(***************************************************************************)
EXTENDS Checksum, TLAPS

-----------------------------------------------------------------------------
(* Words and what they stand for.  Intervals are written as inequalities,  *)
(* which the provers handle better.                                        *)

Is16(n) == n \in Int /\ 0 <= n /\ n <= 65535

LEMMA InWord == \A n : n \in Word <=> Is16(n)
<1> DEFINE b == 65535
<1>1. b \in Int /\ Word = 0 .. b
  BY DEF Word, WordBase
<1> HIDE DEF b
<1>2. \A n : n \in Word <=> n \in Int /\ 0 <= n /\ n <= b
  BY <1>1
<1> QED
  BY <1>2 DEF b, Is16

\* Word f stands for sum.
StandsFor(f, sum) ==
  /\ Is16(f)
  /\ \E k \in Int : sum = f + k * 65535
  /\ f = 0 => sum = 0
  /\ sum = 0 => f = 0

LEMMA OneStandsFor ==
  ASSUME NEW f, NEW g, NEW sum \in Nat, StandsFor(f, sum), StandsFor(g, sum)
  PROVE  f = g
<1>1. /\ f \in Int /\ 0 <= f /\ f <= 65535 /\ g \in Int /\ 0 <= g /\ g <= 65535
      /\ (f = 0 => g = 0) /\ (g = 0 => f = 0)
  BY DEF StandsFor, Is16
<1>2. PICK k \in Int : sum = f + k * 65535
  BY DEF StandsFor
<1>3. PICK n \in Int : sum = g + n * 65535
  BY DEF StandsFor
<1>4. PICK j \in Int : j = n - k
  OBVIOUS
<1>5. f = g + j * 65535
  BY <1>1, <1>2, <1>3, <1>4
<1>6. j = 0 \/ j = 1 \/ j = -1
  BY <1>1, <1>5
<1> QED
  BY <1>1, <1>5, <1>6

\* The fold that is not cast.
LEMMA Folded ==
  ASSUME NEW sum \in Nat
  PROVE  /\ Fold(sum) \in Nat /\ sum \div 65536 \in Nat
         /\ Fold(sum) = sum - (sum \div 65536) * 65535
         /\ Fold(sum) = 0 => sum = 0
         /\ sum <= 65536 * 65535 => Fold(sum) <= 131070
<1>1. PICK q \in Int : q = sum \div 65536
  OBVIOUS
<1>2. PICK m \in Int : m = sum % 65536
  OBVIOUS
<1>3. sum = q * 65536 + m /\ 0 <= m /\ m <= 65535 /\ q >= 0
  BY <1>1, <1>2
<1>4. Fold(sum) = q + m
  BY <1>1, <1>2 DEF Fold, WordBase
<1>5. sum <= 65536 * 65535 => q <= 65535
  BY SMT, <1>3
<1>6. Fold(sum) \in Nat /\ Fold(sum) = sum - q * 65535
  BY <1>3, <1>4
<1>7. Fold(sum) = 0 => sum = 0
  BY <1>3, <1>4
<1>8. sum <= 65536 * 65535 => Fold(sum) <= 131070
  BY SMT, <1>3, <1>4, <1>5
<1> QED
  BY <1>1, <1>3, <1>6, <1>7, <1>8

\* For every sum of up to 65536 words, more than any packet has, two folds are enough:
\* what the cast drops is the carry that the second fold has added below.
THEOREM FoldTwiceStandsFor ==
  ASSUME NEW sum \in Nat, sum <= 65536 * 65535
  PROVE  StandsFor(FoldTwice(sum), sum)
<1>1. PICK x, q, p : x = Fold(sum) /\ q = sum \div 65536 /\ p = x \div 65536
  OBVIOUS
<1>2. x \in Nat /\ q \in Nat /\ x = sum - q * 65535 /\ (x = 0 => sum = 0) /\ x <= 131070
  BY SMT, <1>1, Folded
<1>3. /\ p \in Int /\ (p = 0 \/ p = 1)
      /\ p = 0 => x <= 65535
      /\ p = 1 => x >= 65536
  <2>1. PICK m \in Int : m = x % 65536
    BY <1>2
  <2>2. x = p * 65536 + m /\ 0 <= m /\ m <= 65535 /\ p \in Int
    BY <1>1, <1>2, <2>1
  <2>3. p = 0 \/ p = 1
    BY <1>2, <2>2
  <2>4. p = 0 => x <= 65535
    BY <2>1, <2>2
  <2>5. p = 1 => x >= 65536
    BY <2>1, <2>2
  <2> QED
    BY <2>2, <2>3, <2>4, <2>5
<1>4. FoldTwice(sum) = (x + p) % 65536
  BY <1>1 DEF FoldTwice, WordBase
<1>5. PICK f : f = FoldTwice(sum)
  OBVIOUS
<1>6. f = x - p * 65535 /\ f \in Int /\ 0 <= f /\ f <= 65535
  <2>1. CASE p = 0
    BY <1>2, <1>3, <1>4, <1>5, <2>1
  <2>2. CASE p = 1
    BY <1>2, <1>3, <1>4, <1>5, <2>2
  <2> QED
    BY <1>3, <2>1, <2>2
<1>7. PICK k \in Int : k = q + p
  BY <1>2, <1>3
<1>8. sum = f + k * 65535
  BY <1>2, <1>3, <1>6, <1>7
<1>9. f = 0 => sum = 0
  BY <1>2, <1>3, <1>6
<1>10. sum = 0 => f = 0
  BY <1>2, <1>3, <1>6
<1> QED
  BY <1>5, <1>6, <1>7, <1>8, <1>9, <1>10 DEF StandsFor, Is16

-----------------------------------------------------------------------------
(* Headers.                                                                *)

LEMMA OnesPlusStandsFor ==
  ASSUME NEW sum \in Nat, NEW f, NEW n, StandsFor(f, sum), Is16(n)
  PROVE  StandsFor(OnesPlus(f, n), sum + n)
<1>1. /\ f \in Int /\ 0 <= f /\ f <= 65535 /\ (f = 0 => sum = 0) /\ (sum = 0 => f = 0)
      /\ n \in Int /\ 0 <= n /\ n <= 65535
  BY DEF StandsFor, Is16
<1>2. PICK k \in Int : sum = f + k * 65535
  BY DEF StandsFor
<1>3. PICK g : g = OnesPlus(f, n)
  OBVIOUS
<1>4. CASE f + n <= 65535
  <2>1. g = f + n
    BY <1>1, <1>3, <1>4 DEF OnesPlus, WordBase
  <2>2. sum + n = g + k * 65535
    BY <1>1, <1>2, <2>1
  <2>3. g \in Int /\ 0 <= g /\ g <= 65535 /\ (g = 0 => sum + n = 0) /\ (sum + n = 0 => g = 0)
    BY <1>1, <1>4, <2>1
  <2> QED
    BY <1>3, <2>2, <2>3 DEF StandsFor, Is16
<1>5. CASE f + n >= 65536
  <2>1. g = f + n - 65535
    BY <1>1, <1>3, <1>5 DEF OnesPlus, WordBase
  <2>2. PICK j \in Int : j = k + 1
    OBVIOUS
  <2>3. sum + n = g + j * 65535
    BY <1>1, <1>2, <2>1, <2>2
  <2>4. g \in Int /\ 0 <= g /\ g <= 65535 /\ (g = 0 => sum + n = 0) /\ (sum + n = 0 => g = 0)
    BY <1>1, <1>5, <2>1
  <2> QED
    BY <1>3, <2>3, <2>4 DEF StandsFor, Is16
<1> QED
  BY <1>1, <1>4, <1>5

LEMMA WordStandsForItself == \A n : Is16(n) => n \in Nat /\ StandsFor(n, n)
<1> SUFFICES ASSUME NEW n, Is16(n)
             PROVE  n \in Nat /\ StandsFor(n, n)
  OBVIOUS
<1>1. n \in Int /\ 0 <= n /\ n = n + 0 * 65535
  BY DEF Is16
<1> QED
  BY <1>1 DEF StandsFor

LEMMA HeaderWords ==
  ASSUME NEW h \in Header
  PROVE  /\ Is16(h.other) /\ Is16(h.check) /\ Is16(h.saddr) /\ Is16(h.daddr)
         /\ Sum(h) \in Nat /\ Sum(h) <= 65536 * 65535
<1>1. Is16(h.other) /\ Is16(h.check) /\ Is16(h.saddr) /\ Is16(h.daddr)
  BY InWord DEF Header
<1>2. Sum(h) \in Nat /\ Sum(h) <= 262140
  BY <1>1 DEF Sum, Is16
<1>3. 262140 <= 65536 * 65535
  BY SMT
<1> QED
  BY SMT, <1>1, <1>2, <1>3

\* The sum of a header, folded twice, is its one's complement sum.
LEMMA FoldedSum ==
  ASSUME NEW h \in Header
  PROVE  FoldTwice(Sum(h)) = OnesSum(h)
<1>1. PICK a, b, c, d : a = h.other /\ b = h.check /\ c = h.saddr /\ d = h.daddr
  OBVIOUS
<1>2. /\ Is16(a) /\ Is16(b) /\ Is16(c) /\ Is16(d)
      /\ a \in Nat /\ b \in Nat /\ c \in Nat /\ d \in Nat
  BY <1>1, HeaderWords, WordStandsForItself
<1>3. StandsFor(OnesPlus(a, b), a + b) /\ a + b \in Nat
  BY <1>2, OnesPlusStandsFor, WordStandsForItself
<1>4. StandsFor(OnesPlus(OnesPlus(a, b), c), a + b + c) /\ a + b + c \in Nat
  BY <1>2, <1>3, OnesPlusStandsFor
<1>5. StandsFor(OnesPlus(OnesPlus(OnesPlus(a, b), c), d), a + b + c + d)
  BY <1>2, <1>4, OnesPlusStandsFor
<1>6. StandsFor(OnesSum(h), Sum(h))
  BY <1>1, <1>5 DEF OnesSum, Sum
<1> QED
  BY <1>6, HeaderWords, FoldTwiceStandsFor, OneStandsFor

\* A check that is computed verifies, whatever the header.
LEMMA CheckedVerifies ==
  ASSUME NEW h \in Header
  PROVE  Checked(h) \in Header /\ Verifies(Checked(h))
<1>1. PICK z : z = [h EXCEPT !.check = 0]
  OBVIOUS
<1>2. z \in Header /\ Checked(h) = [z EXCEPT !.check = csum(z)]
  <2>1. 0 \in Word
    BY InWord DEF Is16
  <2> QED
    BY <1>1, <2>1 DEF Header, Checked
<1>3. PICK s, f, c : s = Sum(z) /\ f = FoldTwice(s) /\ c = csum(z)
  OBVIOUS
<1>4. s \in Nat /\ StandsFor(f, s)
  BY <1>2, <1>3, HeaderWords, FoldTwiceStandsFor
<1>5. f \in Int /\ 0 <= f /\ f <= 65535 /\ (f = 0 => s = 0) /\ (s = 0 => f = 0)
  BY <1>4 DEF StandsFor, Is16
<1>6. PICK k \in Int : s = f + k * 65535
  BY <1>4 DEF StandsFor
<1>7. c = 65535 - f
  BY <1>3, <1>5 DEF csum, WordBase
<1>8. PICK y : y = Checked(h)
  OBVIOUS
<1>9. c \in Word
  BY <1>5, <1>7, InWord DEF Is16
<1>10. /\ y \in Header /\ y.other = z.other /\ y.saddr = z.saddr /\ y.daddr = z.daddr
       /\ y.check = c
  BY <1>2, <1>3, <1>8, <1>9 DEF Header
<1>11. z.check = 0
  BY <1>1 DEF Header
<1>12. Sum(y) = s + c
  <2>1. /\ z.other \in Int /\ z.saddr \in Int /\ z.daddr \in Int /\ c \in Int
    BY <1>2, <1>5, <1>7, HeaderWords DEF Is16
  <2> QED
    BY <1>3, <1>10, <1>11, <2>1 DEF Sum
<1>13. PICK t : t = Sum(y)
  OBVIOUS
<1>14. t \in Nat /\ StandsFor(FoldTwice(t), t)
  BY <1>10, <1>13, HeaderWords, FoldTwiceStandsFor
<1>15. StandsFor(65535, t)
  <2>1. t = 65535 + k * 65535
    BY <1>5, <1>6, <1>7, <1>12, <1>13
  <2>2. t # 0
    BY <1>4, <1>5, <1>7, <1>12, <1>13
  <2> QED
    BY <2>1, <2>2 DEF StandsFor, Is16
<1>16. FoldTwice(t) = 65535
  BY <1>14, <1>15, OneStandsFor
<1>17. csum(y) = 0
  BY <1>13, <1>16 DEF csum, WordBase
<1> QED
  BY <1>8, <1>10, <1>17 DEF Verifies

-----------------------------------------------------------------------------
(* Theorems.                                                               *)

LEMMA WordsAre ==
  ASSUME NEW w \in Words
  PROVE  w \in Word
BY ChecksumAssumption DEF ChecksumAssumption

LEMMA InitTypes == Init => TypeOK
<1> SUFFICES ASSUME Init
             PROVE  TypeOK
  OBVIOUS
<1>1. PICK w \in Words, s \in Words, d \in Words :
        header = Checked([other |-> w, check |-> 0, saddr |-> s, daddr |-> d])
  BY DEF Init
<1>2. [other |-> w, check |-> 0, saddr |-> s, daddr |-> d] \in Header
  <2>1. 0 \in Word
    BY InWord DEF Is16
  <2> QED
    BY <2>1, WordsAre DEF Header
<1>3. edits \in 0 .. MaxEdits
  BY ChecksumAssumption DEF Init, ChecksumAssumption
<1> QED
  BY <1>1, <1>2, <1>3, CheckedVerifies DEF TypeOK

LEMMA EditTypes ==
  ASSUME TypeOK, NEW h \in Header, Edit(h)
  PROVE  TypeOK'
BY ChecksumAssumption DEF ChecksumAssumption, TypeOK, Edit

LEMMA StepTypes ==
  ASSUME TypeOK, [Next]_vars
  PROVE  /\ TypeOK'
         /\ ProcessIPPacket \/ ChangeDestAddress => Verifies(header')
<1>1. header \in Header /\ Nowhere \in Word
  BY ChecksumAssumption DEF TypeOK, ChecksumAssumption
<1>2. ASSUME ProcessIPPacket
      PROVE  TypeOK' /\ Verifies(header')
  <2>1. [header EXCEPT !.saddr = header.daddr, !.daddr = header.saddr] \in Header
    BY <1>1 DEF Header
  <2> QED
    BY <1>2, <2>1, CheckedVerifies, EditTypes DEF ProcessIPPacket, Edit
<1>3. ASSUME ChangeDestAddress
      PROVE  TypeOK' /\ Verifies(header')
  <2>1. PICK a \in Words : Edit(Checked([header EXCEPT !.daddr = a]))
    BY <1>3 DEF ChangeDestAddress
  <2>2. [header EXCEPT !.daddr = a] \in Header
    BY <1>1, WordsAre DEF Header
  <2> QED
    BY <2>1, <2>2, CheckedVerifies, EditTypes DEF Edit
<1>4. CASE BlankSource \/ BlankDestination
  <2>1. /\ [header EXCEPT !.saddr = Nowhere] \in Header
        /\ [header EXCEPT !.daddr = Nowhere] \in Header
    BY <1>1 DEF Header
  <2> QED
    BY <1>2, <1>3, <1>4, <2>1, EditTypes DEF BlankSource, BlankDestination
<1>5. CASE UNCHANGED vars
  BY <1>2, <1>3, <1>5 DEF vars, TypeOK
<1> QED
  BY <1>2, <1>3, <1>4, <1>5 DEF Next

\* Headers consist of words of 16 bits, however they are rewritten.
THEOREM ChecksumTypes == Spec => []TypeOK
<1>1. TypeOK /\ [Next]_vars => TypeOK'
  BY StepTypes
<1> QED
  BY <1>1, InitTypes, PTL DEF Spec

\* csum is the complement of the one's complement sum, for every header, with its
\* check or without.
THEOREM CarriesAreTakenIn == Spec => []TwoFoldsAreEnough
<1>1. TypeOK => TwoFoldsAreEnough
  <2> SUFFICES ASSUME TypeOK
               PROVE  TwoFoldsAreEnough
    OBVIOUS
  <2>1. header \in Header /\ [header EXCEPT !.check = 0] \in Header
    <3>1. 0 \in Word
      BY InWord DEF Is16
    <3> QED
      BY <3>1 DEF TypeOK, Header
  <2>2. \A h \in Header : csum(h) = WordBase - 1 - OnesSum(h)
    BY FoldedSum DEF csum
  <2> QED
    BY <2>1, <2>2 DEF TwoFoldsAreEnough
<1> QED
  BY <1>1, ChecksumTypes, PTL

\* What a handler computes again verifies, although others leave the check as it was
\* when they blank an address.
THEOREM RewritingVerifies == Spec => RecomputedVerifies
<1>1. TypeOK /\ [Next]_vars => [ProcessIPPacket \/ ChangeDestAddress => Verifies(header')]_vars
  BY StepTypes
<1> QED
  BY <1>1, ChecksumTypes, PTL DEF Spec, RecomputedVerifies
=============================================================================
