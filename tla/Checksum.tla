------------------------------ MODULE Checksum ------------------------------
(***************************************************************************)
(* The Internet checksum (MyDEBUG.cc, csum) and the ways in which proxy    *)
(* and routers rewrite an IP header in place and compute it again          *)
(* (router.cc, ProcessIPPacket, ChangeDestAddressToEth0, RelayThisStuff;   *)
(* proxy.cc, tunnelPlusSock_reader).  A header is its words that no one    *)
(* changes, taken together as one, the source and destination address and  *)
(* the checksum; an address is a word here and two in the program.         *)
(*                                                                         *)
(* A definition X_suffix above a definition X is X with a fault put in, to *)
(* see that the properties below would notice it; no behaviour uses it.    *)
(***************************************************************************)
EXTENDS Integers

CONSTANTS Words,   \* the words a header is made of
          Nowhere, \* the word of address 0.0.0.0
          MaxEdits \* bound on the handlers a header passes

WordBase == 65536
Word     == 0 .. WordBase - 1

ASSUME ChecksumAssumption == Words \subseteq Word /\ Nowhere \in Word /\ MaxEdits \in Nat

-----------------------------------------------------------------------------
\* The high half added to the low half, twice; the cast drops what is above.
Fold(sum) == (sum \div WordBase) + (sum % WordBase)
FoldTwice_once(sum) == Fold(sum) % WordBase
FoldTwice(sum) == (Fold(sum) + (Fold(sum) \div WordBase)) % WordBase

Sum(h)  == h.other + h.check + h.saddr + h.daddr
csum(h) == WordBase - 1 - FoldTwice(Sum(h))

\* One's complement addition, which carries around the end (the reference).
OnesPlus(a, b) == IF a + b < WordBase THEN a + b ELSE a + b - (WordBase - 1)
OnesSum(h) == OnesPlus(OnesPlus(OnesPlus(h.other, h.check), h.saddr), h.daddr)

-----------------------------------------------------------------------------
VARIABLES header,   \* the other words, the check, and the addresses
          edits     \* handlers passed so far

vars == <<header, edits>>

Header == [other : Word, check : Word, saddr : Word, daddr : Word]

TypeOK == header \in Header /\ edits \in 0 .. MaxEdits

\* check is set to 0 and then to the sum of the header.
Checked_notZeroed(h) == [h EXCEPT !.check = csum(h)]
Checked(h) == [h EXCEPT !.check = csum([h EXCEPT !.check = 0])]

\* What a receiver does: the sum over the header, its check included, has all bits
\* set.
Verifies(h) == csum(h) = 0

\* A kernel sends a header with its checksum.
Init ==
  /\ \E w, s, d \in Words :
       header = Checked([other |-> w, check |-> 0, saddr |-> s, daddr |-> d])
  /\ edits = 0

Edit(h) == edits < MaxEdits /\ header' = h /\ edits' = edits + 1

\* The router answers a ping itself: the addresses change places.
ProcessIPPacket == Edit(Checked([header EXCEPT !.saddr = header.daddr, !.daddr = header.saddr]))

\* A reply gets another destination: eth0, or the previous hop's address.
ChangeDestAddress == \E a \in Words : Edit(Checked([header EXCEPT !.daddr = a]))

\* Stage 6 blanks an address and leaves the sum; the proxy sets the destination.
BlankSource      == Edit([header EXCEPT !.saddr = Nowhere])
BlankDestination == Edit([header EXCEPT !.daddr = Nowhere])

Next == ProcessIPPacket \/ ChangeDestAddress \/ BlankSource \/ BlankDestination

Spec == Init /\ [][Next]_vars

-----------------------------------------------------------------------------
(* Properties.                                                             *)

\* Two folds take in every carry, the one out of the first fold included: csum is
\* the complement of the one's complement sum (MyDEBUG.cc:96-98).
TwoFoldsAreEnough ==
  \A h \in {header, [header EXCEPT !.check = 0]} :
    csum(h) = WordBase - 1 - OnesSum(h)

\* Whatever a header has been through, with its sum up to date or not, once a
\* handler has set an address and computed the sum again it verifies
\* (router.cc:69-70, 145-146, 238; proxy.cc:463-465).
RecomputedVerifies == [][ProcessIPPacket \/ ChangeDestAddress => Verifies(header')]_vars
=============================================================================
