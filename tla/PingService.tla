----------------------------- MODULE PingService -----------------------------
(***************************************************************************)
(* What miniTOR promises to the users of the host whatever the stage: they *)
(* may ping hosts, and a ping is answered at most once, by the host that   *)
(* was pinged.                                                             *)
(***************************************************************************)
EXTENDS Naturals, Sequences

CONSTANTS Host, MaxPings

VARIABLES asked,     \* ping n asked host asked[n]
          answered   \* the answers the users got, in order

Init == asked = << >> /\ answered = << >>

Ask(h) ==
  /\ Len(asked) < MaxPings
  /\ asked' = Append(asked, h)
  /\ UNCHANGED answered

AnswerPing(n) ==
  /\ n \in DOMAIN asked
  /\ \A k \in DOMAIN answered : answered[k].ping # n
  /\ answered' = Append(answered, [ping |-> n, by |-> asked[n]])
  /\ UNCHANGED asked

Next == (\E h \in Host : Ask(h)) \/ (\E n \in 1 .. MaxPings : AnswerPing(n))

SafeSpec == Init /\ [][Next]_<<asked, answered>>
=============================================================================
