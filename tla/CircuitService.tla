--------------------------- MODULE CircuitService ---------------------------
(***************************************************************************)
(* What a miniTOR circuit promises to the host it serves, whatever the     *)
(* stage: a path of noOfHops different routers comes into being one router *)
(* at a time; once it is complete, users may ping hosts through it; a ping *)
(* is answered at most once, by the host that was pinged.                  *)
(***************************************************************************)
EXTENDS Naturals, Sequences

CONSTANTS Router, noOfHops, Host, MaxPings

VARIABLES path,      \* the routers of the path so far
          asked,     \* ping n asked host asked[n]
          answered   \* the answers the users got, in order

vars == <<path, asked, answered>>

Answer(n, h) == [ping |-> n, by |-> h]
Answers      == [ping : 1 .. MaxPings, by : Host]

TypeOK ==
  /\ path \in Seq(Router) /\ Len(path) <= noOfHops
  /\ asked \in Seq(Host) /\ Len(asked) <= MaxPings
  /\ answered \in Seq(Answers)

Init == path = << >> /\ asked = << >> /\ answered = << >>

Complete == Len(path) = noOfHops

Extend ==
  /\ ~ Complete
  /\ \E r \in Router :
       /\ \A j \in DOMAIN path : path[j] # r
       /\ path' = Append(path, r)
  /\ UNCHANGED <<asked, answered>>

Ask(h) ==
  /\ Complete /\ Len(asked) < MaxPings
  /\ asked' = Append(asked, h)
  /\ UNCHANGED <<path, answered>>

IsAnswered(n) == \E k \in DOMAIN answered : answered[k].ping = n

AnswerPing(n) ==
  /\ n \in DOMAIN asked /\ ~ IsAnswered(n)
  /\ answered' = Append(answered, Answer(n, asked[n]))
  /\ UNCHANGED <<path, asked>>

Next == Extend \/ (\E h \in Host : Ask(h)) \/ (\E n \in 1 .. MaxPings : AnswerPing(n))

Fairness == WF_vars(Extend) /\ \A n \in 1 .. MaxPings : WF_vars(AnswerPing(n))

\* The promise without failures, and what is left of it when components fail.
SafeSpec == Init /\ [][Next]_vars
Spec     == SafeSpec /\ Fairness
=============================================================================
