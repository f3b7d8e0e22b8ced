--------------------------- MODULE MCPlainCircuit ---------------------------
(***************************************************************************)
(* PlainCircuit with few routers.  A circuit of three hops has a first hop,*)
(* a middle hop and an exit, the fourth router is a bystander; three pings *)
(* overflow a receive buffer of two datagrams.                             *)
(***************************************************************************)
EXTENDS PlainCircuit

MCOneHost  == {100}
MCTwoHosts == {100, 101}
=============================================================================
