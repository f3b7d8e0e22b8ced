--------------------------- MODULE MCOnionCircuit ---------------------------
(***************************************************************************)
(* OnionCircuit with few routers: a circuit of three hops, so that a key   *)
(* travels under two layers, and a fourth router off the circuit.          *)
(***************************************************************************)
EXTENDS OnionCircuit

MCOneHost  == {100}
MCTwoHosts == {100, 101}
=============================================================================
