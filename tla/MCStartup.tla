----------------------------- MODULE MCStartup -----------------------------
(***************************************************************************)
(* Startup on a small host: up to three routers where two are the most the *)
(* proxy accepts, so that a configuration can be too large; three ports,   *)
(* so that a port is reused only after its owner has gone; one failure.    *)
(***************************************************************************)
EXTENDS Startup

MCMaxRouters  == 3
MCMaxRouterID == 2
MCMaxSenders  == 4
MCStages      == {1, 4, 5}
MCPort        == 40001 .. 40003
MCMaxFaults   == 1
=============================================================================
