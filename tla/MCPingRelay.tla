----------------------------- MODULE MCPingRelay -----------------------------
(***************************************************************************)
(* PingRelay with few routers, a host on the Internet and one behind the   *)
(* tunnel.                                                                 *)
(***************************************************************************)
EXTENDS PingRelay

MCHost       == {100}
MCTunnelHost == {103}
=============================================================================
