----------------------------- MODULE MCPadding -----------------------------
(***************************************************************************)
(* Padding with circuits of up to six hops and contents that end in bytes  *)
(* that are, or could be taken for, a padding.                             *)
(***************************************************************************)
EXTENDS Padding

MCMaxHops  == 6
MCContents == {[k \in 1 .. len |-> b] : len \in Lengths, b \in {0, 1, 12, 16, 255}}
=============================================================================
