------------------------------ MODULE MCConfig ------------------------------
(***************************************************************************)
(* Config with files of up to five lines: the settings in the documented   *)
(* order, possibly cut off, with comments of either length in between.     *)
(***************************************************************************)
EXTENDS Config, SequencesExt

MCNumbers == {2, 5}
MCFiles   == {f \in SeqOf(Line, 5) : InOrder(f)}
=============================================================================
