----------------------------- MODULE MCChecksum -----------------------------
(***************************************************************************)
(* Checksum with words whose sums carry once, twice and not at all.        *)
(***************************************************************************)
EXTENDS Checksum

MCWords == {0, 1, 255, 32768, 65534, 65535}
=============================================================================
