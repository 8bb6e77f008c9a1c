--------------------------- MODULE MCRingChecker ----------------------------
(***************************************************************************)
(* An instance of RingChecker for TLC: two threads, three blocks in a row, *)
(* out of good blocks, blocks with a wrong signature and a block that is   *)
(* given up after its first input was posted.                              *)
(***************************************************************************)
EXTENDS RingChecker

CONSTANTS good, good2, bad, gone

MCInputs == {good, good2, bad, gone}
MCBodies == {<<>>, <<good, bad>>, <<good, good2>>, <<bad, gone, good>>}
=============================================================================
