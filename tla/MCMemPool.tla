------------------------------ MODULE MCMemPool ------------------------------
(***************************************************************************)
(* An instance of MemPool for TLC.  Transaction 3 spends the key images of *)
(* both 1 (cheaper) and 2 (better); 4 and 5 spend the same key image for   *)
(* the same fee; 6 is malformed; 4 needs a block on the chain.             *)
(***************************************************************************)
EXTENDS MemPool

MCTxs == 1..6
MCInputs == <<<<1>>, <<2>>, <<1, 2>>, <<3>>, <<3>>, <<1, 3>>>>
MCFee == <<1, 3, 2, 1, 1, 3>>
MCSize == <<2, 2, 3, 1, 2, 1>>
MCSemantic == 1..5
MCRedo(t, c) == t # 4 \/ Len(c) >= 1
MCBodies == {{}, {1}, {2, 4}, {3}}
=============================================================================
