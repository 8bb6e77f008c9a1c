---------------------------- MODULE MCWalletSync ----------------------------
(***************************************************************************)
(* A payment, a change of the node's chain and a transaction of another,   *)
(* and two faults: enough for a request that is sent again and lost again, *)
(* and for a node that restarts or a connection that is used again while   *)
(* the server still knows the wallet's old one.                            *)
(***************************************************************************)
EXTENDS WalletSync
=============================================================================
