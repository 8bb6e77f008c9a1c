------------------------------ MODULE MCPeers -------------------------------
(***************************************************************************)
(* An instance of Peers for TLC: a seed and a peer, two connections, lists *)
(* that overflow, with and without an exclusive node.                      *)
(***************************************************************************)
EXTENDS Peers, TLC

CONSTANTS seed, p

MCExclusives == {{}, {p}}
MCNoExclusives == {{}}
SlotSymmetry == Permutations(Slots)
=============================================================================
