--------------------------- MODULE MCDemoBridgeGates ---------------------------
(***************************************************************************)
(* Small instances of the bridge with the gates of its opening orders.     *)
(***************************************************************************)
EXTENDS DemoBridgeGates, TLC

Symmetry == Permutations(Threads) \cup Permutations(Ids)
=============================================================================
