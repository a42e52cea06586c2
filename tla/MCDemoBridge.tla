----------------------------- MODULE MCDemoBridge -----------------------------
(***************************************************************************)
(* Small instances of the bridge's write path.                             *)
(***************************************************************************)
EXTENDS DemoBridgeProperties, TLC

\* Threads and ids are interchangeable: no action distinguishes them.
Symmetry == Permutations(Threads) \cup Permutations(Ids)
=============================================================================
