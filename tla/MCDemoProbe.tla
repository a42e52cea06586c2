------------------------------ MODULE MCDemoProbe ------------------------------
(***************************************************************************)
(* Small instances of the demo execution probe.                            *)
(***************************************************************************)
EXTENDS DemoProbe, TLC

\* Processes are interchangeable.
Symmetry == Permutations(Probes)
=============================================================================
