----------------------------- MODULE MCBrokerClock -----------------------------
(***************************************************************************)
(* Small instances of the broker clock: a half hour is 5 units.            *)
(***************************************************************************)
EXTENDS BrokerClock, TLC

\* Readers are interchangeable.
Symmetry == Permutations(Readers)

\* The server is at UTC or a half hour behind.
SomeZones == {-5, 0}

\* A tick is stamped one unit ahead of the bridge's clock.
SomeSkews == {1}
=============================================================================
