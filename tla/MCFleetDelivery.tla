-------------------------- MODULE MCFleetDelivery --------------------------
(* Instances of FleetDelivery for TLC. *)
EXTENDS FleetDelivery, TLC

CONSTANTS plain, chosen

\* Two contents that differ in nothing but their name.
MCContents == {plain, chosen}
Symmetry == Permutations(MCContents)
=============================================================================
