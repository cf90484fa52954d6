-------------------------- MODULE MCEgressRouting --------------------------
(* Instances of EgressRouting for TLC. *)
EXTENDS EgressRouting

CONSTANTS p, q, a

MCClients == {p, q}
MCLanes == {a}
=============================================================================
