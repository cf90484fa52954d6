--------------------------- MODULE MCClientAccess ---------------------------
(* Instances of ClientAccess for TLC. *)
EXTENDS ClientAccess

CONSTANT name

MCNames == {name}
MCCallers == {"p", "q"}
=============================================================================
