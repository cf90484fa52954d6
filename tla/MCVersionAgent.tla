--------------------------- MODULE MCVersionAgent ---------------------------
(* Three releases: the second changes the manager's tree, the third does not. *)
EXTENDS VersionAgent

MCManagerTree == <<1, 2, 2>>
=============================================================================
