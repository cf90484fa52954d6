-------------------------- MODULE FleetGenerations --------------------------
(***************************************************************************)
(* What docs/adr/002-declarative-generations.md promises of one link, with *)
(* no pusher, queue or network: the central issues immutable generations   *)
(* under ever higher numbers, the node moves only to a higher one that was *)
(* really issued, and the central counts the link as clean only for a      *)
(* generation the node has converged on.                                   *)
(***************************************************************************)
EXTENDS Naturals

CONSTANTS Docs, NoDoc  \* generation documents, with a field gen; NoDoc has number 0

VARIABLES
  published,  \* the generation the central wants
  issued,     \* every generation it ever wanted
  held,       \* the generation the node has
  converged,  \* the generations the node has brought about
  clean       \* the central believes the node runs published

vars == <<published, issued, held, converged, clean>>

Init ==
  /\ published = NoDoc /\ held = NoDoc
  /\ issued = {} /\ converged = {}
  /\ clean = TRUE

\* Any change, a revert included, is a new and strictly higher generation.
Publish ==
  /\ published' \in Docs
  /\ published'.gen > published.gen
  /\ issued' = issued \cup {published'}
  /\ clean' = FALSE
  /\ UNCHANGED <<held, converged>>

\* Deliveries may be lost or repeated: the node takes only what is newer than what it has.
Take ==
  \E d \in issued :
    /\ d.gen > held.gen
    /\ held' = d
    /\ UNCHANGED <<published, issued, converged, clean>>

Converge ==
  /\ held # NoDoc
  /\ converged' = converged \cup {held}
  /\ UNCHANGED <<published, issued, held, clean>>

Confirm ==
  /\ published \in converged
  /\ clean' = TRUE
  /\ UNCHANGED <<published, issued, held, converged>>

\* The node leaves the fleet; what it runs becomes its own.
Release ==
  /\ held' = NoDoc
  /\ UNCHANGED <<published, issued, converged, clean>>

Next == Publish \/ Take \/ Converge \/ Confirm \/ Release
Spec == Init /\ [][Next]_vars
=============================================================================
