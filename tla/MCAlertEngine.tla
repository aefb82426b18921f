--------------------------- MODULE MCAlertEngine ---------------------------
(* Instances of AlertEngine for TLC. *)
EXTENDS AlertEngine, TLC

CONSTANTS loop, box, u1, u2

\* The restart_loop alert of a container, raised from warning to critical.
EntityOfMC == loop :> box
SeveritiesMC == loop :> {1, 2}

\* The acknowledgment requests are interchangeable.
Symmetry == Permutations(Users)
=============================================================================
