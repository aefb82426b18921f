---------------------------- MODULE MCEscalation ----------------------------
(* Instances of Escalation for TLC. *)
EXTENDS Escalation

CONSTANTS p1, c1, c2

\* Two levels that share a channel.
TwoLevels == <<{c1, c2}, {c2}>>
OneLevel == <<{c1}>>
=============================================================================
