---------------------------- MODULE MCFeatureSync ----------------------------
(* Instances of FeatureSync for TLC. *)
EXTENDS FeatureSync

CONSTANTS c1, c2, p1, p2

==============================================================================
