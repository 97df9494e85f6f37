-------------------------- MODULE MCAttachmentUpload --------------------------
(* Instances of AttachmentUpload for TLC. *)
EXTENDS AttachmentUpload, TLC

CONSTANTS a1, a2, p1, p2

(* Photos and runs are told apart only by their names. *)
Symmetry == Permutations(Atts) \union Permutations(Flows)

==============================================================================
