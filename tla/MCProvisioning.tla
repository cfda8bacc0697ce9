--------------------------- MODULE MCProvisioning ---------------------------
(* TLC instances of Provisioning. *)
EXTENDS Provisioning, TLC

Symmetry == Permutations(Workers) \cup Permutations(Containers)
                \cup Permutations(Folders)
=============================================================================
