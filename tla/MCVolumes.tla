----------------------------- MODULE MCVolumes -----------------------------
(* Small instances of Volumes. *)
EXTENDS Volumes, TLC

Symmetric ==
  Permutations(Drives) \cup Permutations(Handles) \cup Permutations(Vols) \cup Permutations(Objs)

=============================================================================
