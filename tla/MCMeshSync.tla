----------------------------- MODULE MCMeshSync -----------------------------
(* A block tree for MeshSync: chain a, and a heavier chain b that leaves it   *)
(* after two blocks; x extends a2 without the work it needs.                  *)
EXTENDS MeshSync

CONSTANTS a1, a2, a3, b3, b4, x3

ParentOf ==
  [y \in Blocks |->
     CASE y = a1 -> Start [] y = a2 -> a1 [] y = a3 -> a2
       [] y = b3 -> a2 [] y = b4 -> b3 [] y = x3 -> a2]
=============================================================================
