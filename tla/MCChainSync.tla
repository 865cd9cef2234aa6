---------------------------- MODULE MCChainSync ----------------------------
(* A block tree for ChainSync.  Chain a is the first; b leaves it after two   *)
(* blocks and is the heaviest; c leaves it after three, and its second block  *)
(* is too old to validate; d leaves it after one, and its first block is too  *)
(* old.  Blocks a1, a3, d3 and b4 hold an action; the lease that a1 buys is   *)
(* over in a2, which holds none.                                              *)
EXTENDS ChainSync

CONSTANTS a1, a2, a3, a4, b3, b4, b5, c4, c5, d2, d3

ParentOf ==
  [x \in Blocks |->
     CASE x = a1 -> Start [] x = a2 -> a1 [] x = a3 -> a2 [] x = a4 -> a3
       [] x = b3 -> a2 [] x = b4 -> b3 [] x = b5 -> b4
       [] x = c4 -> a3 [] x = c5 -> c4
       [] x = d2 -> a1 [] x = d3 -> d2]

TimeOf ==
  [x \in Blocks \cup {Start} |->
     CASE x = Start -> 0
       [] x = a1 -> 1 [] x = a2 -> 2 [] x = d2 -> 0 [] x \in {a3, b3, d3} -> 3
       [] x \in {a4, b4, c4} -> 4 [] x = b5 -> 5 [] x = c5 -> 1]
=============================================================================
