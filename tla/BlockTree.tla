------------------------------ MODULE BlockTree ------------------------------
(***************************************************************************)
(* The tree of blocks that peers may serve, above the profile's checkpoint: *)
(* every block names its parent by hash.                                   *)
(***************************************************************************)
EXTENDS Integers, FiniteSets

CONSTANTS
  Blocks,       \* the blocks that peers may serve
  Start,        \* the profile's checkpoint, never folded itself: height 0
  Parent        \* hashPrevBlock of every block

\* A block holds the hash of its parent, so no chain of blocks closes.
ASSUME TreeAssumption ==
  /\ IsFiniteSet(Blocks) /\ Start \notin Blocks
  /\ Parent \in [Blocks -> Blocks \cup {Start}]
  /\ \A S \in SUBSET Blocks : S # {} => \E b \in S : Parent[b] \notin S

\* The ancestors of a block, itself included, down to the checkpoint.
Ancestors[b \in Blocks] ==
  {b} \cup (IF Parent[b] = Start THEN {} ELSE Ancestors[Parent[b]])

HeightOf(b) == IF b = Start THEN 0 ELSE Cardinality(Ancestors[b])

\* The block at height h of the chain that ends in b.
At(b, h) == CHOOSE a \in Ancestors[b] : HeightOf(a) = h

Heights == {HeightOf(b) : b \in Blocks}
=============================================================================
