--------------------------- MODULE BlockTreeProofs ---------------------------
(***************************************************************************)
(* Facts about a tree of blocks, for every tree: what the ancestors of a    *)
(* block and their heights are.                                            *)
(***************************************************************************)
EXTENDS BlockTree, FiniteSetTheorems, WellFoundedInduction, TLAPS

-----------------------------------------------------------------------------
(* Numbers *)

\* A set of numbers that is not empty has a least one.
LEMMA LeastNumber ==
  ASSUME NEW S \in SUBSET Nat, S # {}
  PROVE  \E n \in S : \A k \in S : n <= k
<1> DEFINE T == {1 .. n : n \in S}
<1>1. T \subseteq FiniteSubsetsOf(Nat) /\ T # {}
  <2>1. ASSUME NEW n \in S PROVE IsFiniteSet(1 .. n) /\ 1 .. n \in SUBSET Nat
    BY FS_Interval
  <2> QED
    BY <2>1 DEF FiniteSubsetsOf
<1>2. PICK t \in T : \A u \in T : ~(<<u, t>> \in StrictSubsetOrdering(Nat))
  <2> HIDE DEF T
  <2>1. IsWellFoundedOn(StrictSubsetOrdering(Nat), FiniteSubsetsOf(Nat))
    BY FS_StrictSubsetOrderingWellFounded
  <2> QED
    BY <1>1, <2>1, WFMin
<1>3. PICK n \in S : t = 1 .. n
  OBVIOUS
<1>4. ASSUME NEW k \in S, k < n PROVE FALSE
  <2>1. 1 .. k \in SUBSET Nat /\ 1 .. n \in SUBSET Nat /\ 1 .. k \subseteq 1 .. n
    BY <1>4
  <2>2. n \in 1 .. n /\ n \notin 1 .. k
    BY <1>4
  <2>3. <<1 .. k, 1 .. n>> \in StrictSubsetOrdering(Nat)
    BY <2>1, <2>2 DEF StrictSubsetOrdering
  <2> QED
    BY <1>2, <1>3, <2>3
<1> QED
  BY <1>4

\* A bounded one has a greatest.
LEMMA GreatestNumber ==
  ASSUME NEW n \in Nat, NEW S \in SUBSET (0 .. n), S # {}
  PROVE  \E m \in S : \A k \in S : k <= m
<1> DEFINE T == {n - k : k \in S}
<1>1. T \in SUBSET Nat /\ T # {}
  <2>1. \A k \in S : k \in 0 .. n /\ n - k \in Nat
    OBVIOUS
  <2> QED
    BY <2>1
<1>2. PICK t \in T : \A u \in T : t <= u
  <2> HIDE DEF T
  <2> QED
    BY <1>1, LeastNumber
<1>3. PICK m \in S : t = n - m
  OBVIOUS
<1>4. ASSUME NEW k \in S PROVE k <= m
  <2>1. t <= n - k
    BY <1>2
  <2> QED
    BY <1>3, <2>1
<1> QED
  BY <1>4

-----------------------------------------------------------------------------
(* The chain of a block *)

\* The set holds the parents of its blocks.
Closed(S) == \A a \in S : Parent[a] # Start => Parent[a] \in S

\* The blocks that are in every closed set with b: a solution of the equation
\* of Ancestors that does not speak of itself.
Reached(b) == {a \in Blocks : \A S \in SUBSET Blocks : b \in S /\ Closed(S) => a \in S}

LEMMA ReachedStep ==
  ASSUME NEW b \in Blocks
  PROVE  Reached(b) = {b} \cup (IF Parent[b] = Start THEN {} ELSE Reached(Parent[b]))
<1> DEFINE R == {b} \cup (IF Parent[b] = Start THEN {} ELSE Reached(Parent[b]))
<1>1. Parent[b] # Start => Parent[b] \in Blocks
  BY TreeAssumption
<1>2. ASSUME NEW a \in Reached(b) PROVE a \in R
  <2>1. R \in SUBSET Blocks /\ b \in R
    BY DEF Reached
  <2>2. Closed(R)
    <3> SUFFICES ASSUME NEW c \in R, Parent[c] # Start PROVE Parent[c] \in R
      BY DEF Closed
    <3>1. CASE c = b
      <4>1. Parent[b] \in Reached(Parent[b])
        BY <1>1, <3>1 DEF Reached
      <4> QED
        BY <3>1, <4>1
    <3>2. CASE Parent[b] # Start /\ c \in Reached(Parent[b])
      <4>1. c \in Blocks /\ Parent[c] \in Blocks
        BY <3>2, TreeAssumption DEF Reached
      <4>2. Parent[c] \in Reached(Parent[b])
        BY <3>2, <4>1 DEF Reached, Closed
      <4> QED
        BY <3>2, <4>2
    <3> QED
      BY <3>1, <3>2
  <2> QED
    BY <2>1, <2>2 DEF Reached
<1>3. ASSUME NEW a \in R PROVE a \in Reached(b)
  <2>1. CASE a = b
    BY <2>1 DEF Reached
  <2>2. CASE Parent[b] # Start /\ a \in Reached(Parent[b])
    BY <1>1, <2>2 DEF Reached, Closed
  <2> QED
    BY <2>1, <2>2
<1> QED
  BY <1>2, <1>3

\* The equation of Ancestors, by which the code walks prev links.
LEMMA AncestorsStep ==
  ASSUME NEW b \in Blocks
  PROVE  Ancestors[b] = {b} \cup (IF Parent[b] = Start THEN {} ELSE Ancestors[Parent[b]])
<1> DEFINE Solves(f) ==
      f = [c \in Blocks |-> {c} \cup (IF Parent[c] = Start THEN {} ELSE f[Parent[c]])]
<1>1. Solves([c \in Blocks |-> Reached(c)])
  <2> DEFINE f == [c \in Blocks |-> Reached(c)]
             g == [c \in Blocks |-> {c} \cup (IF Parent[c] = Start THEN {} ELSE f[Parent[c]])]
  <2>1. ASSUME NEW c \in Blocks PROVE f[c] = g[c]
    <3>1. Parent[c] # Start => Parent[c] \in Blocks
      BY TreeAssumption
    <3> QED
      BY <3>1, ReachedStep
  <2>2. f = g
    BY <2>1
  <2> QED
    BY <2>2
<1>2. Ancestors = CHOOSE f : Solves(f)
  BY DEF Ancestors
<1>3. Solves(Ancestors)
  <2> HIDE DEF Solves
  <2> QED
    BY <1>1, <1>2
<1> QED
  BY <1>3

\* What holds of the blocks on the checkpoint, and of a block when it holds of
\* its parent, holds of all.
LEMMA TreeInduction ==
  ASSUME NEW S \in SUBSET Blocks,
         \A b \in Blocks : Parent[b] = Start \/ Parent[b] \in S => b \in S
  PROVE  S = Blocks
<1>1. ASSUME Blocks \ S # {} PROVE FALSE
  <2>1. PICK b \in Blocks \ S : Parent[b] \notin Blocks \ S
    BY <1>1, TreeAssumption
  <2> QED
    BY <2>1, TreeAssumption
<1> QED
  BY <1>1

LEMMA ParentType ==
  ASSUME NEW b \in Blocks
  PROVE  Parent[b] = Start \/ Parent[b] \in Blocks
  BY TreeAssumption

LEMMA AncestorsType ==
  ASSUME NEW b \in Blocks
  PROVE  Ancestors[b] \in SUBSET Blocks /\ b \in Ancestors[b] /\ IsFiniteSet(Ancestors[b])
<1> DEFINE S == {c \in Blocks : Ancestors[c] \in SUBSET Blocks}
<1>1. \A c \in Blocks : Parent[c] = Start \/ Parent[c] \in S => c \in S
  BY AncestorsStep
<1>2. S = Blocks
  <2> HIDE DEF S
  <2> QED
    BY <1>1, TreeInduction DEF S
<1>3. Ancestors[b] \in SUBSET Blocks
  BY <1>2
<1> QED
  BY <1>3, AncestorsStep, FS_Subset, TreeAssumption

\* Ancestors of ancestors are ancestors.
LEMMA AncestorsOfAncestor ==
  ASSUME NEW b \in Blocks, NEW a \in Ancestors[b]
  PROVE  a \in Blocks /\ Ancestors[a] \subseteq Ancestors[b]
<1> DEFINE S == {c \in Blocks : \A d \in Ancestors[c] : Ancestors[d] \subseteq Ancestors[c]}
<1>1. ASSUME NEW c \in Blocks, Parent[c] = Start \/ Parent[c] \in S,
             NEW d \in Ancestors[c]
      PROVE  Ancestors[d] \subseteq Ancestors[c]
  <2>1. CASE d = c
    BY <2>1
  <2>2. CASE d # c
    <3>1. Parent[c] # Start /\ d \in Ancestors[Parent[c]] /\ Parent[c] \in S
      BY <1>1, <2>2, AncestorsStep
    <3>2. Ancestors[d] \subseteq Ancestors[Parent[c]]
      BY <3>1
    <3> HIDE DEF S
    <3> QED
      BY <3>1, <3>2, AncestorsStep
  <2> QED
    BY <2>1, <2>2
<1>2. \A c \in Blocks : Parent[c] = Start \/ Parent[c] \in S => c \in S
  BY <1>1
<1>3. S = Blocks
  <2> HIDE DEF S
  <2> QED
    BY <1>2, TreeInduction DEF S
<1> QED
  BY <1>3, AncestorsType

LEMMA ParentIsAncestor ==
  ASSUME NEW b \in Blocks, Parent[b] # Start
  PROVE  Parent[b] \in Blocks /\ Parent[b] \in Ancestors[b]
         /\ Ancestors[Parent[b]] \subseteq Ancestors[b]
  BY ParentType, AncestorsStep, AncestorsType

\* No block is an ancestor of its parent.
LEMMA NoCycle ==
  ASSUME NEW b \in Blocks, Parent[b] # Start
  PROVE  b \notin Ancestors[Parent[b]]
<1> DEFINE p == Parent[b]
           C == {a \in Ancestors[p] : b \in Ancestors[a]}
<1> SUFFICES ASSUME b \in Ancestors[p] PROVE FALSE
  OBVIOUS
<1>1. p \in Blocks /\ C \in SUBSET Blocks /\ b \in C
  BY ParentIsAncestor, AncestorsType
<1>2. PICK c \in C : Parent[c] \notin C
  BY <1>1, TreeAssumption
<1>3. c \in Blocks /\ c \in Ancestors[p] /\ b \in Ancestors[c]
  BY <1>1, <1>2
<1>4. Parent[c] # Start
  <2>1. Parent[c] = Start => b = c
    BY <1>3, AncestorsStep
  <2> QED
    BY <2>1
<1>5. Parent[c] \in Ancestors[p]
  BY <1>1, <1>3, <1>4, ParentIsAncestor, AncestorsOfAncestor
<1>6. b \in Ancestors[Parent[c]]
  BY <1>3, <1>4, AncestorsStep
<1> QED
  BY <1>2, <1>5, <1>6

-----------------------------------------------------------------------------
(* Heights *)

\* A block is one higher than its parent.
LEMMA HeightStep ==
  ASSUME NEW b \in Blocks
  PROVE  /\ HeightOf(b) \in Nat \ {0}
         /\ HeightOf(Parent[b]) \in Nat
         /\ HeightOf(b) = HeightOf(Parent[b]) + 1
<1>1. b # Start /\ HeightOf(b) = Cardinality(Ancestors[b])
  BY TreeAssumption DEF HeightOf
<1>2. CASE Parent[b] = Start
  <2>1. Ancestors[b] = {b}
    BY <1>2, AncestorsStep
  <2>2. Cardinality({b}) = 1
    BY FS_Singleton
  <2> QED
    BY <1>1, <1>2, <2>1, <2>2 DEF HeightOf
<1>3. CASE Parent[b] # Start
  <2> DEFINE P == Ancestors[Parent[b]]
  <2>1. Parent[b] \in Blocks /\ IsFiniteSet(P) /\ b \notin P
    BY <1>3, ParentIsAncestor, AncestorsType, NoCycle
  <2>2. Ancestors[b] = P \cup {b}
    BY <1>3, AncestorsStep
  <2>3. Cardinality(P) \in Nat /\ Cardinality(P \cup {b}) = Cardinality(P) + 1
    BY <2>1, FS_CardinalityType, FS_AddElement
  <2>4. HeightOf(Parent[b]) = Cardinality(P)
    BY <1>3 DEF HeightOf
  <2> HIDE DEF P
  <2> QED
    BY <1>1, <2>2, <2>3, <2>4
<1> QED
  BY <1>2, <1>3

LEMMA HeightOfStart == HeightOf(Start) = 0
  BY DEF HeightOf

\* A proper ancestor is lower.
LEMMA AncestorIsLower ==
  ASSUME NEW b \in Blocks, NEW a \in Ancestors[b]
  PROVE  /\ a \in Blocks /\ HeightOf(a) \in Nat \ {0} /\ HeightOf(b) \in Nat \ {0}
         /\ HeightOf(a) <= HeightOf(b)
         /\ a # b => HeightOf(a) < HeightOf(b)
<1> DEFINE S == {c \in Blocks : \A d \in Ancestors[c] : d = c \/ HeightOf(d) < HeightOf(c)}
<1>1. ASSUME NEW c \in Blocks, Parent[c] = Start \/ Parent[c] \in S,
             NEW d \in Ancestors[c], d # c
      PROVE  HeightOf(d) < HeightOf(c)
  <2>1. Parent[c] \in S /\ d \in Ancestors[Parent[c]] /\ Parent[c] \in Blocks
    BY <1>1, AncestorsStep, ParentIsAncestor
  <2>2. d = Parent[c] \/ HeightOf(d) < HeightOf(Parent[c])
    BY <2>1
  <2>3. d \in Blocks
    BY <2>1, AncestorsType
  <2> HIDE DEF S
  <2>4. /\ HeightOf(d) \in Nat /\ HeightOf(Parent[c]) \in Nat
        /\ HeightOf(c) = HeightOf(Parent[c]) + 1
    BY <2>1, <2>3, HeightStep
  <2> QED
    BY <2>2, <2>4
<1>2. \A c \in Blocks : Parent[c] = Start \/ Parent[c] \in S => c \in S
  BY <1>1
<1>3. S = Blocks
  <2> HIDE DEF S
  <2> QED
    BY <1>2, TreeInduction DEF S
<1>4. a \in Blocks /\ (a = b \/ HeightOf(a) < HeightOf(b))
  BY <1>3, AncestorsType
<1>5. HeightOf(a) \in Nat \ {0} /\ HeightOf(b) \in Nat \ {0}
  BY <1>4, HeightStep
<1> QED
  BY <1>4, <1>5

-----------------------------------------------------------------------------
(* The block of a chain at a height *)

\* A chain has one block at every height from 1 to its own.
LEMMA OneAtHeight ==
  ASSUME NEW b \in Blocks, NEW h \in 1 .. HeightOf(b)
  PROVE  /\ \E a \in Ancestors[b] : HeightOf(a) = h
         /\ \A a, c \in Ancestors[b] : HeightOf(a) = HeightOf(c) => a = c
<1> DEFINE Unique(c) == \A a, d \in Ancestors[c] : HeightOf(a) = HeightOf(d) => a = d
           Full(c) == \A k \in 1 .. HeightOf(c) : \E a \in Ancestors[c] : HeightOf(a) = k
           S == {c \in Blocks : Unique(c) /\ Full(c)}
<1>1. ASSUME NEW c \in Blocks, Parent[c] = Start \/ Parent[c] \in S
      PROVE  Unique(c) /\ Full(c)
  <2>1. /\ HeightOf(c) \in Nat \ {0} /\ HeightOf(Parent[c]) \in Nat
        /\ HeightOf(c) = HeightOf(Parent[c]) + 1
        /\ c \in Ancestors[c]
    BY HeightStep, AncestorsType
  <2>2. CASE Parent[c] = Start
    <3>1. Ancestors[c] = {c} /\ HeightOf(c) = 1
      BY <2>1, <2>2, AncestorsStep, HeightOfStart
    <3> QED
      BY <3>1
  <2>3. CASE Parent[c] # Start
    <3> DEFINE p == Parent[c]
    <3>1. p \in Blocks /\ Unique(p) /\ Full(p) /\ Ancestors[c] = {c} \cup Ancestors[p]
      BY <1>1, <2>3, AncestorsStep, ParentIsAncestor
    <3>2. \A a \in Ancestors[p] : HeightOf(a) \in Nat /\ HeightOf(a) < HeightOf(c)
      <4> SUFFICES ASSUME NEW a \in Ancestors[p]
                   PROVE  HeightOf(a) \in Nat /\ HeightOf(a) < HeightOf(c)
        OBVIOUS
      <4>1. HeightOf(a) \in Nat /\ HeightOf(a) <= HeightOf(p)
        BY <3>1, AncestorIsLower
      <4> QED
        BY <2>1, <4>1
    <3>3. Unique(c)
      BY <2>1, <3>1, <3>2
    <3>4. Full(c)
      <4> SUFFICES ASSUME NEW k \in 1 .. HeightOf(c)
                   PROVE  \E a \in Ancestors[c] : HeightOf(a) = k
        OBVIOUS
      <4>1. CASE k = HeightOf(c)
        BY <2>1, <4>1
      <4>2. CASE k # HeightOf(c)
        <5>1. k \in 1 .. HeightOf(p)
          BY <2>1, <4>2
        <5> QED
          BY <3>1, <5>1
      <4> QED
        BY <4>1, <4>2
    <3> QED
      BY <3>3, <3>4
  <2> QED
    BY <2>2, <2>3
<1>2. \A c \in Blocks : Parent[c] = Start \/ Parent[c] \in S => c \in S
  BY <1>1
<1>3. S = Blocks
  <2> HIDE DEF S
  <2> QED
    BY <1>2, TreeInduction DEF S
<1>4. Unique(b) /\ Full(b)
  BY <1>3
<1> QED
  BY <1>4

LEMMA AtType ==
  ASSUME NEW b \in Blocks, NEW h \in 1 .. HeightOf(b)
  PROVE  At(b, h) \in Ancestors[b] /\ At(b, h) \in Blocks /\ HeightOf(At(b, h)) = h
  BY OneAtHeight, AncestorsType DEF At

\* The block at its height is an ancestor.
LEMMA AtOfAncestor ==
  ASSUME NEW b \in Blocks, NEW a \in Ancestors[b]
  PROVE  HeightOf(a) \in 1 .. HeightOf(b) /\ At(b, HeightOf(a)) = a
<1>1. HeightOf(a) \in 1 .. HeightOf(b)
  BY AncestorIsLower
<1> QED
  BY <1>1, OneAtHeight, AtType

LEMMA AtTop ==
  ASSUME NEW b \in Blocks
  PROVE  At(b, HeightOf(b)) = b
  BY AtOfAncestor, AncestorsType

\* A block has its ancestors' chains below it.
LEMMA AtBelow ==
  ASSUME NEW b \in Blocks, NEW a \in Ancestors[b], NEW h \in 1 .. HeightOf(a)
  PROVE  At(a, h) = At(b, h)
<1>1. a \in Blocks /\ Ancestors[a] \subseteq Ancestors[b]
  BY AncestorsOfAncestor
<1>2. At(a, h) \in Ancestors[b] /\ HeightOf(At(a, h)) = h
  BY <1>1, AtType
<1> QED
  BY <1>2, AtOfAncestor

\* The chain of a block is its parent's, and the block on top.
LEMMA AtStep ==
  ASSUME NEW b \in Blocks, NEW h \in 1 .. HeightOf(b)
  PROVE  IF h = HeightOf(b) THEN At(b, h) = b
         ELSE /\ Parent[b] \in Blocks
              /\ h \in 1 .. HeightOf(Parent[b])
              /\ At(b, h) = At(Parent[b], h)
<1>1. /\ HeightOf(b) \in Nat \ {0} /\ HeightOf(Parent[b]) \in Nat
      /\ HeightOf(b) = HeightOf(Parent[b]) + 1
  BY HeightStep
<1>2. CASE h = HeightOf(b)
  BY <1>2, AtTop
<1>3. CASE h # HeightOf(b)
  <2>1. h \in 1 .. HeightOf(Parent[b])
    BY <1>1, <1>3
  <2>2. Parent[b] # Start
    BY <2>1, HeightOfStart
  <2> QED
    BY <1>3, <2>1, <2>2, ParentIsAncestor, AtBelow
<1> QED
  BY <1>2, <1>3

\* A block of a chain extends the one below it.
LEMMA AtParent ==
  ASSUME NEW b \in Blocks, NEW h \in 1 .. HeightOf(b), h - 1 \in 1 .. HeightOf(b)
  PROVE  Parent[At(b, h)] = At(b, h - 1)
<1> DEFINE a == At(b, h)
<1>1. a \in Blocks /\ a \in Ancestors[b] /\ HeightOf(a) = h
  BY AtType
<1>2. HeightOf(Parent[a]) = h - 1 /\ h - 1 # 0
  BY <1>1, HeightStep
<1>3. Parent[a] # Start
  BY <1>2, HeightOfStart
<1>4. Parent[a] \in Ancestors[b]
  BY <1>1, <1>3, ParentIsAncestor, AncestorsOfAncestor
<1> QED
  BY <1>2, <1>4, AtOfAncestor

\* The heights of the tree are 1, 2, ... up to the highest.
LEMMA HeightsAre ==
  ASSUME NEW h \in Heights
  PROVE  h \in Nat \ {0} /\ 1 .. h \subseteq Heights
<1>1. PICK b \in Blocks : h = HeightOf(b)
  BY DEF Heights
<1>2. h \in Nat \ {0}
  BY <1>1, HeightStep
<1>3. ASSUME NEW k \in 1 .. h PROVE k \in Heights
  BY <1>1, AtType DEF Heights
<1> QED
  BY <1>2, <1>3

LEMMA HeightType ==
  ASSUME NEW b \in Blocks
  PROVE  HeightOf(b) \in Heights /\ 1 .. HeightOf(b) \subseteq Heights
  BY HeightsAre DEF Heights
=============================================================================
