--------------------------- MODULE MeshSyncProofs ---------------------------
(***************************************************************************)
(* A theorem of MeshSync for every value of its constants: whatever the    *)
(* serve thread stages while the sync thread folds, reorganises and        *)
(* prunes, and whatever branch is refused after the rollback, the store    *)
(* offers one chain and holds its blocks from a floor up.                  *)
(***************************************************************************)
EXTENDS MeshSync, BlockTreeProofs

\* A block is being connected; a branch is being read, its fork not rolled back to.
Connecting == pc \in {"put", "window", "save"}
Reading == pc \in {"walk", "rollback"}

\* The rows follow on block b and on each other.
Linked(b, rows) ==
  \A i \in 1 .. Len(rows) :
    rows[i] \in Blocks /\ Parent[rows[i]] = IF i = 1 THEN b ELSE rows[i - 1]

\* The block that the branch follows on.
Base == IF Reading THEN At(tip, fork) ELSE IF Connecting THEN row ELSE tip

\* A branch is read before it is judged, and connected block by block from its fork;
\* when one of them is refused the rest hangs in the air until it is let go.
PassOK ==
  /\ pc \in {"off", "fold", "end"} => fork = 0
  /\ Reading => fork \in 1 .. HeightOf(tip) - 1
  /\ pc = "prune" => fork = HeightOf(tip)
  /\ Connecting => row \in Blocks /\ Parent[row] = tip
  /\ pc = "unstage" => row = tip
BranchOK ==
  /\ fork = 0 => branch = <<>>
  /\ fork > 0 /\ pc # "drop" => Linked(Base, branch)
PassType ==
  /\ tip \in Blocks
  /\ fork \in Nat
  /\ branch \in Seq(Blocks)
  /\ pc \in {"off", "fold", "drop", "end", "walk", "rollback", "prune", "branch",
             "put", "window", "save", "unstage"}

\* The blocks of the chain that ends in b from height f up: none if f is above b.
Kept(b, f) == [h \in Heights |-> IF f <= h /\ h <= HeightOf(b) THEN At(b, h) ELSE Missing]

\* The block that the headers end in: the tip, but a block is offered before it
\* is the tip, and what is rolled back is offered until it is pruned.
OffersTo(b) ==
  IF pc \in {"window", "save"} THEN b = row
  ELSE IF pc = "prune" THEN tip \in Ancestors[b]
  ELSE b = tip

\* The store offers the chain that ends in b and holds it from f up.
StoreIs(b, f) ==
  /\ headers = RowsOf(b)
  /\ window = Kept(IF pc = "window" THEN tip ELSE b, f)
  /\ OffersTo(b)

\* It does so for some floor: one that a pruned fork is under is above the chain.
StoreOK == \E b \in Blocks, f \in Nat \ {0} : StoreIs(b, f)

IInv == PassType /\ PassOK /\ BranchOK /\ StoreOK

-----------------------------------------------------------------------------
(* The rows of a chain *)

LEMMA NumbersType == Window \in Nat \ {0}
  BY BoundsAssumption

LEMMA HeightsNat == Heights \subseteq Nat \ {0}
  BY HeightsAre

LEMMA RowsAreKept ==
  ASSUME NEW b \in Blocks
  PROVE  RowsOf(b) = Kept(b, 1)
  BY HeightsNat, HeightStep DEF RowsOf, Kept

\* What is kept of a chain above one of its blocks is dropped.
LEMMA KeptCut ==
  ASSUME NEW b \in Blocks, NEW a \in Ancestors[b], NEW f \in Nat \ {0}
  PROVE  [h \in Heights |-> IF h > HeightOf(a) THEN Missing ELSE Kept(b, f)[h]] = Kept(a, f)
<1>1. a \in Blocks /\ HeightOf(a) \in Nat /\ HeightOf(b) \in Nat /\ HeightOf(a) <= HeightOf(b)
  BY AncestorIsLower
<1>2. ASSUME NEW h \in Heights
      PROVE  (IF h > HeightOf(a) THEN Missing ELSE Kept(b, f)[h]) = Kept(a, f)[h]
  <2>1. h \in Nat \ {0}
    BY HeightsNat
  <2>2. CASE h <= HeightOf(a) /\ f <= h
    <3>1. h \in 1 .. HeightOf(a) /\ ~(h > HeightOf(a)) /\ h <= HeightOf(b)
      BY <1>1, <2>1, <2>2
    <3>2. At(a, h) = At(b, h)
      BY <3>1, AtBelow
    <3> QED
      BY <2>2, <3>1, <3>2 DEF Kept
  <2>3. CASE ~(h <= HeightOf(a) /\ f <= h)
    BY <1>1, <2>1, <2>3 DEF Kept
  <2> QED
    BY <2>2, <2>3
<1> QED
  BY <1>2 DEF Kept

\* The chain of a block is its parent's with the block on top.
LEMMA KeptOnParent ==
  ASSUME NEW b \in Blocks, Parent[b] \in Blocks, NEW f \in Nat \ {0}, NEW h \in Heights,
         h # HeightOf(b)
  PROVE  /\ HeightOf(b) = HeightOf(Parent[b]) + 1 /\ HeightOf(Parent[b]) \in Nat \ {0}
         /\ Kept(b, f)[h] = Kept(Parent[b], f)[h]
<1>1. /\ HeightOf(b) = HeightOf(Parent[b]) + 1 /\ HeightOf(Parent[b]) \in Nat \ {0}
      /\ HeightOf(b) \in Nat
  BY HeightStep
<1>2. h \in Nat \ {0}
  BY HeightsNat
<1>3. CASE h <= HeightOf(Parent[b])
  <2>1. h \in 1 .. HeightOf(b)
    BY <1>1, <1>2, <1>3
  <2>2. At(b, h) = At(Parent[b], h)
    BY <2>1, AtStep
  <2>3. h <= HeightOf(b)
    BY <2>1
  <2> QED
    BY <1>1, <1>3, <2>2, <2>3 DEF Kept
<1>4. CASE ~(h <= HeightOf(Parent[b]))
  <2>1. ~(h <= HeightOf(b))
    BY <1>1, <1>2, <1>4
  <2> QED
    BY <1>1, <1>4, <2>1 DEF Kept
<1> QED
  BY <1>3, <1>4

LEMMA KeptTop ==
  ASSUME NEW b \in Blocks, NEW f \in Nat \ {0}, f <= HeightOf(b)
  PROVE  HeightOf(b) \in Heights /\ Kept(b, f)[HeightOf(b)] = b
<1>1. HeightOf(b) \in Heights /\ HeightOf(b) \in Nat
  BY HeightType, HeightStep
<1> QED
  BY <1>1, AtTop DEF Kept

\* serve_store_put: the header.
LEMMA HeadersPut ==
  ASSUME NEW b \in Blocks, Parent[b] \in Blocks
  PROVE  [RowsOf(Parent[b]) EXCEPT ![HeightOf(b)] = b] = RowsOf(b)
<1> DEFINE new == [RowsOf(Parent[b]) EXCEPT ![HeightOf(b)] = b]
<1>1. HeightOf(b) \in Nat \ {0}
  BY HeightStep
<1>2. ASSUME NEW h \in Heights PROVE new[h] = RowsOf(b)[h]
  <2>1. CASE h = HeightOf(b)
    <3>1. RowsOf(b)[h] = b
      BY <1>1, <2>1, RowsAreKept, KeptTop
    <3> QED
      BY <2>1, <3>1 DEF RowsOf
  <2>2. CASE h # HeightOf(b)
    <3>1. new[h] = RowsOf(Parent[b])[h]
      BY <2>2 DEF RowsOf
    <3>2. RowsOf(Parent[b])[h] = RowsOf(b)[h]
      BY <2>2, RowsAreKept, KeptOnParent
    <3> QED
      BY <3>1, <3>2
  <2> QED
    BY <2>1, <2>2
<1>3. new \in [Heights -> {new[h] : h \in Heights}] /\ DOMAIN RowsOf(b) = Heights
  BY DEF RowsOf
<1> QED
  BY <1>2, <1>3 DEF RowsOf

\* serve_store_put: the raw block, and the trim.  An empty window starts anew.
LEMMA WindowPut ==
  ASSUME NEW b \in Blocks, Parent[b] \in Blocks, NEW f \in Nat \ {0}
  PROVE  \E g \in Nat \ {0} :
           [h \in Heights |-> IF h = HeightOf(b) THEN b
                              ELSE IF h < HeightOf(b) - Window THEN Missing
                              ELSE Kept(Parent[b], f)[h]] = Kept(b, g)
<1> DEFINE H == HeightOf(b)
           g == IF f < H - Window THEN H - Window ELSE IF H < f THEN H ELSE f
           new == [h \in Heights |-> IF h = H THEN b
                                     ELSE IF h < H - Window THEN Missing
                                     ELSE Kept(Parent[b], f)[h]]
<1>1. H \in Nat \ {0}
  BY HeightStep
<1>2. Window \in Nat \ {0}
  BY NumbersType
<1>3. g \in Nat \ {0} /\ g <= H
  <2> HIDE DEF H
  <2> QED
    BY <1>1, <1>2
<1>4. ASSUME NEW h \in Heights PROVE new[h] = Kept(b, g)[h]
  <2>1. h \in Nat \ {0}
    BY HeightsNat
  <2>2. CASE h = H
    BY <1>3, <2>2, KeptTop
  <2>3. CASE h # H
    <3>1. Kept(Parent[b], f)[h] = Kept(b, f)[h]
      BY <2>3, KeptOnParent
    <3>2. Kept(b, f)[h] = IF f <= h /\ h <= H THEN At(b, h) ELSE Missing
      BY DEF Kept
    <3>3. Kept(b, g)[h] = IF g <= h /\ h <= H THEN At(b, h) ELSE Missing
      BY DEF Kept
    <3>4. new[h] = IF h < H - Window THEN Missing ELSE Kept(b, f)[h]
      BY <2>3, <3>1
    <3> HIDE DEF H, new
    <3> QED
      BY <1>1, <1>2, <2>1, <2>3, <3>2, <3>3, <3>4
  <2> QED
    BY <2>2, <2>3
<1>5. new = Kept(b, g)
  BY <1>4 DEF Kept
<1> QED
  BY <1>3, <1>5

-----------------------------------------------------------------------------
(* The branch *)

LEMMA LinkedNone ==
  ASSUME NEW b
  PROVE  Linked(b, <<>>)
  BY DEF Linked

LEMMA LinkedMore ==
  ASSUME NEW b \in Blocks, NEW rows \in Seq(Blocks), Linked(b, rows), NEW c \in Blocks,
         Parent[c] = IF rows = <<>> THEN b ELSE Last(rows)
  PROVE  Append(rows, c) \in Seq(Blocks) /\ Linked(b, Append(rows, c))
<1>1. Len(rows) \in Nat /\ (rows = <<>> <=> Len(rows) = 0)
  OBVIOUS
<1>2. /\ Append(rows, c) \in Seq(Blocks) /\ Len(Append(rows, c)) = Len(rows) + 1
      /\ Append(rows, c)[Len(rows) + 1] = c
      /\ \A i \in 1 .. Len(rows) : Append(rows, c)[i] = rows[i]
  OBVIOUS
<1>3. rows # <<>> => Last(rows) = rows[Len(rows)]
  BY DEF Last
<1>4. ASSUME NEW i \in 1 .. Len(rows) + 1
      PROVE  /\ Append(rows, c)[i] \in Blocks
             /\ Parent[Append(rows, c)[i]] = IF i = 1 THEN b ELSE Append(rows, c)[i - 1]
  <2>1. CASE i = Len(rows) + 1
    <3>1. CASE rows = <<>>
      BY <1>1, <1>2, <2>1, <3>1
    <3>2. CASE rows # <<>>
      <4>1. i # 1 /\ i - 1 = Len(rows) /\ i - 1 \in 1 .. Len(rows)
        BY <1>1, <2>1, <3>2
      <4>2. Append(rows, c)[i - 1] = Last(rows)
        BY <1>2, <1>3, <3>2, <4>1
      <4> QED
        BY <1>2, <2>1, <3>2, <4>1, <4>2
    <3> QED
      BY <3>1, <3>2
  <2>2. CASE i # Len(rows) + 1
    <3>1. i \in 1 .. Len(rows) /\ (i # 1 => i - 1 \in 1 .. Len(rows))
      BY <1>1, <2>2
    <3> QED
      BY <1>2, <3>1 DEF Linked
  <2> QED
    BY <2>1, <2>2
<1> QED
  BY <1>2, <1>4 DEF Linked

LEMMA LinkedLess ==
  ASSUME NEW b \in Blocks, NEW rows \in Seq(Blocks), Linked(b, rows), rows # <<>>
  PROVE  /\ Head(rows) \in Blocks /\ Parent[Head(rows)] = b /\ Head(rows) = rows[1]
         /\ Tail(rows) \in Seq(Blocks) /\ Linked(Head(rows), Tail(rows))
         /\ Len(rows) = Len(Tail(rows)) + 1 /\ Len(Tail(rows)) \in Nat
         /\ \A i \in 1 .. Len(Tail(rows)) :
               i + 1 \in 1 .. Len(rows) /\ Tail(rows)[i] = rows[i + 1]
<1>1. Len(rows) \in Nat \ {0} /\ Head(rows) = rows[1] /\ 1 \in 1 .. Len(rows)
  OBVIOUS
<1>2. /\ Tail(rows) \in Seq(Blocks) /\ Len(Tail(rows)) = Len(rows) - 1
      /\ \A i \in 1 .. Len(Tail(rows)) :
            i + 1 \in 1 .. Len(rows) /\ Tail(rows)[i] = rows[i + 1]
  BY <1>1
<1>3. Head(rows) \in Blocks /\ Parent[Head(rows)] = b
  BY <1>1 DEF Linked
<1>4. ASSUME NEW i \in 1 .. Len(Tail(rows))
      PROVE  /\ Tail(rows)[i] \in Blocks
             /\ Parent[Tail(rows)[i]] = IF i = 1 THEN Head(rows) ELSE Tail(rows)[i - 1]
  <2>1. i + 1 \in 1 .. Len(rows) /\ i + 1 # 1 /\ Tail(rows)[i] = rows[i + 1]
    BY <1>2
  <2>2. rows[i + 1] \in Blocks /\ Parent[rows[i + 1]] = rows[i]
    BY <2>1 DEF Linked
  <2>3. i # 1 => Tail(rows)[i - 1] = rows[i]
    BY <1>2
  <2> QED
    BY <1>1, <2>1, <2>2, <2>3
<1> QED
  BY <1>1, <1>2, <1>3, <1>4 DEF Linked

-----------------------------------------------------------------------------
(* The invariant *)

LEMMA TipType ==
  ASSUME PassType
  PROVE  HeightOf(tip) \in Nat \ {0} /\ HeightOf(tip) \in Heights /\ Len(branch) \in Nat
  BY HeightStep, HeightType DEF PassType

LEMMA InitM == Init => IInv
<1> SUFFICES ASSUME Init PROVE IInv
  OBVIOUS
<1>1. First \in Blocks /\ HeightOf(First) \in Nat \ {0}
  BY RowsAssumption, HeightStep
<1>2. PassType /\ PassOK /\ BranchOK
  BY <1>1 DEF Init, PassType, PassOK, BranchOK, Reading, Connecting
<1>3. StoreIs(First, 1)
  BY <1>1, RowsAreKept DEF Init, StoreIs, OffersTo
<1> QED
  BY <1>1, <1>2, <1>3 DEF IInv, StoreOK

\* The serve thread and the peer leave the store and the pass alone.
LEMMA AsideM == IInv /\ UNCHANGED <<store, tip, pass>> => IInv'
<1> SUFFICES ASSUME IInv, UNCHANGED <<store, tip, pass>> PROVE IInv'
  OBVIOUS
<1> USE DEF store, pass
<1>1. PassType' /\ PassOK' /\ BranchOK'
  BY DEF IInv, PassType, PassOK, BranchOK, Reading, Connecting, Base
<1>2. ASSUME NEW b \in Blocks, NEW f \in Nat \ {0}, StoreIs(b, f)
      PROVE  StoreIs(b, f)'
  BY <1>2 DEF StoreIs, OffersTo
<1> QED
  BY <1>1, <1>2 DEF IInv, StoreOK

\* The headers do not end in the tip.
Storing == pc \in {"window", "save", "prune"}

\* A step between two states in which the headers end in the tip, that leaves both.
LEMMA StoreStays ==
  ASSUME StoreOK, UNCHANGED <<store, tip>>, ~Storing, ~Storing'
  PROVE  StoreOK'
<1> USE DEF store
<1>1. PICK b \in Blocks, f \in Nat \ {0} : StoreIs(b, f)
  BY DEF StoreOK
<1>2. StoreIs(b, f)'
  BY <1>1 DEF StoreIs, OffersTo, Storing
<1> QED
  BY <1>2 DEF StoreOK

LEMMA StartPassM == IInv /\ StartPass => IInv'
<1> SUFFICES ASSUME IInv, StartPass PROVE IInv'
  OBVIOUS
<1> USE DEF StartPass, store, mailbox, link
<1>1. PassType' /\ PassOK' /\ BranchOK'
  BY DEF IInv, PassType, PassOK, BranchOK, Reading, Connecting
<1>2. StoreOK'
  BY StoreStays DEF IInv, Storing
<1> QED
  BY <1>1, <1>2 DEF IInv

\* Block b is taken up from the stage, or a row of the branch.
LEMMA TakeM ==
  ASSUME IInv, pc \in {"fold", "branch"}, NEW b \in Blocks, Parent[b] = tip,
         NEW body, Take(b, body), UNCHANGED <<store, tip, fork>>,
         branch' \in Seq(Blocks),
         pc = "fold" => branch' = branch,
         pc = "branch" => fork # 0 /\ Linked(b, branch')
  PROVE  IInv'
<1> USE DEF Take, store
<1>1. /\ pc' \in {"put", "drop"} /\ row' = b
      /\ (pc = "fold" => fork = 0 /\ branch = <<>>)
  BY DEF IInv, PassOK, BranchOK
<1>2. PassType'
  BY <1>1 DEF IInv, PassType
<1>3. PassOK'
  BY <1>1 DEF IInv, PassOK, Reading, Connecting
<1>4. BranchOK'
  <2>1. fork' = 0 => branch' = <<>>
    BY <1>1
  <2>2. ASSUME fork' > 0, pc' # "drop"
        PROVE  Linked(Base, branch)'
    <3>1. pc = "branch" /\ pc' = "put"
      BY <1>1, <1>2, <2>2 DEF PassType
    <3>2. Base' = b
      BY <1>1, <3>1 DEF Base, Reading, Connecting
    <3> QED
      BY <3>1, <3>2 DEF Linked
  <2> QED
    BY <2>1, <2>2 DEF BranchOK
<1>5. StoreOK'
  BY <1>1, StoreStays DEF IInv, Storing
<1> QED
  BY <1>2, <1>3, <1>4, <1>5 DEF IInv

LEMMA FoldRowM == ASSUME IInv, NEW b \in Blocks, FoldRow(b) PROVE IInv'
<1>1. Parent[b] = tip /\ pc = "fold"
  BY DEF FoldRow, StageNext
<1>2. PICK body : Take(b, body)
  BY DEF FoldRow
<1>3. branch' = branch /\ UNCHANGED <<store, tip, fork>>
  BY DEF FoldRow, store
<1>4. branch' \in Seq(Blocks)
  BY <1>3 DEF IInv, PassType
<1> QED
  BY <1>1, <1>2, <1>3, <1>4, TakeM

LEMMA BranchNextM == ASSUME IInv, BranchNext PROVE IInv'
<1>1. /\ pc = "branch" /\ branch # <<>> /\ branch \in Seq(Blocks) /\ tip \in Blocks
      /\ fork # 0 /\ Linked(tip, branch)
  <2>1. fork # 0 /\ fork \in Nat /\ Base = tip
    BY DEF BranchNext, IInv, PassType, BranchOK, Base, Reading, Connecting
  <2> QED
    BY <2>1 DEF BranchNext, IInv, PassType, BranchOK
<1>2. PICK body : Take(Head(branch), body)
  BY DEF BranchNext
<1>3. branch' = Tail(branch) /\ UNCHANGED <<store, tip, fork>>
  BY DEF BranchNext, store
<1>4. /\ Head(branch) \in Blocks /\ Parent[Head(branch)] = tip
      /\ branch' \in Seq(Blocks) /\ Linked(Head(branch), branch')
  BY <1>1, <1>3, LinkedLess
<1> QED
  BY <1>1, <1>2, <1>3, <1>4, TakeM

LEMMA UnstagedM == IInv /\ Unstaged => IInv'
<1> SUFFICES ASSUME IInv, Unstaged PROVE IInv'
  OBVIOUS
<1> USE DEF Unstaged, store, link
<1>1. pc = "unstage" /\ pc' \in {"fold", "branch"} /\ (pc' = "fold" <=> fork = 0)
  OBVIOUS
<1>2. PassType' /\ PassOK'
  BY <1>1 DEF IInv, PassType, PassOK, Reading, Connecting
<1>3. BranchOK'
  <2>1. Base = tip /\ Base' = tip
    BY <1>1 DEF IInv, PassOK, Base, Reading, Connecting
  <2> QED
    BY <1>1, <2>1 DEF IInv, BranchOK, Linked
<1>4. StoreOK'
  BY <1>1, StoreStays DEF IInv, Storing
<1> QED
  BY <1>2, <1>3, <1>4 DEF IInv

\* A refused row ends its branch where it has got to; the store ends there too.
LEMMA DroppedM == IInv /\ Dropped => IInv'
<1> SUFFICES ASSUME IInv, Dropped PROVE IInv'
  OBVIOUS
<1> USE DEF Dropped, store, link
<1>1. /\ pc = "drop" /\ pc' \in {"fold", "branch"} /\ (pc' = "fold" <=> fork = 0)
      /\ branch' = <<>> /\ UNCHANGED <<tip, row, fork>>
  OBVIOUS
<1>2. PassType' /\ PassOK'
  BY <1>1 DEF IInv, PassType, PassOK, Reading, Connecting
<1>3. BranchOK'
  BY <1>1, LinkedNone DEF BranchOK, Linked
<1>4. StoreOK'
  BY <1>1, StoreStays DEF IInv, Storing
<1> QED
  BY <1>2, <1>3, <1>4 DEF IInv

LEMMA NoForkM == IInv /\ NoFork => IInv'
<1> SUFFICES ASSUME IInv, NoFork PROVE IInv'
  OBVIOUS
<1> USE DEF NoFork, NothingFolds, store, mailbox, link
<1>1. PassType' /\ PassOK' /\ BranchOK'
  BY DEF IInv, PassType, PassOK, BranchOK, Reading, Connecting
<1>2. StoreOK'
  BY StoreStays DEF IInv, Storing
<1> QED
  BY <1>1, <1>2 DEF IInv

LEMMA EndPassM == IInv /\ (EndPass \/ BranchDone) => IInv'
<1> SUFFICES ASSUME IInv, EndPass \/ BranchDone PROVE IInv'
  OBVIOUS
<1> USE DEF EndPass, BranchDone, store, mailbox, link
<1>1. branch = <<>> /\ branch' = <<>> /\ fork' = 0 /\ pc' \in {"off", "end"}
  BY DEF IInv, PassOK, BranchOK
<1>2. PassType' /\ PassOK' /\ BranchOK'
  BY <1>1 DEF IInv, PassType, PassOK, BranchOK, Reading, Connecting
<1>3. StoreOK'
  BY <1>1, StoreStays DEF IInv, Storing
<1> QED
  BY <1>2, <1>3 DEF IInv

-----------------------------------------------------------------------------
(* The branch is found, read and judged *)

LEMMA ForkHeights ==
  ASSUME PassType, Forks # {}
  PROVE  Max(Forks) \in 1 .. HeightOf(tip) - 1
<1>1. HeightOf(tip) \in Nat \ {0}
  BY TipType
<1>2. Forks \in SUBSET (0 .. HeightOf(tip))
  BY <1>1 DEF Forks
<1>3. \E m \in Forks : \A k \in Forks : k <= m
  BY <1>1, <1>2, GreatestNumber
<1>4. \E m \in Forks : \A k \in Forks : m >= k
  BY <1>1, <1>2, <1>3
<1>5. Max(Forks) \in Forks
  BY <1>4 DEF Max
<1> QED
  BY <1>5 DEF Forks

LEMMA ProbeM == ASSUME IInv, Probe PROVE IInv'
<1> USE DEF Probe, NothingFolds, store, mailbox, link
<1>1. /\ PassType /\ pc = "fold" /\ pc' = "walk" /\ branch = <<>>
      /\ fork' \in 1 .. HeightOf(tip) - 1 /\ HeightOf(tip) \in Nat \ {0}
  BY ForkHeights, TipType DEF IInv, PassOK, BranchOK
<1>2. PassType' /\ PassOK'
  BY <1>1 DEF PassType, PassOK, Reading, Connecting
<1>3. BranchOK'
  BY <1>1, LinkedNone DEF BranchOK, Linked
<1>4. StoreOK'
  BY <1>1, StoreStays DEF IInv, Storing
<1> QED
  BY <1>2, <1>3, <1>4 DEF IInv

LEMMA ForkType ==
  ASSUME PassType, PassOK, Reading
  PROVE  /\ At(tip, fork) \in Ancestors[tip] /\ At(tip, fork) \in Blocks
         /\ HeightOf(At(tip, fork)) = fork
<1>1. fork \in 1 .. HeightOf(tip) /\ tip \in Blocks
  BY TipType DEF PassType, PassOK
<1> QED
  BY <1>1, AtType

LEMMA WalkRowM == ASSUME IInv, NEW b \in Blocks, WalkRow(b) PROVE IInv'
<1> USE DEF WalkRow, store, mailbox, link
<1>1. /\ PassType /\ PassOK /\ pc = "walk" /\ pc' = "walk" /\ Reading /\ Reading'
      /\ fork > 0 /\ branch \in Seq(Blocks) /\ Linked(At(tip, fork), branch)
  <2>1. fork > 0 /\ fork \in Nat
    BY TipType DEF IInv, PassOK, PassType, Reading
  <2> QED
    BY <2>1 DEF IInv, PassType, PassOK, BranchOK, Base, Reading
<1>2. branch' \in Seq(Blocks) /\ Linked(At(tip, fork), branch')
  BY <1>1, ForkType, LinkedMore DEF BranchTip
<1>3. PassType' /\ PassOK'
  BY <1>1, <1>2 DEF PassType, PassOK, Reading, Connecting
<1>4. BranchOK'
  <2>1. Base' = At(tip, fork) /\ Linked(Base, branch)'
    BY <1>1, <1>2 DEF Base, Linked
  <2> QED
    BY <1>1, <2>1 DEF BranchOK
<1>5. StoreOK'
  BY <1>1, StoreStays DEF IInv, Storing
<1> QED
  BY <1>3, <1>4, <1>5 DEF IInv

LEMMA JudgeHeavierM == IInv /\ JudgeHeavier => IInv'
<1> SUFFICES ASSUME IInv, JudgeHeavier PROVE IInv'
  OBVIOUS
<1> USE DEF JudgeHeavier, WalkOver, store, mailbox, link
<1>1. /\ PassType /\ PassOK /\ pc = "walk" /\ pc' = "rollback" /\ Reading /\ Reading'
      /\ fork \in 1 .. HeightOf(tip) - 1
  BY DEF IInv, PassOK, Reading
<1>2. PassType' /\ PassOK'
  BY <1>1 DEF PassType, PassOK, Reading, Connecting
<1>3. BranchOK'
  <2>1. Base = Base' /\ fork' = fork /\ branch' = branch
    BY <1>1 DEF Base
  <2> QED
    BY <1>1, <2>1 DEF IInv, BranchOK, Linked
<1>4. StoreOK'
  BY <1>1, StoreStays DEF IInv, Storing
<1> QED
  BY <1>2, <1>3, <1>4 DEF IInv

LEMMA JudgeLighterM == IInv /\ (JudgeLighter \/ JudgeNothing) => IInv'
<1> SUFFICES ASSUME IInv, JudgeLighter \/ JudgeNothing PROVE IInv'
  OBVIOUS
<1> USE DEF JudgeLighter, JudgeNothing, WalkOver, store, mailbox, link
<1>1. /\ pc = "walk" /\ pc' = "end" /\ fork' = 0 /\ branch' = <<>>
      /\ UNCHANGED <<store, tip, row>>
  OBVIOUS
<1>2. PassType' /\ PassOK' /\ BranchOK'
  BY <1>1 DEF IInv, PassType, PassOK, BranchOK, Reading, Connecting
<1>3. StoreOK'
  BY <1>1, StoreStays DEF IInv, Storing
<1> QED
  BY <1>2, <1>3 DEF IInv

-----------------------------------------------------------------------------
(* The store moves with the tip *)

\* The tip goes down to the fork; the store offers the old chain until it is pruned.
LEMMA RollbackM == IInv /\ Rollback => IInv'
<1> SUFFICES ASSUME IInv, Rollback PROVE IInv'
  OBVIOUS
<1> USE DEF Rollback, store, mailbox, link
<1>1. PICK b \in Blocks, f \in Nat \ {0} : StoreIs(b, f)
  BY DEF IInv, StoreOK
<1>2. /\ PassType /\ PassOK /\ pc = "rollback" /\ pc' = "prune" /\ Reading
      /\ ~Reading' /\ ~Connecting /\ ~Connecting'
      /\ fork \in 1 .. HeightOf(tip) - 1 /\ HeightOf(tip) \in Nat \ {0}
  BY TipType DEF IInv, PassOK, Reading, Connecting
<1>3. /\ tip' \in Ancestors[tip] /\ tip' \in Blocks /\ HeightOf(tip') = fork
      /\ fork' = fork /\ branch' = branch
  BY <1>2, ForkType
<1>4. PassType' /\ PassOK'
  BY <1>2, <1>3 DEF PassType, PassOK, Reading, Connecting
<1>5. BranchOK'
  <2>1. Base = Base'
    BY <1>2 DEF Base
  <2> QED
    BY <1>2, <1>3, <2>1 DEF IInv, BranchOK, Linked
<1>6. StoreIs(b, f)'
  BY <1>1, <1>2, <1>3 DEF StoreIs, OffersTo
<1> QED
  BY <1>4, <1>5, <1>6 DEF IInv, StoreOK

\* The headers and the window lose what is above the fork, which may be all of it.
LEMMA PruneServedM == IInv /\ PruneServed => IInv'
<1> SUFFICES ASSUME IInv, PruneServed PROVE IInv'
  OBVIOUS
<1> USE DEF PruneServed, mailbox, link
<1>1. PICK b \in Blocks, f \in Nat \ {0} : StoreIs(b, f)
  BY DEF IInv, StoreOK
<1>2. /\ pc = "prune" /\ pc' = "branch" /\ tip \in Blocks /\ fork = HeightOf(tip)
      /\ UNCHANGED <<tip, row, fork, branch>>
      /\ ~Reading /\ ~Reading' /\ ~Connecting /\ ~Connecting'
  BY DEF IInv, PassType, PassOK, Reading, Connecting
<1>3. PassType' /\ PassOK' /\ BranchOK'
  <2>1. Base = Base'
    BY <1>2 DEF Base
  <2> QED
    BY <1>2, <2>1 DEF IInv, PassType, PassOK, BranchOK, Linked
<1>4. tip \in Ancestors[b]
  BY <1>1, <1>2 DEF StoreIs, OffersTo
<1>5. headers' = RowsOf(tip)
  BY <1>1, <1>2, <1>4, KeptCut, RowsAreKept DEF PruneAbove, StoreIs
<1>6. window' = Kept(tip, f)
  BY <1>1, <1>2, <1>4, KeptCut DEF PruneAbove, StoreIs
<1>7. StoreIs(tip, f)'
  BY <1>2, <1>5, <1>6 DEF StoreIs, OffersTo, RowsOf, Kept
<1> QED
  BY <1>2, <1>3, <1>7 DEF IInv, StoreOK

\* The block on the tip is offered before it can be served.
LEMMA PutHeaderM == IInv /\ PutHeader => IInv'
<1> SUFFICES ASSUME IInv, PutHeader PROVE IInv'
  OBVIOUS
<1> USE DEF PutHeader, mailbox, link
<1>1. PICK b \in Blocks, f \in Nat \ {0} : StoreIs(b, f)
  BY DEF IInv, StoreOK
<1>2. /\ pc = "put" /\ pc' = "window" /\ tip \in Blocks /\ row \in Blocks /\ Parent[row] = tip
      /\ UNCHANGED <<window, tip, row, fork, branch>>
      /\ ~Reading /\ ~Reading' /\ Connecting /\ Connecting'
  BY DEF IInv, PassType, PassOK, Reading, Connecting
<1>3. PassType' /\ PassOK' /\ BranchOK'
  <2>1. Base = Base'
    BY <1>2 DEF Base
  <2> QED
    BY <1>2, <2>1 DEF IInv, PassType, PassOK, BranchOK, Linked
<1>4. headers' = RowsOf(row)
  BY <1>1, <1>2, HeadersPut DEF StoreIs, OffersTo
<1>5. StoreIs(row, f)'
  BY <1>1, <1>2, <1>4 DEF StoreIs, OffersTo, RowsOf, Kept
<1> QED
  BY <1>2, <1>3, <1>5 DEF IInv, StoreOK

\* Its raw block is stored, and the floor rises to Window below it.
LEMMA PutWindowM == IInv /\ PutWindow => IInv'
<1> SUFFICES ASSUME IInv, PutWindow PROVE IInv'
  OBVIOUS
<1> USE DEF PutWindow, mailbox, link
<1>1. PICK b \in Blocks, f \in Nat \ {0} : StoreIs(b, f)
  BY DEF IInv, StoreOK
<1>2. /\ pc = "window" /\ pc' = "save" /\ tip \in Blocks /\ row \in Blocks /\ Parent[row] = tip
      /\ UNCHANGED <<headers, tip, row, fork, branch>>
      /\ ~Reading /\ ~Reading' /\ Connecting /\ Connecting'
  BY DEF IInv, PassType, PassOK, Reading, Connecting
<1>3. PassType' /\ PassOK' /\ BranchOK'
  <2>1. Base = Base'
    BY <1>2 DEF Base
  <2> QED
    BY <1>2, <2>1 DEF IInv, PassType, PassOK, BranchOK, Linked
<1>4. b = row /\ headers = RowsOf(row) /\ window = Kept(tip, f)
  BY <1>1, <1>2 DEF StoreIs, OffersTo
<1>5. PICK g \in Nat \ {0} : window' = Kept(row, g)
  BY <1>2, <1>4, WindowPut
<1>6. StoreIs(row, g)'
  BY <1>2, <1>4, <1>5 DEF StoreIs, OffersTo, RowsOf, Kept
<1> QED
  BY <1>2, <1>3, <1>6 DEF IInv, StoreOK

\* The block becomes the tip.
LEMMA SaveCursorM == IInv /\ SaveCursor => IInv'
<1> SUFFICES ASSUME IInv, SaveCursor PROVE IInv'
  OBVIOUS
<1> USE DEF SaveCursor, store, mailbox, link
<1>1. PICK b \in Blocks, f \in Nat \ {0} : StoreIs(b, f)
  BY DEF IInv, StoreOK
<1>2. /\ pc = "save" /\ pc' = "unstage" /\ tip \in Blocks /\ row \in Blocks /\ Parent[row] = tip
      /\ tip' = row /\ UNCHANGED <<row, fork, branch>>
      /\ ~Reading /\ ~Reading' /\ Connecting /\ ~Connecting'
  BY DEF IInv, PassType, PassOK, Reading, Connecting
<1>3. PassType' /\ PassOK' /\ BranchOK'
  <2>1. Base = Base'
    BY <1>2 DEF Base
  <2> QED
    BY <1>2, <2>1 DEF IInv, PassType, PassOK, BranchOK, Linked
<1>4. b = row
  BY <1>1, <1>2 DEF StoreIs, OffersTo
<1>5. StoreIs(row, f)'
  BY <1>1, <1>2, <1>4 DEF StoreIs, OffersTo, RowsOf, Kept
<1> QED
  BY <1>2, <1>3, <1>5 DEF IInv, StoreOK

-----------------------------------------------------------------------------
(* The theorem *)

LEMMA NextM == IInv /\ [Next]_vars => IInv'
<1> SUFFICES ASSUME IInv, [Next]_vars PROVE IInv'
  OBVIOUS
<1>1. CASE SyncThread
  BY <1>1, StartPassM, FoldRowM, PutHeaderM, PutWindowM, SaveCursorM, UnstagedM, DroppedM,
     ProbeM, NoForkM, WalkRowM, JudgeHeavierM, JudgeLighterM, RollbackM, PruneServedM,
     BranchNextM, EndPassM
  DEF SyncThread
<1>2. CASE UNCHANGED <<store, tip, pass>>
  BY <1>2, AsideM
<1>3. CASE Announce \/ Pull \/ OnInv \/ Receive \/ NewBudget
  BY <1>3, <1>2 DEF Announce, Pull, OnInv, Receive, NewBudget
<1>4. CASE \E b \in Blocks : PeerMoves(b) \/ PeerFalls(b) \/ Stray(b)
  BY <1>4, <1>2 DEF PeerMoves, PeerFalls, PeerAt, Stray
<1>5. CASE Lose \/ Hour
  BY <1>5, <1>2 DEF Lose, Hour
<1>6. CASE UNCHANGED vars
  BY <1>6, <1>2 DEF vars, store, pass
<1> QED
  BY <1>1, <1>3, <1>4, <1>5, <1>6 DEF Next

LEMMA IInvServes == IInv => ServedRun
<1> SUFFICES ASSUME IInv PROVE ServedRun
  OBVIOUS
<1> DEFINE Offered == {h \in Heights : headers[h] # Missing}
           Held == {h \in Heights : window[h] # Missing}
<1>1. PICK b \in Blocks, f \in Nat \ {0} : StoreIs(b, f)
  BY DEF IInv, StoreOK
<1>2. HeightOf(b) \in Nat /\ 1 .. HeightOf(b) \subseteq Heights /\ Heights \subseteq Nat \ {0}
  BY HeightStep, HeightType, HeightsNat
<1>3. \A h \in 1 .. HeightOf(b) : At(b, h) # Missing
  BY AtType, RowsAssumption
<1>4. headers = RowsOf(b)
  BY <1>1 DEF StoreIs
<1>5. Offered = 1 .. HeightOf(b) /\ \A h \in Offered : headers[h] = At(b, h)
  <2>1. \A h \in Heights : headers[h] = IF h <= HeightOf(b) THEN At(b, h) ELSE Missing
    BY <1>4 DEF RowsOf
  <2>2. \A h \in Heights : h <= HeightOf(b) <=> h \in 1 .. HeightOf(b)
    BY <1>2
  <2>3. \A h : h \in Offered <=> h \in 1 .. HeightOf(b)
    BY <1>2, <1>3, <2>1, <2>2
  <2> QED
    BY <2>1, <2>2, <2>3
<1>6. ASSUME NEW h \in Offered, h - 1 \in Offered
      PROVE  Parent[headers[h]] = headers[h - 1]
  BY <1>5, <1>6, AtParent
<1>7. ASSUME pc # "window", NEW k \in Held, NEW h \in Offered, k <= h
      PROVE  window[h] = headers[h]
  <2>1. window = Kept(b, f)
    BY <1>1, <1>7 DEF StoreIs
  <2>2. \A j \in Heights : window[j] = IF f <= j /\ j <= HeightOf(b) THEN At(b, j) ELSE Missing
    BY <2>1 DEF Kept
  <2>3. k \in Heights /\ f <= k
    BY <2>2
  <2> HIDE DEF Held
  <2>4. h \in Heights /\ h \in 1 .. HeightOf(b) /\ headers[h] = At(b, h)
    BY <1>5
  <2>5. f <= h /\ h <= HeightOf(b)
    BY <1>2, <1>7, <2>3, <2>4
  <2> QED
    BY <2>2, <2>4, <2>5
<1> QED
  BY <1>6, <1>7 DEF ServedRun

\* Whatever is staged, read, rolled back, pruned or refused after it in whatever
\* order, the node offers one linked chain, and above a raw block that it holds it
\* can serve all of what it offers.
THEOREM ServedHolds == Spec => []ServedRun
<1>1. Init => IInv
  BY InitM
<1>2. IInv /\ [Next]_vars => IInv'
  BY NextM
<1>3. IInv => ServedRun
  BY IInvServes
<1> QED
  BY <1>1, <1>2, <1>3, PTL DEF Spec
=============================================================================
