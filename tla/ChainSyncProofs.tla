--------------------------- MODULE ChainSyncProofs ---------------------------
(***************************************************************************)
(* Theorems of ChainSync, for every tree of blocks: that a pass stands on   *)
(* the chain its tables hold, and that its state has seen the actions of    *)
(* that chain, whatever reorganisations, crashes and refolds came before.   *)
(***************************************************************************)
EXTENDS ChainSync, BlockTreeProofs

-----------------------------------------------------------------------------
(* Numbers *)

LEMMA NatInduct ==
  ASSUME NEW S \in SUBSET Nat, 0 \in S, \A n \in S : n + 1 \in S
  PROVE  S = Nat
<1>1. ASSUME Nat \ S # {} PROVE FALSE
  <2>1. PICK n \in Nat \ S : \A k \in Nat \ S : n <= k
    BY <1>1, LeastNumber
  <2>2. n - 1 \in S
    BY <2>1
  <2> QED
    BY <2>1, <2>2
<1> QED
  BY <1>1

\* The functions that follow step function F from x0 through the numbers in D.
Runs(D, X, x0, F) ==
  {f \in [D \cup {0} -> X] : f[0] = x0 /\ \A h \in D : f[h] = F[h][f[h - 1]]}

\* A recursion over the numbers up to n has a solution.
LEMMA RunsUpTo ==
  ASSUME NEW X, NEW x0 \in X, NEW F \in [Nat -> [X -> X]], NEW n \in Nat
  PROVE  Runs(1 .. n, X, x0, F) # {}
<1> DEFINE S == {k \in Nat : Runs(1 .. k, X, x0, F) # {}}
<1>1. 0 \in S
  <2> DEFINE f == [h \in (1 .. 0) \cup {0} |-> x0]
  <2>1. f \in [(1 .. 0) \cup {0} -> X] /\ f[0] = x0 /\ 1 .. 0 = {}
    OBVIOUS
  <2>2. f \in Runs(1 .. 0, X, x0, F)
    BY <2>1 DEF Runs
  <2> QED
    BY <2>2
<1>2. ASSUME NEW k \in S PROVE k + 1 \in S
  <2>1. k \in Nat /\ k + 1 \in Nat /\ k \in (1 .. k) \cup {0}
    OBVIOUS
  <2>2. PICK f \in Runs(1 .. k, X, x0, F) : TRUE
    OBVIOUS
  <2>3. /\ f \in [(1 .. k) \cup {0} -> X] /\ f[0] = x0
        /\ \A h \in 1 .. k : f[h] = F[h][f[h - 1]]
    BY <2>2 DEF Runs
  <2> DEFINE D == (1 .. k + 1) \cup {0}
             g == [h \in D |-> IF h = k + 1 THEN F[k + 1][f[k]] ELSE f[h]]
  <2>4. F[k + 1][f[k]] \in X
    BY <2>1, <2>3
  <2>5. g \in [D -> X] /\ g[0] = x0
    BY <2>1, <2>3, <2>4
  <2>6. ASSUME NEW h \in 1 .. k + 1 PROVE g[h] = F[h][g[h - 1]]
    BY <2>1, <2>3
  <2>7. g \in Runs(1 .. k + 1, X, x0, F)
    BY <2>5, <2>6 DEF Runs
  <2> QED
    BY <2>1, <2>7
<1>3. S = Nat
  <2>1. S \in SUBSET Nat
    OBVIOUS
  <2> HIDE DEF S
  <2> QED
    BY <1>1, <1>2, <2>1, NatInduct
<1> QED
  BY <1>3

\* What is at most as high as the tree: the heights of its blocks and 0.
Upto == Heights \cup {0}

LEMMA UptoType ==
  /\ Upto \subseteq Nat /\ 0 \in Upto
  /\ \A h \in Heights : h \in Nat \ {0} /\ h \in Upto /\ h - 1 \in Upto
<1> SUFFICES ASSUME NEW h \in Heights PROVE h \in Nat \ {0} /\ h - 1 \in Upto
  BY DEF Upto
<1>1. h \in Nat \ {0} /\ 1 .. h \subseteq Heights
  BY HeightsAre
<1>2. h = 1 \/ h - 1 \in 1 .. h
  BY <1>1
<1> QED
  BY <1>1, <1>2 DEF Upto

\* A recursion over the heights has a solution.
LEMMA RunsOfHeights ==
  ASSUME NEW X, NEW x0 \in X, NEW F \in [Nat -> [X -> X]]
  PROVE  Runs(Heights, X, x0, F) # {}
<1> DEFINE n == Cardinality(Blocks)
<1>1. n \in Nat
  BY FS_CardinalityType, TreeAssumption
<1>2. Heights \subseteq 1 .. n
  <2> SUFFICES ASSUME NEW b \in Blocks PROVE HeightOf(b) \in 1 .. n
    BY DEF Heights
  <2>1. HeightOf(b) = Cardinality(Ancestors[b]) /\ HeightOf(b) \in Nat \ {0}
    BY TreeAssumption, HeightStep DEF HeightOf
  <2>2. Cardinality(Ancestors[b]) <= n
    BY AncestorsType, FS_Subset, TreeAssumption
  <2> QED
    BY <1>1, <2>1, <2>2
<1> HIDE DEF n
<1>3. PICK f \in Runs(1 .. n, X, x0, F) : TRUE
  BY <1>1, RunsUpTo
<1>4. /\ f \in [(1 .. n) \cup {0} -> X] /\ f[0] = x0
      /\ \A h \in 1 .. n : f[h] = F[h][f[h - 1]]
  BY <1>3 DEF Runs
<1> DEFINE g == [h \in Upto |-> f[h]]
<1>5. Upto \subseteq (1 .. n) \cup {0}
  BY <1>2 DEF Upto
<1>6. g \in [Upto -> X] /\ g[0] = x0
  BY <1>4, <1>5, UptoType
<1>7. ASSUME NEW h \in Heights PROVE g[h] = F[h][g[h - 1]]
  BY <1>2, <1>4, UptoType
<1>8. g \in Runs(Heights, X, x0, F)
  BY <1>6, <1>7 DEF Runs, Upto
<1> QED
  BY <1>8

-----------------------------------------------------------------------------
(* The fold of one name *)

\* What a fold over the median times of table f may come to.
States(f) ==
  [lease : {0} \cup {Median(f, h) + Lease : h \in Heights}, stamp : Upto, at : Upto]

\* A record of the fold.
IsState(s) == s \in [lease : {s.lease}, stamp : {s.stamp}, at : {s.at}]

LEMMA StatesAre ==
  ASSUME NEW f
  PROVE  /\ EmptyState \in States(f)
         /\ \A s \in States(f) : IsState(s)
         /\ \A s \in States(f), h \in Upto : [s EXCEPT !.at = h] \in States(f)
  BY UptoType DEF States, EmptyState, IsState

LEMMA RaisedState ==
  ASSUME NEW s, IsState(s), NEW h
  PROVE  /\ IsState([s EXCEPT !.at = h]) /\ [s EXCEPT !.at = h].at = h
         /\ [s EXCEPT !.at = h].lease = s.lease /\ [s EXCEPT !.at = h].stamp = s.stamp
  BY DEF IsState

LEMMA RaisedTwice ==
  ASSUME NEW s, IsState(s), NEW h, NEW k
  PROVE  [[s EXCEPT !.at = k] EXCEPT !.at = h] = [s EXCEPT !.at = h]
  BY DEF IsState

LEMMA RaisedSame ==
  ASSUME NEW s, IsState(s)
  PROVE  [s EXCEPT !.at = s.at] = s
  BY DEF IsState

LEMMA BegunState ==
  ASSUME NEW s, IsState(s), NEW h, NEW t
  PROVE  /\ IsState(Begun(s, h, t)) /\ Begun(s, h, t).at = h
         /\ \A k : Begun([s EXCEPT !.at = k], h, t) = Begun(s, h, t)
<1>1. IsState(Begun(s, h, t)) /\ Begun(s, h, t).at = h
  <2>1. CASE s.lease # 0 /\ t >= s.lease
    BY <2>1 DEF Begun, IsState
  <2>2. CASE ~(s.lease # 0 /\ t >= s.lease)
    <3>1. Begun(s, h, t) = [s EXCEPT !.at = h]
      BY <2>2 DEF Begun
    <3>2. IsState([s EXCEPT !.at = h]) /\ [s EXCEPT !.at = h].at = h
      BY RaisedState
    <3> QED
      BY <3>1, <3>2
  <2> QED
    BY <2>1, <2>2
<1>2. ASSUME NEW k PROVE Begun([s EXCEPT !.at = k], h, t) = Begun(s, h, t)
  <2>1. [s EXCEPT !.at = k].lease = s.lease
    BY RaisedState
  <2> QED
    BY <2>1, RaisedTwice DEF Begun
<1> QED
  BY <1>1, <1>2

\* A block puts the state at its height, and does not read where it stood.
LEMMA FoldedState ==
  ASSUME NEW s, IsState(s), NEW b, NEW h, NEW t
  PROVE  /\ IsState(Folded(s, b, h, t)) /\ Folded(s, b, h, t).at = h
         /\ \A k : Folded([s EXCEPT !.at = k], b, h, t) = Folded(s, b, h, t)
<1> DEFINE g == Begun(s, h, t)
<1>1. IsState(g) /\ g.at = h
  BY BegunState
<1>2. /\ IsState([g EXCEPT !.lease = t + Lease, !.stamp = h])
      /\ [g EXCEPT !.lease = t + Lease, !.stamp = h].at = h
      /\ IsState([g EXCEPT !.lease = t + Lease])
      /\ [g EXCEPT !.lease = t + Lease].at = h
  <2> HIDE DEF g
  <2> QED
    BY <1>1 DEF IsState
<1>3. \A k : Begun([s EXCEPT !.at = k], h, t) = g
  BY BegunState
<1>4. ASSUME NEW k PROVE Folded([s EXCEPT !.at = k], b, h, t) = Folded(s, b, h, t)
  <2> DEFINE q == [s EXCEPT !.at = k]
  <2>1. Begun(q, h, t) = Begun(s, h, t)
    BY <1>3
  <2> HIDE DEF q
  <2>2. Folded(q, b, h, t) = Folded(s, b, h, t)
    BY <2>1 DEF Folded
  <2> QED
    BY <2>2 DEF q
<1> HIDE DEF g
<1>5. IsState(Folded(s, b, h, t)) /\ Folded(s, b, h, t).at = h
  BY <1>1, <1>2 DEF Folded, g
<1> QED
  BY <1>4, <1>5

LEMMA FoldedType ==
  ASSUME NEW f, NEW s \in States(f), NEW b, NEW h \in Heights
  PROVE  Folded(s, b, h, Median(f, h)) \in States(f)
<1> DEFINE t == Median(f, h)
           g == Begun(s, h, t)
<1>1. h \in Upto /\ 0 \in Upto
  BY UptoType
<1>2. g \in States(f)
  BY <1>1, StatesAre DEF Begun, States
<1>3. t + Lease \in {0} \cup {Median(f, k) + Lease : k \in Heights}
  OBVIOUS
<1> HIDE DEF g, t
<1>4. /\ [g EXCEPT !.lease = t + Lease, !.stamp = h] \in States(f)
      /\ [g EXCEPT !.lease = t + Lease] \in States(f)
  BY <1>1, <1>2, <1>3 DEF States
<1> QED
  BY <1>2, <1>4 DEF Folded, g, t

LEMMA HeightInduct ==
  ASSUME NEW S \in SUBSET Upto, 0 \in S, \A h \in Heights : h - 1 \in S => h \in S
  PROVE  S = Upto
<1> DEFINE T == {n \in Nat : n \in Upto => n \in S}
<1>1. 0 \in T
  OBVIOUS
<1>2. ASSUME NEW n \in T PROVE n + 1 \in T
  <2>1. n \in Nat /\ n + 1 \in Nat /\ (n + 1) - 1 = n
    OBVIOUS
  <2> SUFFICES ASSUME n + 1 \in Upto PROVE n + 1 \in S
    BY <2>1
  <2>2. n + 1 \in Heights
    BY <2>1 DEF Upto
  <2>3. n \in Upto
    BY <2>1, <2>2, UptoType
  <2> QED
    BY <2>1, <2>2, <2>3
<1>3. T = Nat
  <2>1. T \in SUBSET Nat
    OBVIOUS
  <2> HIDE DEF T
  <2> QED
    BY <1>1, <1>2, <2>1, NatInduct
<1> QED
  BY <1>3, UptoType

\* The equation of Replay, block by block as the code replays its rows.
LEMMA ReplayStep ==
  ASSUME NEW table, NEW f
  PROVE  /\ Replay(table, f)[0] = EmptyState
         /\ \A h \in Heights :
              Replay(table, f)[h] =
                IF table[h] = Missing THEN Replay(table, f)[h - 1]
                ELSE Connected(Replay(table, f)[h - 1], f, table[h], h)
<1> DEFINE Solves(run) ==
      run = [h \in Heights \cup {0} |->
               IF h = 0 THEN EmptyState
               ELSE IF table[h] = Missing THEN run[h - 1]
               ELSE Connected(run[h - 1], f, table[h], h)]
           X == States(f)
           F == [h \in Nat |-> [s \in X |->
                   IF h \notin Heights \/ table[h] = Missing THEN s
                   ELSE Connected(s, f, table[h], h)]]
<1>1. EmptyState \in X
  BY StatesAre
<1>2. F \in [Nat -> [X -> X]]
  BY FoldedType DEF Connected
<1>3. PICK r \in Runs(Heights, X, EmptyState, F) : TRUE
  <2> HIDE DEF F, X
  <2> QED
    BY <1>1, <1>2, RunsOfHeights
<1>4. /\ r \in [Upto -> X] /\ r[0] = EmptyState
      /\ \A h \in Heights : r[h] = F[h][r[h - 1]]
  BY <1>3 DEF Runs, Upto
<1>5. ASSUME NEW h \in Heights
      PROVE  r[h] = IF table[h] = Missing THEN r[h - 1]
                    ELSE Connected(r[h - 1], f, table[h], h)
  <2>1. h \in Nat /\ r[h - 1] \in X
    BY <1>4, UptoType
  <2> QED
    BY <1>4, <2>1
<1>6. Solves(r)
  BY <1>4, <1>5, UptoType DEF Upto
<1>7. Replay(table, f) = CHOOSE run : Solves(run)
  BY DEF Replay
<1>8. Solves(Replay(table, f))
  <2> HIDE DEF Solves
  <2> QED
    BY <1>6, <1>7
<1> QED
  BY <1>8, UptoType DEF Upto

LEMMA ReplayType ==
  ASSUME NEW table, NEW f, NEW h \in Upto
  PROVE  Replay(table, f)[h] \in States(f)
<1> DEFINE S == {k \in Upto : Replay(table, f)[k] \in States(f)}
<1>1. 0 \in S
  BY ReplayStep, StatesAre, UptoType
<1>2. ASSUME NEW k \in Heights, k - 1 \in S PROVE k \in S
  <2>1. Replay(table, f)[k - 1] \in States(f)
    BY <1>2
  <2>2. Connected(Replay(table, f)[k - 1], f, table[k], k) \in States(f)
    BY <2>1, FoldedType DEF Connected
  <2> QED
    BY <2>1, <2>2, ReplayStep, UptoType
<1>3. S = Upto
  <2>1. S \in SUBSET Upto
    OBVIOUS
  <2> HIDE DEF S
  <2> QED
    BY <1>1, <1>2, <2>1, HeightInduct
<1> QED
  BY <1>3

-----------------------------------------------------------------------------
(* The fold of a chain *)

\* A median reads the rows below its height only.
LEMMA MedianReads ==
  ASSUME NEW t, NEW u, NEW h, DOMAIN t = DOMAIN u,
         \A k \in DOMAIN t : k < h => t[k] = u[k]
  PROVE  Median(t, h) = Median(u, h)
<1> DEFINE W == Window(t, h)
           n == Cardinality(W)
           BelowT(v) == {k \in W : Time[t[k]] < v}
           UpToT(v) == {k \in W : Time[t[k]] <= v}
           BelowU(v) == {k \in W : Time[u[k]] < v}
           UpToU(v) == {k \in W : Time[u[k]] <= v}
           MiddleT(v) == Cardinality(BelowT(v)) <= n \div 2 /\ n \div 2 < Cardinality(UpToT(v))
           MiddleU(v) == Cardinality(BelowU(v)) <= n \div 2 /\ n \div 2 < Cardinality(UpToU(v))
           VT == {Time[t[k]] : k \in W}
           VU == {Time[u[k]] : k \in W}
<1>1. Window(u, h) = W
  <2>1. {k \in DOMAIN t : k < h /\ t[k] # Missing} = {k \in DOMAIN u : k < h /\ u[k] # Missing}
    OBVIOUS
  <2> QED
    BY <2>1 DEF Window
<1>2. \A k \in W : t[k] = u[k]
  BY DEF Window
<1>3. \A v : BelowT(v) = BelowU(v) /\ UpToT(v) = UpToU(v)
  BY <1>2
<1>4. VT = VU
  BY <1>2
<1> DEFINE CT == CHOOSE v \in VT : MiddleT(v)
           CU == CHOOSE v \in VU : MiddleU(v)
<1>5. Median(t, h) = IF W = {} THEN 0 ELSE CT
  BY DEF Median
<1>6. Median(u, h) = IF W = {} THEN 0 ELSE CU
  BY <1>1 DEF Median
<1>7. \A v : MiddleT(v) <=> MiddleU(v)
  BY <1>3
<1>8. CT = CU
  <2> HIDE DEF MiddleT, MiddleU, VT, VU
  <2> QED
    BY <1>4, <1>7
<1> HIDE DEF CT, CU, W
<1> QED
  BY <1>5, <1>6, <1>8

\* Chain is the checkpoint's or a block's.
Tips == Blocks \cup {Start}

LEMMA TipsHeight ==
  ASSUME NEW b \in Tips
  PROVE  HeightOf(b) \in Upto /\ HeightOf(b) \in Nat
  BY HeightType, HeightOfStart, UptoType DEF Tips, Upto

\* The folds by height of which FoldAt takes the last.
FoldRun(b, S) ==
  CHOOSE run : run = [h \in Heights \cup {0} |->
    IF h = 0 THEN EmptyState
    ELSE IF h \notin S THEN [run[h - 1] EXCEPT !.at = h]
    ELSE Folded(run[h - 1], At(b, h), h, Median(ChainOf(b), h))]

LEMMA FoldAtRun ==
  ASSUME NEW b, NEW S
  PROVE  FoldAt(b, S) = FoldRun(b, S)[HeightOf(b)]
  BY DEF FoldAt, FoldRun

LEMMA FoldRunStep ==
  ASSUME NEW b, NEW S
  PROVE  /\ FoldRun(b, S)[0] = EmptyState
         /\ \A h \in Heights :
              FoldRun(b, S)[h] =
                IF h \notin S THEN [FoldRun(b, S)[h - 1] EXCEPT !.at = h]
                ELSE Folded(FoldRun(b, S)[h - 1], At(b, h), h, Median(ChainOf(b), h))
<1> DEFINE Solves(run) ==
      run = [h \in Heights \cup {0} |->
               IF h = 0 THEN EmptyState
               ELSE IF h \notin S THEN [run[h - 1] EXCEPT !.at = h]
               ELSE Folded(run[h - 1], At(b, h), h, Median(ChainOf(b), h))]
           f == ChainOf(b)
           X == States(f)
           F == [h \in Nat |-> [s \in X |->
                   IF h \notin Heights THEN s
                   ELSE IF h \notin S THEN [s EXCEPT !.at = h]
                   ELSE Folded(s, At(b, h), h, Median(f, h))]]
<1>1. EmptyState \in X
  BY StatesAre
<1>2. F \in [Nat -> [X -> X]]
  <2>1. \A h \in Heights, s \in X : [s EXCEPT !.at = h] \in X
    BY StatesAre, UptoType
  <2>2. \A h \in Heights, s \in X : Folded(s, At(b, h), h, Median(f, h)) \in X
    BY FoldedType
  <2> HIDE DEF X, f
  <2> QED
    BY <2>1, <2>2
<1>3. PICK r \in Runs(Heights, X, EmptyState, F) : TRUE
  <2> HIDE DEF F, X
  <2> QED
    BY <1>1, <1>2, RunsOfHeights
<1>4. /\ r \in [Upto -> X] /\ r[0] = EmptyState
      /\ \A h \in Heights : r[h] = F[h][r[h - 1]]
  BY <1>3 DEF Runs, Upto
<1>5. ASSUME NEW h \in Heights
      PROVE  r[h] = IF h \notin S THEN [r[h - 1] EXCEPT !.at = h]
                    ELSE Folded(r[h - 1], At(b, h), h, Median(f, h))
  <2>1. h \in Nat /\ r[h - 1] \in X
    BY <1>4, UptoType
  <2> HIDE DEF X, f
  <2> QED
    BY <1>4, <2>1
<1>6. Solves(r)
  BY <1>4, <1>5, UptoType DEF Upto
<1>7. FoldRun(b, S) = CHOOSE run : Solves(run)
  BY DEF FoldRun
<1>8. Solves(FoldRun(b, S))
  <2> HIDE DEF Solves
  <2> QED
    BY <1>6, <1>7
<1> QED
  BY <1>8, UptoType DEF Upto

LEMMA FoldRunType ==
  ASSUME NEW b, NEW S, NEW h \in Upto
  PROVE  IsState(FoldRun(b, S)[h]) /\ FoldRun(b, S)[h].at = h
<1> DEFINE T == {k \in Upto : IsState(FoldRun(b, S)[k]) /\ FoldRun(b, S)[k].at = k}
<1>1. 0 \in T
  BY FoldRunStep, UptoType DEF EmptyState, IsState
<1>2. ASSUME NEW k \in Heights, k - 1 \in T PROVE k \in T
  <2>1. IsState(FoldRun(b, S)[k - 1])
    BY <1>2
  <2>2. CASE k \notin S
    <3>1. FoldRun(b, S)[k] = [FoldRun(b, S)[k - 1] EXCEPT !.at = k]
      BY <2>2, FoldRunStep
    <3>2. /\ IsState([FoldRun(b, S)[k - 1] EXCEPT !.at = k])
          /\ [FoldRun(b, S)[k - 1] EXCEPT !.at = k].at = k
      BY <2>1, RaisedState
    <3> QED
      BY <3>1, <3>2, UptoType
  <2>3. CASE k \in S
    <3> DEFINE q == Folded(FoldRun(b, S)[k - 1], At(b, k), k, Median(ChainOf(b), k))
    <3>1. FoldRun(b, S)[k] = q
      BY <2>3, FoldRunStep
    <3>2. IsState(q) /\ q.at = k
      BY <2>1, FoldedState
    <3> QED
      BY <3>1, <3>2, UptoType
  <2> QED
    BY <2>2, <2>3
<1>3. T = Upto
  <2>1. T \in SUBSET Upto
    OBVIOUS
  <2> HIDE DEF T
  <2> QED
    BY <1>1, <1>2, <2>1, HeightInduct
<1> QED
  BY <1>3

LEMMA FoldAtType ==
  ASSUME NEW b \in Tips, NEW S
  PROVE  IsState(FoldAt(b, S)) /\ FoldAt(b, S).at = HeightOf(b)
  BY TipsHeight, FoldRunType, FoldAtRun

LEMMA FoldAtStart ==
  ASSUME NEW S
  PROVE  FoldAt(Start, S) = EmptyState
  BY FoldAtRun, FoldRunStep, HeightOfStart

LEMMA ChainOfRow ==
  ASSUME NEW b, NEW h \in Heights
  PROVE  /\ DOMAIN ChainOf(b) = Heights
         /\ h <= HeightOf(b) => ChainOf(b)[h] = At(b, h)
  BY DEF ChainOf

\* Below its top, the chain of a block is its parent's.
LEMMA FoldRunBelow ==
  ASSUME NEW b \in Blocks, NEW S, NEW h \in Upto, h <= HeightOf(Parent[b])
  PROVE  FoldRun(b, S)[h] = FoldRun(Parent[b], S)[h]
<1> DEFINE p == Parent[b]
           T == {k \in Upto : k <= HeightOf(p) => FoldRun(b, S)[k] = FoldRun(p, S)[k]}
<1>1. HeightOf(p) \in Nat /\ HeightOf(b) = HeightOf(p) + 1 /\ HeightOf(b) \in Nat
  BY HeightStep
<1>2. \A k \in Heights : k <= HeightOf(p) =>
        k \in Nat /\ k <= HeightOf(b) /\ At(b, k) = At(p, k)
  <2> SUFFICES ASSUME NEW k \in Heights, k <= HeightOf(p)
               PROVE  k \in Nat /\ k <= HeightOf(b) /\ At(b, k) = At(p, k)
    OBVIOUS
  <2>1. k \in Nat \ {0}
    BY UptoType
  <2>2. k \in 1 .. HeightOf(b) /\ k # HeightOf(b)
    BY <1>1, <2>1
  <2> QED
    BY <2>1, <2>2, AtStep
<1>3. 0 \in T
  BY FoldRunStep, UptoType
<1>4. ASSUME NEW k \in Heights, k - 1 \in T PROVE k \in T
  <2> SUFFICES ASSUME k <= HeightOf(p) PROVE FoldRun(b, S)[k] = FoldRun(p, S)[k]
    BY UptoType
  <2>1. k \in Nat \ {0} /\ k - 1 <= HeightOf(p)
    BY <1>1, UptoType
  <2>2. FoldRun(b, S)[k - 1] = FoldRun(p, S)[k - 1]
    BY <1>4, <2>1
  <2>3. At(b, k) = At(p, k)
    BY <1>2
  <2>4. Median(ChainOf(b), k) = Median(ChainOf(p), k)
    <3> DEFINE t == ChainOf(b)
               u == ChainOf(p)
    <3>1. DOMAIN t = Heights /\ DOMAIN u = Heights
      BY DEF ChainOf
    <3>2. ASSUME NEW j \in Heights, j < k PROVE t[j] = u[j]
      <4>1. j \in Nat /\ j <= HeightOf(p) /\ j <= HeightOf(b)
        BY <1>1, <2>1, <3>2, UptoType
      <4> QED
        BY <1>2, <4>1, ChainOfRow
    <3> HIDE DEF t, u
    <3>3. Median(t, k) = Median(u, k)
      BY <3>1, <3>2, MedianReads
    <3> QED
      BY <3>3 DEF t, u
  <2>5. FoldRun(b, S)[k] =
          IF k \notin S THEN [FoldRun(b, S)[k - 1] EXCEPT !.at = k]
          ELSE Folded(FoldRun(b, S)[k - 1], At(b, k), k, Median(ChainOf(b), k))
    BY FoldRunStep
  <2>6. FoldRun(p, S)[k] =
          IF k \notin S THEN [FoldRun(p, S)[k - 1] EXCEPT !.at = k]
          ELSE Folded(FoldRun(p, S)[k - 1], At(p, k), k, Median(ChainOf(p), k))
    BY FoldRunStep
  <2> HIDE DEF p
  <2> QED
    BY <2>2, <2>3, <2>4, <2>5, <2>6
<1>5. T = Upto
  <2>1. T \in SUBSET Upto
    OBVIOUS
  <2> HIDE DEF T
  <2> QED
    BY <1>3, <1>4, <2>1, HeightInduct
<1> QED
  BY <1>5

\* The fold of a chain is its parent's, and the block on top.
LEMMA FoldAtStep ==
  ASSUME NEW b \in Blocks, NEW S
  PROVE  FoldAt(b, S) =
           IF HeightOf(b) \notin S THEN [FoldAt(Parent[b], S) EXCEPT !.at = HeightOf(b)]
           ELSE Folded(FoldAt(Parent[b], S), b, HeightOf(b), Median(ChainOf(b), HeightOf(b)))
<1> DEFINE h == HeightOf(b)
           p == Parent[b]
<1>1. h \in Heights /\ p \in Tips /\ HeightOf(p) \in Nat /\ h = HeightOf(p) + 1
  BY HeightStep, HeightType, ParentType DEF Tips
<1>2. h - 1 = HeightOf(p) /\ HeightOf(p) \in Upto
  BY <1>1, TipsHeight
<1>3. FoldRun(b, S)[h - 1] = FoldAt(p, S)
  BY <1>1, <1>2, FoldRunBelow, FoldAtRun
<1>4. At(b, h) = b
  BY AtTop
<1>5. FoldRun(b, S)[h] =
        IF h \notin S THEN [FoldRun(b, S)[h - 1] EXCEPT !.at = h]
        ELSE Folded(FoldRun(b, S)[h - 1], At(b, h), h, Median(ChainOf(b), h))
  BY <1>1, FoldRunStep
<1> QED
  BY <1>3, <1>4, <1>5, FoldAtRun

\* A fold reads of S the heights of its chain only.
LEMMA FoldAtReads ==
  ASSUME NEW b \in Tips, NEW S, NEW T,
         \A h \in 1 .. HeightOf(b) : h \in S <=> h \in T
  PROVE  FoldAt(b, S) = FoldAt(b, T)
<1> DEFINE Same(c) == (\A h \in 1 .. HeightOf(c) : h \in S <=> h \in T)
                        => FoldAt(c, S) = FoldAt(c, T)
           R == {c \in Blocks : Same(c)}
<1>1. Same(Start)
  BY FoldAtStart
<1>2. ASSUME NEW c \in Blocks, Same(Parent[c]),
             \A h \in 1 .. HeightOf(c) : h \in S <=> h \in T
      PROVE  FoldAt(c, S) = FoldAt(c, T)
  <2>1. /\ HeightOf(c) \in Nat \ {0} /\ HeightOf(Parent[c]) \in Nat
        /\ HeightOf(c) = HeightOf(Parent[c]) + 1
    BY HeightStep
  <2>2. HeightOf(c) \in 1 .. HeightOf(c) /\ 1 .. HeightOf(Parent[c]) \subseteq 1 .. HeightOf(c)
    BY <2>1
  <2>3. FoldAt(Parent[c], S) = FoldAt(Parent[c], T) /\ (HeightOf(c) \in S <=> HeightOf(c) \in T)
    BY <1>2, <2>2
  <2> QED
    BY <2>3, FoldAtStep
<1>3. \A c \in Blocks : Parent[c] = Start \/ Parent[c] \in R => c \in R
  BY <1>1, <1>2
<1>4. R = Blocks
  <2>1. R \in SUBSET Blocks
    OBVIOUS
  <2> HIDE DEF R
  <2> QED
    BY <1>3, <2>1, TreeInduction
<1>5. Same(b)
  BY <1>1, <1>4 DEF Tips
<1> QED
  BY <1>5

\* The rows of a table up to the height of b hold its chain, and of another its
\* blocks with an action only.
Holds(table, b) == \A h \in 1 .. HeightOf(b) : table[h] = At(b, h)

HoldsCarriers(table, b) ==
  \A h \in 1 .. HeightOf(b) :
    table[h] = IF At(b, h) \in Carriers THEN At(b, h) ELSE Missing

\* The heights at which a table has a row.
RowsAt(table) == {h \in Heights : table[h] # Missing}

LEMMA HoldsParent ==
  ASSUME NEW b \in Blocks, NEW table
  PROVE  /\ Holds(table, b) => Holds(table, Parent[b]) /\ table[HeightOf(b)] = b
         /\ HoldsCarriers(table, b) =>
              /\ HoldsCarriers(table, Parent[b])
              /\ table[HeightOf(b)] = IF b \in Carriers THEN b ELSE Missing
<1>1. /\ HeightOf(b) \in Nat \ {0} /\ HeightOf(Parent[b]) \in Nat
      /\ HeightOf(b) = HeightOf(Parent[b]) + 1
  BY HeightStep
<1>2. HeightOf(b) \in 1 .. HeightOf(b) /\ At(b, HeightOf(b)) = b
  BY <1>1, AtTop
<1>3. ASSUME NEW h \in 1 .. HeightOf(Parent[b])
      PROVE  h \in 1 .. HeightOf(b) /\ At(b, h) = At(Parent[b], h)
  <2>1. h \in 1 .. HeightOf(b) /\ h # HeightOf(b)
    BY <1>1
  <2> QED
    BY <2>1, AtStep
<1> QED
  BY <1>2, <1>3 DEF Holds, HoldsCarriers

\* Below its top, the median times of a chain are those of a table that holds it.
LEMMA MedianOfChain ==
  ASSUME NEW b \in Blocks, NEW p \in Tips, p = Parent[b],
         NEW f, DOMAIN f = Heights, Holds(f, p)
  PROVE  Median(f, HeightOf(b)) = Median(ChainOf(b), HeightOf(b))
<1> DEFINE h == HeightOf(b)
           u == ChainOf(b)
<1>1. h \in Nat \ {0} /\ HeightOf(p) \in Nat /\ h = HeightOf(p) + 1
  BY HeightStep
<1>2. ASSUME NEW k \in Heights, k < h PROVE f[k] = u[k]
  <2>1. k \in 1 .. HeightOf(p) /\ k \in 1 .. HeightOf(b) /\ k # HeightOf(b) /\ k <= HeightOf(b)
    BY <1>1, <1>2, UptoType
  <2>2. f[k] = At(p, k) /\ At(p, k) = At(b, k)
    BY <2>1, AtStep DEF Holds
  <2> QED
    BY <2>1, <2>2, ChainOfRow
<1>3. DOMAIN u = Heights
  BY DEF ChainOf
<1> HIDE DEF u, h
<1>4. Median(f, h) = Median(u, h)
  BY <1>2, <1>3, MedianReads
<1> QED
  BY <1>4 DEF u, h

\* A replay of the blocks with an action is the fold of them, once it stands at
\* the height of the chain.
LEMMA ReplayIsFold ==
  ASSUME NEW b \in Tips, NEW table, NEW f, DOMAIN f = Heights,
         HoldsCarriers(table, b), Holds(f, b)
  PROVE  [Replay(table, f)[HeightOf(b)] EXCEPT !.at = HeightOf(b)] = FoldAt(b, RowsAt(table))
<1> DEFINE S == RowsAt(table)
           R(h) == Replay(table, f)[h]
           Same(c) == HoldsCarriers(table, c) /\ Holds(f, c)
                        => [R(HeightOf(c)) EXCEPT !.at = HeightOf(c)] = FoldAt(c, S)
           T == {c \in Blocks : Same(c)}
<1>1. Same(Start)
  <2>1. [EmptyState EXCEPT !.at = 0] = EmptyState
    BY DEF EmptyState
  <2> QED
    BY <2>1, ReplayStep, FoldAtStart, HeightOfStart
<1>2. ASSUME NEW c \in Blocks, Same(Parent[c]), HoldsCarriers(table, c), Holds(f, c)
      PROVE  [R(HeightOf(c)) EXCEPT !.at = HeightOf(c)] = FoldAt(c, S)
  <2> DEFINE p == Parent[c]
             h == HeightOf(c)
             k == HeightOf(p)
             s == R(k)
             q == FoldAt(p, S)
             t == Median(f, h)
  <2>1. p \in Tips /\ h \in Heights /\ h \in Nat \ {0} /\ k \in Nat /\ h = k + 1
    BY HeightStep, HeightType, ParentType DEF Tips
  <2>2. HoldsCarriers(table, p) /\ Holds(f, p)
    BY <1>2, HoldsParent
  <2>3. table[h] = (IF c \in Carriers THEN c ELSE Missing) /\ c # Missing
    BY <1>2, HoldsParent, RowsAssumption
  <2>4. [s EXCEPT !.at = k] = q
    BY <1>2, <2>2
  <2>5. t = Median(ChainOf(c), h)
    BY <2>1, <2>2, MedianOfChain
  <2>6. IsState(s) /\ k \in Upto
    BY <2>1, TipsHeight, ReplayType, StatesAre
  <2>7. h - 1 = k
    BY <2>1
  <2>8. h \in S <=> c \in Carriers
    BY <2>1, <2>3 DEF RowsAt
  <2>9. CASE c \in Carriers
    <3>1. R(h) = Folded(s, c, h, t)
      BY <2>1, <2>3, <2>7, <2>9, ReplayStep DEF Connected
    <3>2. Folded(q, c, h, t) = Folded(s, c, h, t)
      BY <2>4, <2>6, FoldedState
    <3>3. FoldAt(c, S) = Folded(q, c, h, t)
      BY <2>5, <2>8, <2>9, FoldAtStep
    <3>4. IsState(Folded(s, c, h, t)) /\ Folded(s, c, h, t).at = h
      BY <2>6, FoldedState
    <3>5. [Folded(s, c, h, t) EXCEPT !.at = h] = Folded(s, c, h, t)
      BY <3>4, RaisedSame
    <3> QED
      BY <3>1, <3>2, <3>3, <3>5
  <2>10. CASE c \notin Carriers
    <3>1. R(h) = s
      BY <2>1, <2>3, <2>7, <2>10, ReplayStep
    <3>2. FoldAt(c, S) = [q EXCEPT !.at = h]
      BY <2>8, <2>10, FoldAtStep
    <3>3. [[s EXCEPT !.at = k] EXCEPT !.at = h] = [s EXCEPT !.at = h]
      BY <2>6, RaisedTwice
    <3> QED
      BY <2>4, <3>1, <3>2, <3>3
  <2> QED
    BY <2>9, <2>10
<1>3. \A c \in Blocks : Parent[c] = Start \/ Parent[c] \in T => c \in T
  BY <1>1, <1>2
<1>4. T = Blocks
  <2>1. T \in SUBSET Blocks
    OBVIOUS
  <2> HIDE DEF T
  <2> QED
    BY <1>3, <2>1, TreeInduction
<1>5. Same(b)
  BY <1>1, <1>4 DEF Tips
<1> QED
  BY <1>5

-----------------------------------------------------------------------------
(* Tables that hold a chain *)

\* The block at height h of the chain of b, or the checkpoint below them all.
Below(b, h) == IF h = 0 THEN Start ELSE At(b, h)

LEMMA BelowType ==
  ASSUME NEW b \in Tips, NEW h \in 0 .. HeightOf(b)
  PROVE  /\ Below(b, h) \in Tips /\ HeightOf(Below(b, h)) = h
         /\ \A k \in 1 .. h : k \in 1 .. HeightOf(b) /\ At(Below(b, h), k) = At(b, k)
<1>1. HeightOf(b) \in Nat
  BY TipsHeight
<1>2. CASE h = 0
  BY <1>2, HeightOfStart DEF Below, Tips
<1>3. CASE h # 0
  <2>1. h \in 1 .. HeightOf(b) /\ b \in Blocks
    BY <1>1, <1>3, HeightOfStart DEF Tips
  <2>2. At(b, h) \in Ancestors[b] /\ At(b, h) \in Blocks /\ HeightOf(At(b, h)) = h
    BY <2>1, AtType
  <2>3. \A k \in 1 .. h : k \in 1 .. HeightOf(b) /\ At(At(b, h), k) = At(b, k)
    BY <1>1, <2>1, <2>2, AtBelow
  <2> QED
    BY <1>3, <2>2, <2>3 DEF Below, Tips
<1> QED
  BY <1>2, <1>3

\* The chain below the height of the parent is the parent's.
LEMMA BelowParent ==
  ASSUME NEW b \in Blocks, NEW h \in 0 .. HeightOf(Parent[b])
  PROVE  Below(b, h) = Below(Parent[b], h)
<1>1. HeightOf(b) = HeightOf(Parent[b]) + 1 /\ HeightOf(Parent[b]) \in Nat
  BY HeightStep
<1>2. h # 0 => h \in 1 .. HeightOf(b) /\ h # HeightOf(b)
  BY <1>1
<1> QED
  BY <1>2, AtStep DEF Below

LEMMA BelowTop ==
  ASSUME NEW b \in Tips
  PROVE  Below(b, HeightOf(b)) = b
  BY AtTop, HeightOfStart, HeightStep DEF Below, Tips

LEMMA BelowAncestor ==
  ASSUME NEW b \in Blocks, NEW a \in Ancestors[b]
  PROVE  Below(b, HeightOf(a)) = a
  BY AtOfAncestor, AncestorIsLower DEF Below

LEMMA HoldsBelow ==
  ASSUME NEW b \in Tips, NEW h \in 0 .. HeightOf(b), NEW table
  PROVE  /\ Holds(table, Below(b, h)) <=> \A k \in 1 .. h : table[k] = At(b, k)
         /\ Holds(table, b) => Holds(table, Below(b, h))
         /\ HoldsCarriers(table, b) => HoldsCarriers(table, Below(b, h))
  BY BelowType DEF Holds, HoldsCarriers

LEMMA HoldsAncestor ==
  ASSUME NEW b \in Blocks, NEW a \in Ancestors[b], NEW table
  PROVE  /\ Holds(table, b) => Holds(table, a)
         /\ HoldsCarriers(table, b) => HoldsCarriers(table, a)
<1>1. HeightOf(a) \in 0 .. HeightOf(b) /\ b \in Tips
  BY AtOfAncestor DEF Tips
<1> QED
  BY <1>1, BelowAncestor, HoldsBelow

LEMMA HeightsOfTip ==
  ASSUME NEW b \in Tips
  PROVE  1 .. HeightOf(b) \subseteq Heights /\ HeightOf(b) \in Nat
  BY HeightType, HeightOfStart, TipsHeight DEF Tips

\* What a block adds.
LEMMA HoldsPut ==
  ASSUME NEW b \in Blocks, NEW table \in Table, Holds(table, Parent[b])
  PROVE  /\ [table EXCEPT ![HeightOf(b)] = b] \in Table
         /\ Holds([table EXCEPT ![HeightOf(b)] = b], b)
<1> DEFINE t == [table EXCEPT ![HeightOf(b)] = b]
<1>1. HeightOf(b) \in Heights /\ 1 .. HeightOf(b) \subseteq Heights
  BY HeightType
<1>2. t \in Table
  BY <1>1 DEF Table
<1>3. ASSUME NEW h \in 1 .. HeightOf(b) PROVE t[h] = At(b, h)
  <2>1. t[h] = IF h = HeightOf(b) THEN b ELSE table[h]
    BY <1>1 DEF Table
  <2> QED
    BY <2>1, AtStep DEF Holds
<1> QED
  BY <1>2, <1>3 DEF Holds

\* A cut leaves the chain below it.
LEMMA HoldsCut ==
  ASSUME NEW b \in Tips, NEW table \in Table, NEW h \in Nat, HeightOf(b) <= h
  PROVE  /\ Cut(table, h) \in Table
         /\ Holds(table, b) => Holds(Cut(table, h), b)
         /\ HoldsCarriers(table, b) => HoldsCarriers(Cut(table, h), b)
         /\ \A k \in Heights : k > h => Cut(table, h)[k] = Missing
<1>1. Cut(table, h) \in Table
  BY DEF Cut, Table
<1>2. \A k \in 1 .. HeightOf(b) : Cut(table, h)[k] = table[k]
  <2>1. \A k \in 1 .. HeightOf(b) : k \in Heights /\ k <= h /\ k \in Nat
    BY HeightsOfTip
  <2> QED
    BY <2>1 DEF Cut
<1>3. \A k \in Heights : k > h => Cut(table, h)[k] = Missing
  BY DEF Cut
<1> QED
  BY <1>1, <1>2, <1>3 DEF Holds, HoldsCarriers

LEMMA MissingIsNone == \A b \in Blocks : b # Missing
  BY RowsAssumption

-----------------------------------------------------------------------------
(* The invariant of the tables and of the cursor *)

Connecting == {"put", "raw", "save"}
RollingBack == {"prune", "pruneRaw", "replay", "reset"}

\* The block that the memory of a pass stands on.
Stand ==
  IF pc \in Connecting THEN block
  ELSE IF pc = "reset" THEN Parent[block]
  ELSE tip

\* The block that the next pass resumes from.
ResumeTip == Below(cursor.tip, ResumeHeight)

\* The block up to which the blocks table holds the chain.
RowsTip ==
  IF pc \in {"pruneRaw", "replay", "reset"} THEN Parent[block]
  ELSE IF pc \in {"raw", "save"} THEN block
  ELSE IF pc = "down" THEN ResumeTip
  ELSE tip

Typed ==
  /\ blocks \in Table /\ raws \in Table /\ feed \in Table
  /\ cursor \in [height : Upto, tip : Tips]
  /\ proj.height \in Upto \cup {-1} /\ IsState(proj.state)
  /\ pc \in {"down", "idle"} \cup Connecting \cup RollingBack

CursorOK ==
  /\ cursor.height = HeightOf(cursor.tip)
  /\ pc # "down" => height = cursor.height /\ tip = cursor.tip

BlockOK ==
  /\ pc \in Connecting => block \in Blocks /\ Parent[block] = tip
  /\ pc \in RollingBack =>
       /\ Reorgs
       /\ tip \in Blocks /\ block \in Blocks
       /\ Parent[block] \in Ancestors[tip] /\ fork = HeightOf(Parent[block]) /\ fork < height
  /\ pc = "reset" => proj.height = fork

MemoryOK ==
  pc # "down" => /\ Holds(feed, Stand)
                 /\ IsState(state) /\ state.at = HeightOf(Stand)

CInv == Typed /\ CursorOK /\ BlockOK /\ MemoryOK /\ Holds(blocks, RowsTip)

\* In a pass that is between two blocks, and in one that connects a block.
LEMMA InPass ==
  ASSUME CInv, pc # "down"
  PROVE  /\ tip \in Tips /\ height = HeightOf(tip) /\ height \in Nat /\ height \in Upto
         /\ cursor.tip = tip /\ cursor.height = height
         /\ pc \in Connecting => block \in Blocks /\ HeightOf(block) = height + 1
                                 /\ HeightOf(block) \in Heights
         /\ pc \in RollingBack => Parent[block] \in Blocks /\ fork \in Heights /\ fork \in Nat
                                  /\ Parent[block] \in Tips
<1>1. tip \in Tips /\ height = HeightOf(tip) /\ cursor.tip = tip /\ cursor.height = height
  BY DEF CInv, Typed, CursorOK
<1>2. height \in Nat /\ height \in Upto
  BY <1>1, TipsHeight
<1>3. CASE pc \in Connecting
  BY <1>1, <1>2, <1>3, HeightStep, HeightType DEF CInv, BlockOK, Connecting, RollingBack
<1>4. CASE pc \in RollingBack
  <2>1. Parent[block] \in Blocks /\ fork = HeightOf(Parent[block])
    BY <1>4, AncestorsType DEF CInv, BlockOK
  <2> QED
    BY <1>1, <1>2, <1>4, <2>1, HeightType, HeightStep DEF Connecting, RollingBack, Tips
<1> QED
  BY <1>1, <1>2, <1>3, <1>4

\* The next pass never resumes above the cursor.
LEMMA ResumeType ==
  ASSUME Typed, CursorOK
  PROVE  /\ ResumeHeight \in 0 .. HeightOf(cursor.tip) /\ ResumeHeight \in Upto
         /\ ResumeHeight \in Nat /\ cursor.height = HeightOf(cursor.tip)
         /\ cursor.height \in Nat /\ cursor.tip \in Tips
         /\ ResumeTip \in Tips /\ HeightOf(ResumeTip) = ResumeHeight
<1>1. cursor.tip \in Tips /\ cursor.height = HeightOf(cursor.tip) /\ cursor.height \in Nat
      /\ cursor.height \in Upto /\ proj.height \in Upto \cup {-1}
  BY TipsHeight DEF Typed, CursorOK
<1>2. ResumeHeight \in 0 .. HeightOf(cursor.tip) /\ ResumeHeight \in Upto
  <2> DEFINE p == proj.height
             c == cursor.height
  <2>1. p \in Int /\ (p >= 0 => p \in Upto) /\ c \in Nat /\ c \in Upto
    <3>1. p = -1 \/ (p \in Upto /\ p \in Nat)
      BY <1>1, UptoType
    <3> HIDE DEF p
    <3> QED
      BY <1>1, <3>1
  <2>2. ResumeHeight = IF p >= 0 /\ p < c THEN p ELSE c
    BY DEF ResumeHeight
  <2> HIDE DEF p, c
  <2>3. ResumeHeight \in 0 .. c /\ ResumeHeight \in Upto
    BY <2>1, <2>2
  <2> QED
    BY <1>1, <2>3 DEF c
<1> QED
  BY <1>1, <1>2, BelowType, UptoType DEF ResumeTip

\* Rows that hold the cursor's chain hold that of any block below it.
LEMMA RowsResume ==
  ASSUME Typed, CursorOK, Holds(blocks, cursor.tip)
  PROVE  Holds(blocks, ResumeTip)
  BY ResumeType, HoldsBelow DEF ResumeTip

\* Where the rows hold a chain, the block recorded at a height is its block.
LEMMA TipAtIs ==
  ASSUME NEW b \in Tips, NEW h \in 0 .. HeightOf(b), Holds(blocks, Below(b, h))
  PROVE  TipAt(h) = Below(b, h)
<1>1. CASE h = 0
  BY <1>1 DEF TipAt, Below
<1>2. CASE h # 0
  <2>1. h \in Nat /\ h > 0 /\ h \in 1 .. h
    BY <1>2, TipsHeight
  <2>2. blocks[h] = At(b, h)
    BY <2>1, HoldsBelow
  <2>3. At(b, h) \in Blocks
    <3>1. b \in Blocks /\ h \in 1 .. HeightOf(b)
      BY <1>2, <2>1, HeightOfStart DEF Tips
    <3> QED
      BY <3>1, AtType
  <2> QED
    BY <1>2, <2>1, <2>2, <2>3, MissingIsNone DEF TipAt, Below
<1> QED
  BY <1>1, <1>2

LEMMA InitC == Init => CInv
<1> SUFFICES ASSUME Init PROVE CInv
  OBVIOUS
<1>1. Typed
  <2>1. Empty \in Table
    BY DEF Empty, Table
  <2>2. IsState(EmptyState) /\ 0 \in Upto /\ Start \in Tips
    BY UptoType DEF IsState, EmptyState, Tips
  <2> QED
    BY <2>1, <2>2 DEF Init, Typed
<1>2. CursorOK /\ BlockOK /\ MemoryOK
  BY HeightOfStart DEF Init, CursorOK, BlockOK, MemoryOK, Connecting, RollingBack
<1>3. ResumeHeight = 0
  <2>1. ResumeHeight \in 0 .. HeightOf(cursor.tip) /\ cursor.tip = Start
    BY <1>1, <1>2, ResumeType DEF Init
  <2> QED
    BY <2>1, HeightOfStart
<1>4. RowsTip = Start
  BY <1>3 DEF Init, RowsTip, ResumeTip, Below
<1> QED
  BY <1>1, <1>2, <1>4, HeightOfStart DEF CInv, Holds

\* A pass takes up the chain at the height of the projection, or of the cursor.
LEMMA BootTakes ==
  ASSUME CInv, Boot
  PROVE  /\ height' = ResumeHeight /\ tip' = ResumeTip
         /\ cursor' \in [height : Upto, tip : Tips]
         /\ cursor'.height = ResumeHeight /\ cursor'.tip = ResumeTip
         /\ Holds(blocks, ResumeTip)
<1>1. /\ ResumeHeight \in 0 .. HeightOf(cursor.tip) /\ ResumeHeight \in Upto
      /\ ResumeTip \in Tips /\ HeightOf(ResumeTip) = ResumeHeight /\ cursor.tip \in Tips
      /\ cursor.height = HeightOf(cursor.tip) /\ cursor.height \in Nat /\ ResumeHeight \in Nat
      /\ cursor \in [height : Upto, tip : Tips]
  BY ResumeType DEF CInv, Typed
<1>2. Holds(blocks, ResumeTip)
  BY DEF CInv, RowsTip, Boot
<1>3. CASE ResumeHeight < cursor.height
  <2>1. TipAt(ResumeHeight) = ResumeTip
    BY <1>1, <1>2, TipAtIs DEF ResumeTip
  <2> QED
    BY <1>1, <1>2, <1>3, <2>1 DEF Boot
<1>4. CASE ~(ResumeHeight < cursor.height)
  <2>1. ResumeHeight = cursor.height
    BY <1>1, <1>4
  <2>2. ResumeTip = cursor.tip
    BY <1>1, <2>1, BelowTop DEF ResumeTip
  <2> QED
    BY <1>1, <1>2, <1>4, <2>1, <2>2 DEF Boot
<1> QED
  BY <1>3, <1>4

LEMMA BootC ==
  ASSUME CInv, Boot
  PROVE  CInv'
<1>1. pc' = "idle" /\ feed' = blocks /\ blocks' = blocks /\ raws' = raws /\ proj' = proj
      /\ state' = [proj.state EXCEPT !.at = ResumeHeight]
  BY DEF Boot, Loaded, Warmed
<1>2. ResumeTip \in Tips /\ HeightOf(ResumeTip) = ResumeHeight
  BY ResumeType DEF CInv
<1>3. Stand' = tip' /\ RowsTip' = tip'
  BY <1>1 DEF Stand, RowsTip, Connecting
<1>4. IsState(state') /\ state'.at = ResumeHeight
  <2>1. IsState(proj.state)
    BY DEF CInv, Typed
  <2>2. IsState([proj.state EXCEPT !.at = ResumeHeight])
        /\ [proj.state EXCEPT !.at = ResumeHeight].at = ResumeHeight
    BY <2>1, RaisedState
  <2> QED
    BY <1>1, <2>2
<1>5. Typed'
  BY <1>1, BootTakes DEF CInv, Typed
<1>6. CursorOK' /\ BlockOK'
  BY <1>1, <1>2, BootTakes DEF CursorOK, BlockOK, Connecting, RollingBack
<1>7. MemoryOK' /\ Holds(blocks, RowsTip)'
  BY <1>1, <1>2, <1>3, <1>4, BootTakes DEF MemoryOK, Holds
<1> QED
  BY <1>5, <1>6, <1>7 DEF CInv

\* What connecting a block does to the memory of a pass.
LEMMA ConnectsBlock ==
  ASSUME NEW p \in Tips, NEW b \in Blocks, p = Parent[b], NEW f \in Table, Holds(f, p),
         NEW s, IsState(s)
  PROVE  /\ [f EXCEPT ![HeightOf(b)] = b] \in Table
         /\ Holds([f EXCEPT ![HeightOf(b)] = b], b)
         /\ IsState(Connected(s, f, b, HeightOf(b)))
         /\ Connected(s, f, b, HeightOf(b)).at = HeightOf(b)
  BY HoldsPut, FoldedState DEF Connected

LEMMA FoldBlockC ==
  ASSUME CInv, NEW b \in Blocks, FoldBlock(b)
  PROVE  CInv'
<1>1. /\ pc = "idle" /\ Parent[b] = tip /\ pc' = "put" /\ block' = b
      /\ state' = Connected(state, feed, b, height + 1)
      /\ feed' = [Cut(feed, height) EXCEPT ![height + 1] = b]
      /\ UNCHANGED <<blocks, raws, cursor, proj, height, tip>>
  BY DEF FoldBlock, disk
<1>2. tip \in Tips /\ height = HeightOf(tip) /\ height \in Nat
  BY <1>1, InPass
<1>3. HeightOf(b) = height + 1
  BY <1>1, <1>2, HeightStep
<1>4. feed \in Table /\ Holds(feed, tip) /\ IsState(state)
  BY <1>1 DEF CInv, Typed, MemoryOK, Stand, Connecting
<1>5. Cut(feed, height) \in Table /\ Holds(Cut(feed, height), tip)
  BY <1>2, <1>4, HoldsCut
<1>6. feed' \in Table /\ Holds(feed', b)
  BY <1>1, <1>2, <1>3, <1>5, HoldsPut
<1>7. IsState(state') /\ state'.at = HeightOf(b)
  BY <1>1, <1>3, <1>4, FoldedState DEF Connected
<1>8. Stand' = b /\ RowsTip' = tip /\ RowsTip = tip
  BY <1>1 DEF Stand, RowsTip, Connecting
<1>9. Typed'
  BY <1>1, <1>6 DEF CInv, Typed, Connecting
<1>10. CursorOK' /\ BlockOK'
  BY <1>1 DEF CInv, CursorOK, BlockOK, Connecting, RollingBack
<1>11. MemoryOK' /\ Holds(blocks, RowsTip)'
  BY <1>1, <1>6, <1>7, <1>8 DEF CInv, MemoryOK, Holds
<1> QED
  BY <1>9, <1>10, <1>11 DEF CInv

LEMMA PutBlockC ==
  ASSUME CInv, PutBlock
  PROVE  CInv'
<1>1. /\ pc = "put" /\ pc' \in {"raw", "save"}
      /\ blocks' = [blocks EXCEPT ![height + 1] = block]
      /\ UNCHANGED <<raws, cursor, proj, state, feed, height, tip, block, fork>>
  BY DEF PutBlock, memory
<1>2. block \in Blocks /\ HeightOf(block) = height + 1 /\ Parent[block] = tip
  BY <1>1, InPass DEF CInv, BlockOK, Connecting
<1>3. blocks \in Table /\ Holds(blocks, tip)
  BY <1>1 DEF CInv, Typed, RowsTip
<1>4. blocks' \in Table /\ Holds(blocks', block)
  BY <1>1, <1>2, <1>3, HoldsPut
<1>5. Stand' = block /\ Stand = block /\ RowsTip' = block
  BY <1>1 DEF Stand, RowsTip, Connecting
<1>6. Typed'
  BY <1>1, <1>4 DEF CInv, Typed, Connecting
<1>7. CursorOK' /\ BlockOK'
  BY <1>1, <1>2 DEF CInv, CursorOK, BlockOK, Connecting, RollingBack
<1>8. MemoryOK' /\ Holds(blocks, RowsTip)'
  BY <1>1, <1>4, <1>5 DEF CInv, MemoryOK, Holds
<1> QED
  BY <1>6, <1>7, <1>8 DEF CInv

LEMMA PutRawC ==
  ASSUME CInv, PutRaw
  PROVE  CInv'
<1>1. /\ pc = "raw" /\ pc' = "save"
      /\ raws' = [raws EXCEPT ![height + 1] = block]
      /\ UNCHANGED <<blocks, cursor, proj, state, feed, height, tip, block, fork>>
  BY DEF PutRaw, memory
<1>2. block \in Blocks /\ Parent[block] = tip
  BY <1>1 DEF CInv, BlockOK, Connecting
<1>3. Stand' = block /\ Stand = block /\ RowsTip' = block /\ RowsTip = block
  BY <1>1 DEF Stand, RowsTip, Connecting
<1>4. Typed'
  BY <1>1, <1>2 DEF CInv, Typed, Connecting, Table
<1>5. CursorOK' /\ BlockOK'
  BY <1>1, <1>2 DEF CInv, CursorOK, BlockOK, Connecting, RollingBack
<1>6. MemoryOK' /\ Holds(blocks, RowsTip)'
  BY <1>1, <1>3 DEF CInv, MemoryOK, Holds
<1> QED
  BY <1>4, <1>5, <1>6 DEF CInv

LEMMA SaveCursorC ==
  ASSUME CInv, SaveCursor
  PROVE  CInv'
<1>1. /\ pc = "save" /\ pc' = "idle"
      /\ cursor' = [height |-> height + 1, tip |-> block]
      /\ height' = height + 1 /\ tip' = block
      /\ UNCHANGED <<blocks, raws, proj, state, feed, block, fork>>
  BY DEF SaveCursor
<1>2. block \in Blocks /\ HeightOf(block) = height + 1 /\ HeightOf(block) \in Heights
  BY <1>1, InPass DEF Connecting
<1>3. Stand' = block /\ Stand = block /\ RowsTip' = block /\ RowsTip = block
  BY <1>1 DEF Stand, RowsTip, Connecting
<1>4. Typed'
  BY <1>1, <1>2, UptoType DEF CInv, Typed, Tips
<1>5. CursorOK' /\ BlockOK'
  BY <1>1, <1>2 DEF CursorOK, BlockOK, Connecting, RollingBack
<1>6. MemoryOK' /\ Holds(blocks, RowsTip)'
  BY <1>1, <1>3 DEF CInv, MemoryOK, Holds
<1> QED
  BY <1>4, <1>5, <1>6 DEF CInv

\* A pass that is between two blocks, and a projection of its state.
LEMMA IdleC ==
  ASSUME CInv, pc = "idle"
  PROVE  /\ Stand = tip /\ RowsTip = tip
         /\ IsState(state) /\ state.at = height /\ height \in Upto
         /\ Projection(state).height = height /\ Projection(state).state = state
         /\ Holds(blocks, cursor.tip) /\ Holds(feed, tip)
<1>1. Stand = tip /\ RowsTip = tip
  BY DEF Stand, RowsTip, Connecting
<1>2. height = HeightOf(tip) /\ height \in Upto /\ tip = cursor.tip
  BY InPass
<1>3. IsState(state) /\ state.at = height /\ Holds(feed, tip) /\ Holds(blocks, tip)
  BY <1>1, <1>2 DEF CInv, MemoryOK
<1> QED
  BY <1>1, <1>2, <1>3 DEF Projection

LEMMA ProjectC ==
  ASSUME CInv, Project \/ \E b \in Blocks : TurnTo(b)
  PROVE  CInv'
<1>1. /\ pc = "idle" /\ pc' = "idle"
      /\ proj' = proj \/ proj' = Projection(state)
      /\ UNCHANGED <<blocks, raws, cursor, state, feed, height, tip, block, fork>>
  BY DEF Project, TurnTo, memory, control, disk
<1>2. Stand' = tip /\ RowsTip' = tip
  BY <1>1 DEF Stand, RowsTip, Connecting
<1>3. Typed'
  BY <1>1, IdleC DEF CInv, Typed
<1>4. CursorOK' /\ BlockOK'
  BY <1>1 DEF CInv, CursorOK, BlockOK, Connecting, RollingBack
<1>5. MemoryOK' /\ Holds(blocks, RowsTip)'
  BY <1>1, <1>2, IdleC DEF CInv, MemoryOK, Holds
<1> QED
  BY <1>3, <1>4, <1>5 DEF CInv

\* A process that ends while the rows hold the chain of the cursor.
LEMMA GoesDown ==
  ASSUME Typed', CursorOK', pc' = "down", Holds(blocks, cursor.tip)'
  PROVE  CInv'
<1>1. Holds(blocks, ResumeTip)'
  <2>1. (Typed /\ CursorOK /\ Holds(blocks, cursor.tip) => Holds(blocks, ResumeTip))'
    BY RowsResume, PTL
  <2> QED
    BY <2>1
<1>2. RowsTip' = ResumeTip'
  BY DEF RowsTip
<1> QED
  BY <1>1, <1>2 DEF CInv, BlockOK, MemoryOK, Connecting, RollingBack, Holds

LEMMA EndPassC ==
  ASSUME CInv, EndPass
  PROVE  CInv'
<1>1. /\ pc = "idle" /\ pc' = "down" /\ proj' = Projection(state)
      /\ UNCHANGED <<blocks, raws, cursor, feed>>
  BY DEF EndPass, memory
<1>2. Typed' /\ CursorOK'
  BY <1>1, IdleC DEF CInv, Typed, CursorOK
<1>3. Holds(blocks, cursor.tip)'
  BY <1>1, IdleC DEF Holds
<1> QED
  BY <1>1, <1>2, <1>3, GoesDown

LEMMA StartReorgC ==
  ASSUME CInv, NEW b \in Blocks, StartReorg(b)
  PROVE  CInv'
<1>1. /\ Reorgs /\ pc = "idle" /\ pc' = "prune" /\ block' = b
      /\ fork' \in Heights /\ fork' < height /\ blocks[fork'] = Parent[b]
      /\ UNCHANGED <<blocks, raws, cursor, proj, state, feed, height, tip>>
  BY DEF StartReorg, disk, memory
<1>2. tip \in Tips /\ height = HeightOf(tip) /\ height \in Nat
  BY <1>1, InPass
<1>3. fork' \in Nat \ {0}
  BY <1>1, UptoType
<1>4. tip \in Blocks /\ fork' \in 1 .. HeightOf(tip)
  BY <1>1, <1>2, <1>3, HeightOfStart DEF Tips
<1>5. Parent[b] = At(tip, fork')
  BY <1>1, <1>4, IdleC, InPass DEF Holds
<1>6. Parent[b] \in Ancestors[tip] /\ HeightOf(Parent[b]) = fork'
  BY <1>4, <1>5, AtType
<1>7. Stand' = tip /\ Stand = tip /\ RowsTip' = tip /\ RowsTip = tip
  BY <1>1 DEF Stand, RowsTip, Connecting
<1>8. Typed'
  BY <1>1 DEF CInv, Typed, RollingBack
<1>9. CursorOK' /\ BlockOK'
  BY <1>1, <1>4, <1>6 DEF CInv, CursorOK, BlockOK, Connecting, RollingBack
<1>10. MemoryOK' /\ Holds(blocks, RowsTip)'
  BY <1>1, <1>7 DEF CInv, MemoryOK, Holds
<1> QED
  BY <1>8, <1>9, <1>10 DEF CInv

\* What a rollback knows of the block it rolls back to.
LEMMA RollsBack ==
  ASSUME CInv, pc \in RollingBack
  PROVE  /\ tip \in Blocks /\ block \in Blocks /\ Reorgs
         /\ Parent[block] \in Ancestors[tip] /\ Parent[block] \in Tips
         /\ Parent[block] \in Blocks /\ HeightOf(block) = fork + 1
         /\ HeightOf(Parent[block]) = fork /\ fork \in Nat /\ fork \in Heights
         /\ fork < height /\ fork \in Upto
         /\ Below(tip, fork) = Parent[block] /\ fork \in 0 .. HeightOf(tip)
<1>1. pc # "down"
  BY DEF RollingBack
<1>2. /\ tip \in Blocks /\ block \in Blocks /\ Reorgs
      /\ Parent[block] \in Ancestors[tip] /\ HeightOf(Parent[block]) = fork
      /\ fork < height
  BY DEF CInv, BlockOK
<1>3. /\ Parent[block] \in Tips /\ Parent[block] \in Blocks /\ fork \in Heights /\ fork \in Nat
      /\ height = HeightOf(tip) /\ height \in Nat
  BY <1>1, InPass
<1>4. HeightOf(block) = fork + 1 /\ fork \in Upto
  BY <1>2, <1>3, HeightStep, UptoType
<1>5. Below(tip, fork) = Parent[block] /\ fork \in 0 .. HeightOf(tip)
  BY <1>2, <1>3, BelowAncestor
<1> QED
  BY <1>2, <1>3, <1>4, <1>5

LEMMA PruneBlocksC ==
  ASSUME CInv, PruneBlocks
  PROVE  CInv'
<1>1. /\ pc = "prune" /\ pc' = "pruneRaw" /\ blocks' = Cut(blocks, fork)
      /\ UNCHANGED <<raws, cursor, proj, state, feed, height, tip, block, fork>>
  BY DEF PruneBlocks, memory
<1>2. /\ tip \in Blocks /\ Parent[block] \in Ancestors[tip] /\ Parent[block] \in Tips
      /\ HeightOf(Parent[block]) = fork /\ fork \in Nat
  BY <1>1, RollsBack DEF RollingBack
<1>3. blocks \in Table /\ Holds(blocks, tip)
  BY <1>1 DEF CInv, Typed, RowsTip
<1>4. blocks' \in Table /\ Holds(blocks', Parent[block])
  BY <1>1, <1>2, <1>3, HoldsAncestor, HoldsCut
<1>5. Stand' = tip /\ Stand = tip /\ RowsTip' = Parent[block]
  BY <1>1 DEF Stand, RowsTip, Connecting
<1>6. Typed'
  BY <1>1, <1>4 DEF CInv, Typed, RollingBack
<1>7. CursorOK' /\ BlockOK'
  BY <1>1 DEF CInv, CursorOK, BlockOK, Connecting, RollingBack
<1>8. MemoryOK' /\ Holds(blocks, RowsTip)'
  BY <1>1, <1>4, <1>5 DEF CInv, MemoryOK, Holds
<1> QED
  BY <1>6, <1>7, <1>8 DEF CInv

LEMMA PruneRawsC ==
  ASSUME CInv, PruneRaws
  PROVE  CInv'
<1>1. /\ pc = "pruneRaw" /\ pc' = "replay" /\ raws' = Cut(raws, fork)
      /\ UNCHANGED <<blocks, cursor, proj, state, feed, height, tip, block, fork>>
  BY DEF PruneRaws, memory
<1>2. raws' \in Table
  BY <1>1 DEF CInv, Typed, Cut, Table
<1>3. Stand' = tip /\ Stand = tip /\ RowsTip' = Parent[block] /\ RowsTip = Parent[block]
  BY <1>1 DEF Stand, RowsTip, Connecting
<1>4. Typed'
  BY <1>1, <1>2 DEF CInv, Typed, RollingBack
<1>5. CursorOK' /\ BlockOK'
  BY <1>1 DEF CInv, CursorOK, BlockOK, Connecting, RollingBack
<1>6. MemoryOK' /\ Holds(blocks, RowsTip)'
  BY <1>1, <1>3 DEF CInv, MemoryOK, Holds
<1> QED
  BY <1>4, <1>5, <1>6 DEF CInv

\* A rebuilt state stands at the height it was rebuilt for.
LEMMA RebuiltType ==
  ASSUME NEW f, NEW h \in Upto
  PROVE  /\ IsState(Rebuilt(f, h)) /\ Rebuilt(f, h).at = h
         /\ Projection(Rebuilt(f, h)).height = h
         /\ Projection(Rebuilt(f, h)).state = Rebuilt(f, h)
<1> DEFINE s == Replay(Cut(raws, h), f)[h]
<1>1. IsState(s)
  BY ReplayType, StatesAre
<1>2. Rebuilt(f, h) = [s EXCEPT !.at = h]
  BY DEF Rebuilt
<1> HIDE DEF s
<1>3. IsState([s EXCEPT !.at = h]) /\ [s EXCEPT !.at = h].at = h
  BY <1>1, RaisedState
<1> QED
  BY <1>2, <1>3 DEF Projection

LEMMA ReplayRawsC ==
  ASSUME CInv, ReplayRaws
  PROVE  CInv'
<1>1. /\ pc = "replay" /\ pc' = "reset" /\ feed' = Cut(feed, fork)
      /\ state' = Rebuilt(Cut(feed, fork), fork)
      /\ proj' = Projection(Rebuilt(Cut(feed, fork), fork))
      /\ UNCHANGED <<blocks, raws, cursor, height, tip, block, fork>>
  BY DEF ReplayRaws
<1>2. /\ tip \in Blocks /\ Parent[block] \in Ancestors[tip] /\ Parent[block] \in Tips
      /\ HeightOf(Parent[block]) = fork /\ fork \in Nat /\ fork \in Upto
  BY <1>1, RollsBack DEF RollingBack
<1>3. feed \in Table /\ Holds(feed, tip)
  BY <1>1 DEF CInv, Typed, MemoryOK, Stand, Connecting
<1>4. feed' \in Table /\ Holds(feed', Parent[block])
  BY <1>1, <1>2, <1>3, HoldsAncestor, HoldsCut
<1>5. IsState(state') /\ state'.at = fork /\ proj'.height = fork /\ IsState(proj'.state)
  BY <1>1, <1>2, RebuiltType
<1>6. Stand' = Parent[block] /\ RowsTip' = Parent[block] /\ RowsTip = Parent[block]
  BY <1>1 DEF Stand, RowsTip, Connecting
<1>7. Typed'
  BY <1>1, <1>2, <1>4, <1>5 DEF CInv, Typed, RollingBack
<1>8. CursorOK' /\ BlockOK'
  BY <1>1, <1>5 DEF CInv, CursorOK, BlockOK, Connecting, RollingBack
<1>9. MemoryOK' /\ Holds(blocks, RowsTip)'
  BY <1>1, <1>2, <1>4, <1>5, <1>6 DEF CInv, MemoryOK, Holds
<1> QED
  BY <1>7, <1>8, <1>9 DEF CInv

LEMMA ResetCursorC ==
  ASSUME CInv, ResetCursor
  PROVE  /\ CInv'
         /\ tip' = Parent[block] /\ cursor'.tip = Parent[block] /\ cursor'.height = fork
         /\ Stand = Parent[block] /\ Stand' \in {Parent[block], block}
<1>1. /\ pc = "reset" /\ height' = fork /\ tip' = TipAt(fork)
      /\ cursor' = [height |-> fork, tip |-> TipAt(fork)]
      /\ UNCHANGED <<blocks, raws, proj, block, fork>>
      /\ \/ /\ pc' = "put"
            /\ state' = Connected(state, feed, block, fork + 1)
            /\ feed' = [feed EXCEPT ![fork + 1] = block]
         \/ pc' = "idle" /\ UNCHANGED <<state, feed>>
  BY DEF ResetCursor
<1> DEFINE p == Parent[block]
<1>2. /\ tip \in Blocks /\ block \in Blocks /\ p \in Tips /\ HeightOf(p) = fork
      /\ Below(tip, fork) = p /\ fork \in 0 .. HeightOf(tip) /\ fork \in Upto
      /\ HeightOf(block) = fork + 1
  BY <1>1, RollsBack DEF RollingBack
<1>3. /\ Stand = p /\ RowsTip = p /\ Holds(blocks, p) /\ Holds(feed, p) /\ feed \in Table
      /\ IsState(state) /\ state.at = fork
  BY <1>1, <1>2 DEF CInv, MemoryOK, Typed, Stand, RowsTip, Connecting
<1>4. tip' = p /\ cursor'.tip = p /\ cursor'.height = fork
  BY <1>1, <1>2, <1>3, TipAtIs DEF Tips
<1>5. CASE pc' = "put"
  <2>1. Stand' = block /\ RowsTip' = p
    BY <1>1, <1>4, <1>5 DEF Stand, RowsTip, Connecting
  <2>2. feed' \in Table /\ Holds(feed', block) /\ IsState(state') /\ state'.at = HeightOf(block)
    BY <1>1, <1>2, <1>3, <1>5, ConnectsBlock
  <2>3. Typed'
    BY <1>1, <1>2, <1>4, <1>5, <2>2 DEF CInv, Typed, Connecting
  <2>4. CursorOK' /\ BlockOK'
    BY <1>1, <1>2, <1>4, <1>5 DEF CursorOK, BlockOK, Connecting, RollingBack
  <2>5. MemoryOK' /\ Holds(blocks, RowsTip)'
    BY <1>1, <1>3, <2>1, <2>2 DEF MemoryOK, Holds
  <2> QED
    BY <1>3, <1>4, <2>1, <2>3, <2>4, <2>5 DEF CInv
<1>6. CASE pc' = "idle"
  <2>1. Stand' = p /\ RowsTip' = p
    BY <1>1, <1>4, <1>6 DEF Stand, RowsTip, Connecting
  <2>2. feed' = feed /\ state' = state
    BY <1>1, <1>6
  <2>3. Typed'
    BY <1>1, <1>2, <1>4, <1>6, <2>2 DEF CInv, Typed
  <2>4. CursorOK' /\ BlockOK'
    BY <1>1, <1>2, <1>4, <1>6 DEF CursorOK, BlockOK, Connecting, RollingBack
  <2>5. MemoryOK' /\ Holds(blocks, RowsTip)'
    BY <1>1, <1>2, <1>3, <2>1, <2>2 DEF MemoryOK, Holds
  <2> QED
    BY <1>3, <1>4, <2>1, <2>3, <2>4, <2>5 DEF CInv
<1> QED
  BY <1>1, <1>5, <1>6

\* `refold` of a database whose projection is at the cursor.
LEMMA RefoldAt ==
  ASSUME CInv, Refold, Refolds \subseteq {"settled"}
  PROVE  /\ pc = "down" /\ proj.height = cursor.height
         /\ ResumeHeight = cursor.height /\ ResumeTip = cursor.tip
         /\ cursor.tip \in Tips /\ cursor.height = HeightOf(cursor.tip)
         /\ cursor.height \in Nat /\ cursor.height \in Upto
         /\ Holds(blocks, cursor.tip)
<1>1. pc = "down" /\ proj.height = cursor.height
  BY DEF Refold
<1>2. cursor.tip \in Tips /\ cursor.height = HeightOf(cursor.tip)
      /\ cursor.height \in Nat /\ cursor.height \in Upto
  BY TipsHeight DEF CInv, Typed, CursorOK
<1>3. ResumeHeight = cursor.height
  BY <1>1, <1>2 DEF ResumeHeight
<1>4. ResumeTip = cursor.tip
  BY <1>2, <1>3, BelowTop DEF ResumeTip
<1> QED
  BY <1>1, <1>2, <1>3, <1>4 DEF CInv, RowsTip

LEMMA RefoldC ==
  ASSUME CInv, Refold, Refolds \subseteq {"settled"}
  PROVE  CInv'
<1>1. /\ pc' = "down" /\ blocks' = Cut(blocks, cursor.height)
      /\ raws' = Cut(raws, cursor.height)
      /\ proj' = Projection(Rebuilt(Cut(blocks, cursor.height), cursor.height))
      /\ cursor' = cursor /\ feed' = feed
  BY RefoldAt DEF Refold, memory, control
<1>2. blocks \in Table /\ raws \in Table
  BY DEF CInv, Typed
<1>3. blocks' \in Table /\ raws' \in Table /\ Holds(blocks', cursor.tip)
  BY <1>1, <1>2, RefoldAt, HoldsCut
<1>4. IsState(proj'.state) /\ proj'.height = cursor.height /\ cursor.height \in Upto
  BY <1>1, RefoldAt, RebuiltType
<1>5. Typed' /\ CursorOK'
  BY <1>1, <1>3, <1>4 DEF CInv, Typed, CursorOK
<1>6. Holds(blocks, cursor.tip)'
  BY <1>1, <1>3 DEF Holds
<1> QED
  BY <1>1, <1>5, <1>6, GoesDown

\* A crash where the rows hold the chain of what the next pass resumes from.
LEMMA CrashC ==
  ASSUME CInv, Crash, Reorgs => CrashAt \cap {"pruneRaw", "replay"} = {}
  PROVE  CInv'
<1>1. pc \in CrashAt /\ pc' = "down" /\ UNCHANGED <<blocks, raws, cursor, proj, feed>>
  BY DEF Crash, disk, memory
<1>2. Typed' /\ CursorOK'
  BY <1>1 DEF CInv, Typed, CursorOK
<1>3. ASSUME Holds(blocks, cursor.tip) PROVE CInv'
  <2>1. Holds(blocks, cursor.tip)'
    BY <1>1, <1>3 DEF Holds
  <2> QED
    BY <1>1, <1>2, <2>1, GoesDown
<1>4. ASSUME Holds(blocks, ResumeTip) PROVE CInv'
  <2>1. RowsTip' = ResumeTip
    BY <1>1 DEF RowsTip, ResumeTip, ResumeHeight
  <2> QED
    BY <1>1, <1>2, <1>4, <2>1 DEF CInv, BlockOK, MemoryOK, Connecting, RollingBack, Holds
<1>5. CASE pc = "down"
  BY <1>4, <1>5 DEF CInv, RowsTip
<1>6. CASE pc \in {"idle", "put", "prune"}
  <2>1. Holds(blocks, tip) /\ tip = cursor.tip
    BY <1>6 DEF CInv, RowsTip, CursorOK
  <2> QED
    BY <1>3, <2>1
<1>7. CASE pc \in {"raw", "save"}
  <2>1. block \in Blocks /\ Parent[block] = tip /\ tip = cursor.tip /\ Holds(blocks, block)
    BY <1>7 DEF CInv, RowsTip, BlockOK, CursorOK, Connecting
  <2>2. Holds(blocks, tip)
    BY <2>1, HoldsParent
  <2> QED
    BY <1>3, <2>1, <2>2
<1>8. CASE pc = "reset"
  <2>1. Holds(blocks, Parent[block]) /\ proj.height = fork /\ cursor.tip = tip
        /\ cursor.height = height
    BY <1>8 DEF CInv, RowsTip, BlockOK, CursorOK
  <2>2. fork \in Nat /\ fork < height /\ Below(tip, fork) = Parent[block]
    BY <1>8, RollsBack DEF RollingBack
  <2>3. ResumeHeight = fork
    BY <2>1, <2>2 DEF ResumeHeight
  <2> QED
    BY <1>4, <2>1, <2>2, <2>3 DEF ResumeTip
<1>9. pc \notin {"pruneRaw", "replay"}
  BY <1>1 DEF CInv, BlockOK, RollingBack
<1> QED
  BY <1>5, <1>6, <1>7, <1>8, <1>9 DEF CInv, Typed, Connecting, RollingBack

LEMMA StutterC ==
  ASSUME CInv, UNCHANGED vars
  PROVE  CInv'
  BY DEF CInv, Typed, CursorOK, BlockOK, MemoryOK, Holds, Stand, RowsTip, ResumeTip,
         ResumeHeight, vars

\* Where CInv is kept: refolds are of settled databases, and no crash falls
\* between the statements that prune the rows and the one that lowers the
\* projection.
LEMMA NextC ==
  ASSUME CInv, [Next]_vars, Refolds \subseteq {"settled"},
         Reorgs => CrashAt \cap {"pruneRaw", "replay"} = {}
  PROVE  CInv'
<1>1. CASE Boot
  BY <1>1, BootC
<1>2. CASE FoldSome
  BY <1>2, FoldBlockC DEF FoldSome
<1>3. CASE ReorgSome
  BY <1>3, StartReorgC DEF ReorgSome
<1>4. CASE Proceed
  BY <1>4, PutBlockC, PutRawC, SaveCursorC, PruneBlocksC, PruneRawsC, ReplayRawsC,
     ResetCursorC DEF Proceed
<1>5. CASE Project \/ \E b \in Blocks : TurnTo(b)
  BY <1>5, ProjectC
<1>6. CASE EndPass
  BY <1>6, EndPassC
<1>7. CASE Refold
  BY <1>7, RefoldC
<1>8. CASE Crash
  BY <1>8, CrashC
<1>9. CASE UNCHANGED vars
  BY <1>9, StutterC
<1> QED
  BY <1>1, <1>2, <1>3, <1>4, <1>5, <1>6, <1>7, <1>8, <1>9 DEF Next

LEMMA TablesHold ==
  ASSUME Refolds \subseteq {"settled"}, Reorgs => CrashAt \cap {"pruneRaw", "replay"} = {}
  PROVE  Spec => []CInv
<1>1. CInv /\ [Next]_vars => CInv'
  BY NextC
<1> QED
  BY <1>1, InitC, PTL DEF Spec

\* Between two blocks a pass stands on the chain that its tables hold, for every
\* tree of blocks, reorganisation and crash but one that falls between the
\* pruning of a rollback and its projection (sync.c:187-220, 959-1016).
THEOREM ChainHolds ==
  ASSUME Refolds \subseteq {"settled"}, Reorgs => CrashAt \cap {"pruneRaw", "replay"} = {}
  PROVE  Spec => []ChainKept
<1>1. CInv => ChainKept
  <2> SUFFICES ASSUME CInv, pc = "idle"
               PROVE  /\ height = HeightOf(tip)
                      /\ \A h \in 1 .. height : blocks[h] = At(tip, h) /\ feed[h] = At(tip, h)
    BY DEF ChainKept
  <2> QED
    BY IdleC, InPass DEF Holds
<1> QED
  BY <1>1, TablesHold, PTL

\* A pass that ends by itself, and a refold, leave the projection at the cursor
\* (sync.c:214-217, 1388-1407).
THEOREM PassesSettle ==
  ASSUME Refolds \subseteq {"settled"}, "idle" \notin CrashAt,
         Reorgs => CrashAt \cap {"pruneRaw", "replay"} = {}
  PROVE  Spec => Settled
<1>1. ASSUME CInv, [Next]_vars
      PROVE  [pc' = "down" /\ pc \in {"idle", "down"} => proj'.height = cursor'.height]_vars
  <2> SUFFICES ASSUME Next, pc' = "down", pc \in {"idle", "down"}, ~UNCHANGED vars
               PROVE  proj'.height = cursor'.height
    BY <1>1
  <2>1. CASE EndPass
    BY <1>1, <2>1, IdleC, InPass DEF EndPass
  <2>2. CASE Refold
    BY <1>1, <2>2, RefoldAt, RebuiltType DEF Refold
  <2>3. CASE Crash
    <3>1. pc = "down" /\ UNCHANGED <<disk, memory, block, fork, peer>>
      BY <2>3 DEF Crash
    <3> QED
      BY <3>1 DEF vars, disk, memory
  <2> QED
    BY <2>1, <2>2, <2>3
    DEF Next, Boot, FoldSome, FoldBlock, ReorgSome, StartReorg, Proceed, PutBlock, PutRaw,
        SaveCursor, PruneBlocks, PruneRaws, ReplayRaws, ResetCursor, Project, TurnTo, control
<1>2. CInv /\ [Next]_vars
      => [pc' = "down" /\ pc \in {"idle", "down"} => proj'.height = cursor'.height]_vars
  BY <1>1
<1>3. Spec => []CInv
  BY TablesHold
<1> QED
  BY <1>2, <1>3, PTL DEF Spec, Settled

-----------------------------------------------------------------------------
(* The invariant of the replay substrate *)

\* The block up to which raw_blocks holds the actions of the chain, and nothing else.
RawsTip ==
  IF pc \in {"replay", "reset"} THEN Parent[block]
  ELSE IF pc = "save" THEN block
  ELSE IF pc = "down" THEN ResumeTip
  ELSE tip

HoldsExactly(table, b) ==
  /\ HoldsCarriers(table, b)
  /\ \A h \in Heights : h > HeightOf(b) => table[h] = Missing

RawsOK == HoldsExactly(raws, RawsTip) /\ (pc = "raw" => block \in Carriers)

LEMMA RawsPut ==
  ASSUME NEW b \in Blocks, NEW table \in Table, HoldsExactly(table, Parent[b])
  PROVE  /\ b \notin Carriers => HoldsExactly(table, b)
         /\ b \in Carriers => HoldsExactly([table EXCEPT ![HeightOf(b)] = b], b)
<1> DEFINE t == [table EXCEPT ![HeightOf(b)] = b]
           p == Parent[b]
<1>1. /\ HeightOf(b) \in Heights /\ 1 .. HeightOf(b) \subseteq Heights
      /\ HeightOf(b) \in Nat /\ HeightOf(p) \in Nat /\ HeightOf(b) = HeightOf(p) + 1
  BY HeightType, HeightStep
<1>2. table[HeightOf(b)] = Missing
  BY <1>1 DEF HoldsExactly
<1>3. \A h \in Heights : t[h] = IF h = HeightOf(b) THEN b ELSE table[h]
  BY DEF Table
<1>4. \A h \in Heights : h \in Nat
  BY UptoType
<1>5. \A h \in Heights : h > HeightOf(b) => table[h] = Missing /\ t[h] = Missing
  <2> HIDE DEF t
  <2> QED
    BY <1>1, <1>3, <1>4 DEF HoldsExactly
<1>6. ASSUME NEW h \in 1 .. HeightOf(b)
      PROVE  IF h = HeightOf(b) THEN At(b, h) = b
             ELSE table[h] = IF At(b, h) \in Carriers THEN At(b, h) ELSE Missing
  BY AtStep DEF HoldsExactly, HoldsCarriers
<1>7. ASSUME b \notin Carriers PROVE HoldsCarriers(table, b)
  BY <1>2, <1>6, <1>7 DEF HoldsCarriers
<1>8. ASSUME b \in Carriers PROVE HoldsCarriers(t, b)
  BY <1>1, <1>3, <1>6, <1>8 DEF HoldsCarriers
<1> QED
  BY <1>5, <1>7, <1>8 DEF HoldsExactly

LEMMA RawsCut ==
  ASSUME NEW b \in Blocks, NEW a \in Ancestors[b], NEW table \in Table,
         HoldsExactly(table, b)
  PROVE  HoldsExactly(Cut(table, HeightOf(a)), a)
<1>1. a \in Tips /\ HeightOf(a) \in Nat /\ HeightOf(a) <= HeightOf(a)
  BY AncestorIsLower DEF Tips
<1>2. HoldsCarriers(table, a)
  BY HoldsAncestor DEF HoldsExactly
<1> QED
  BY <1>1, <1>2, HoldsCut DEF HoldsExactly

LEMMA RawsCutTop ==
  ASSUME NEW b \in Tips, NEW table \in Table, HoldsExactly(table, b)
  PROVE  HoldsExactly(Cut(table, HeightOf(b)), b)
<1>1. HeightOf(b) \in Nat /\ HeightOf(b) <= HeightOf(b)
  BY TipsHeight
<1> QED
  BY <1>1, HoldsCut DEF HoldsExactly

\* A pass ends, or a refold does, with the projection at the cursor.
LEMMA SettledResumes ==
  ASSUME Typed, CursorOK, proj.height = cursor.height
  PROVE  ResumeTip = cursor.tip
<1>1. ResumeHeight = cursor.height /\ cursor.height = HeightOf(cursor.tip) /\ cursor.tip \in Tips
  BY ResumeType DEF ResumeHeight
<1> QED
  BY <1>1, BelowTop DEF ResumeTip

LEMMA InitRaws == Init => RawsOK
<1> SUFFICES ASSUME Init PROVE RawsOK
  OBVIOUS
<1>1. CInv
  BY InitC
<1>2. RawsTip = Start
  <2>1. ResumeHeight \in 0 .. HeightOf(cursor.tip) /\ cursor.tip = Start
    BY <1>1, ResumeType DEF CInv, Init
  <2> QED
    BY <2>1, HeightOfStart DEF RawsTip, ResumeTip, Below, Init
<1>3. \A h \in Heights : raws[h] = Missing
  BY DEF Init, Empty
<1> QED
  BY <1>2, <1>3, HeightOfStart DEF RawsOK, HoldsExactly, HoldsCarriers, Init

\* A step that leaves the substrate and the block it holds up to.
LEMMA RawsStay ==
  ASSUME RawsOK, raws' = raws, RawsTip' = RawsTip, pc' = "raw" => block' \in Carriers
  PROVE  RawsOK'
  BY DEF RawsOK, HoldsExactly, HoldsCarriers

LEMMA RawsTaken ==
  ASSUME NEW b, HoldsExactly(raws', b), RawsTip' = b, pc' # "raw"
  PROVE  RawsOK'
  BY DEF RawsOK, HoldsExactly, HoldsCarriers

LEMMA NextRaws ==
  ASSUME CInv, RawsOK, [Next]_vars, Refolds \subseteq {"settled"}, CrashAt \subseteq {"reset"}
  PROVE  RawsOK'
<1>1. CASE Boot
  <2>1. pc = "down" /\ pc' = "idle" /\ raws' = raws /\ tip' = ResumeTip
    BY <1>1, BootTakes DEF Boot
  <2> QED
    BY <2>1, RawsStay DEF RawsTip
<1>2. CASE FoldSome
  BY <1>2, RawsStay DEF FoldSome, FoldBlock, RawsTip, disk
<1>3. CASE ReorgSome \/ (\E b \in Blocks : TurnTo(b)) \/ Project
  BY <1>3, RawsStay DEF ReorgSome, StartReorg, TurnTo, Project, RawsTip, disk, memory, control
<1>4. CASE PutBlock
  <2>1. /\ pc = "put" /\ raws' = raws /\ tip' = tip /\ block' = block
        /\ pc' = IF block \in Carriers THEN "raw" ELSE "save"
    BY <1>4 DEF PutBlock, memory
  <2>2. CASE block \in Carriers
    BY <2>1, <2>2, RawsStay DEF RawsTip
  <2>3. CASE block \notin Carriers
    <3>1. block \in Blocks /\ Parent[block] = tip /\ raws \in Table
      BY <2>1 DEF CInv, BlockOK, Typed, Connecting
    <3>2. HoldsExactly(raws, tip)
      BY <2>1 DEF RawsOK, RawsTip
    <3>3. HoldsExactly(raws', block)
      BY <2>1, <2>3, <3>1, <3>2, RawsPut
    <3>4. RawsTip' = block /\ pc' # "raw"
      BY <2>1, <2>3 DEF RawsTip
    <3> QED
      BY <3>3, <3>4, RawsTaken
  <2> QED
    BY <2>2, <2>3
<1>5. CASE PutRaw
  <2>1. /\ pc = "raw" /\ pc' = "save" /\ raws' = [raws EXCEPT ![height + 1] = block]
        /\ block' = block
    BY <1>5 DEF PutRaw
  <2>2. /\ block \in Blocks /\ Parent[block] = tip /\ raws \in Table
        /\ HeightOf(block) = height + 1
    BY <2>1, InPass DEF CInv, BlockOK, Typed, Connecting
  <2>3. HoldsExactly(raws, tip) /\ block \in Carriers
    BY <2>1 DEF RawsOK, RawsTip
  <2>4. HoldsExactly(raws', block)
    BY <2>1, <2>2, <2>3, RawsPut
  <2>5. RawsTip' = block /\ pc' # "raw"
    BY <2>1 DEF RawsTip
  <2> QED
    BY <2>4, <2>5, RawsTaken
<1>6. CASE SaveCursor
  BY <1>6, RawsStay DEF SaveCursor, RawsTip
<1>7. CASE PruneBlocks
  BY <1>7, RawsStay DEF PruneBlocks, RawsTip, memory
<1>8. CASE PruneRaws
  <2>1. /\ pc = "pruneRaw" /\ pc' = "replay" /\ raws' = Cut(raws, fork) /\ block' = block
    BY <1>8 DEF PruneRaws
  <2>2. /\ tip \in Blocks /\ Parent[block] \in Ancestors[tip]
        /\ HeightOf(Parent[block]) = fork /\ raws \in Table
    BY <2>1, RollsBack DEF RollingBack, CInv, Typed
  <2>3. HoldsExactly(raws, tip)
    BY <2>1 DEF RawsOK, RawsTip
  <2>4. HoldsExactly(raws', Parent[block])
    BY <2>1, <2>2, <2>3, RawsCut
  <2>5. RawsTip' = Parent[block] /\ pc' # "raw"
    BY <2>1 DEF RawsTip
  <2> QED
    BY <2>4, <2>5, RawsTaken
<1>9. CASE ReplayRaws
  BY <1>9, RawsStay DEF ReplayRaws, RawsTip
<1>10. CASE ResetCursor
  BY <1>10, ResetCursorC, RawsStay DEF ResetCursor, RawsTip
<1>11. CASE EndPass
  <2>1. /\ pc = "idle" /\ pc' = "down" /\ raws' = raws /\ cursor' = cursor
        /\ proj' = Projection(state)
    BY <1>11 DEF EndPass
  <2>2. CInv' /\ proj'.height = cursor'.height /\ cursor'.tip = tip
    BY <1>11, <2>1, EndPassC, IdleC, InPass
  <2>3. ResumeTip' = cursor'.tip
    <3>1. (Typed /\ CursorOK /\ proj.height = cursor.height => ResumeTip = cursor.tip)'
      BY SettledResumes, PTL
    <3> QED
      BY <2>2, <3>1 DEF CInv
  <2> QED
    BY <2>1, <2>2, <2>3, RawsStay DEF RawsTip
<1>12. CASE Refold
  <2>1. /\ pc = "down" /\ pc' = "down" /\ raws' = Cut(raws, cursor.height) /\ cursor' = cursor
        /\ proj' = Projection(Rebuilt(Cut(blocks, cursor.height), cursor.height))
    BY <1>12, RefoldAt DEF Refold, control
  <2>2. /\ CInv' /\ proj'.height = cursor'.height
        /\ cursor.tip \in Tips /\ cursor.height = HeightOf(cursor.tip) /\ raws \in Table
    BY <1>12, <2>1, RefoldC, RefoldAt, RebuiltType DEF CInv, Typed
  <2>3. ResumeTip' = cursor'.tip
    <3>1. (Typed /\ CursorOK /\ proj.height = cursor.height => ResumeTip = cursor.tip)'
      BY SettledResumes, PTL
    <3> QED
      BY <2>2, <3>1 DEF CInv
  <2>4. HoldsExactly(raws, cursor.tip)
    BY <1>12, RefoldAt DEF RawsOK, RawsTip
  <2>5. HoldsExactly(raws', cursor.tip)
    BY <2>1, <2>2, <2>4, RawsCutTop
  <2>6. RawsTip' = cursor.tip /\ pc' # "raw"
    BY <2>1, <2>3 DEF RawsTip
  <2> QED
    BY <2>5, <2>6, RawsTaken
<1>13. CASE Crash
  <2>1. /\ pc = "reset" /\ pc' = "down" /\ UNCHANGED <<raws, cursor, proj>>
    BY <1>13 DEF Crash, disk
  <2>2. /\ fork \in Nat /\ fork < height /\ Below(tip, fork) = Parent[block]
        /\ proj.height = fork /\ cursor.tip = tip /\ cursor.height = height
    BY <2>1, RollsBack DEF RollingBack, CInv, BlockOK, CursorOK
  <2>3. ResumeHeight = fork
    BY <2>2 DEF ResumeHeight
  <2>4. RawsTip' = RawsTip
    BY <2>1, <2>2, <2>3 DEF RawsTip, ResumeTip, ResumeHeight
  <2> QED
    BY <2>1, <2>4, RawsStay
<1>14. CASE UNCHANGED vars
  BY <1>14, RawsStay DEF vars, RawsTip, ResumeTip, ResumeHeight, RawsOK
<1> QED
  BY <1>1, <1>2, <1>3, <1>4, <1>5, <1>6, <1>7, <1>8, <1>9, <1>10, <1>11, <1>12, <1>13, <1>14
  DEF Next, Proceed

-----------------------------------------------------------------------------
(* The invariant of the state *)

\* Nothing is ever rebuilt from the substrate.
Lossless == ~Reorgs /\ Refolds = {}

\* The heights whose blocks a state has to have seen, on the chain of b.
Sees(b) ==
  {S \in SUBSET Heights :
     /\ \A h \in 1 .. HeightOf(b) : At(b, h) \in Carriers => h \in S
     /\ Lossless => S = Heights}

SeenAs(s, b) == \E S \in Sees(b) : s = FoldAt(b, S)

\* The state in memory, and the projection, which is never ahead of the cursor,
\* have seen the chain they stand on.
StateOK ==
  /\ pc # "down" => SeenAs(state, Stand)
  /\ proj.height <= cursor.height
  /\ proj.height >= 0 => SeenAs(proj.state, Below(cursor.tip, proj.height))
  /\ proj.height < 0 => Fresh
  /\ proj.height < 0 /\ pc = "down" => cursor.tip = Start /\ proj.state = EmptyState

\* When a rebuilt state has to have seen every action.
Careful ==
  /\ Refolds \subseteq {"settled"}
  /\ Fresh \/ ~Lossless => CrashAt \subseteq {"reset"}

LEMMA SeenType ==
  ASSUME NEW b \in Tips, NEW s, SeenAs(s, b)
  PROVE  IsState(s) /\ s.at = HeightOf(b)
  BY FoldAtType DEF SeenAs

LEMMA SeenStart == SeenAs(EmptyState, Start)
<1>1. Heights \in Sees(Start)
  BY HeightOfStart DEF Sees
<1> QED
  BY <1>1, FoldAtStart DEF SeenAs

\* Connecting a block sees it.
LEMMA SeenConnected ==
  ASSUME NEW b \in Blocks, NEW p \in Tips, p = Parent[b], NEW f \in Table, Holds(f, p),
         NEW s, SeenAs(s, p)
  PROVE  SeenAs(Connected(s, f, b, HeightOf(b)), b)
<1> DEFINE h == HeightOf(b)
<1>1. PICK S \in Sees(p) : s = FoldAt(p, S)
  BY DEF SeenAs
<1> DEFINE T == S \cup {h}
<1>2. h \in Heights /\ h \in Nat /\ HeightOf(p) \in Nat /\ h = HeightOf(p) + 1
  BY HeightStep, HeightType
<1>3. S \in SUBSET Heights /\ T \in SUBSET Heights /\ (Lossless => T = Heights)
  BY <1>2 DEF Sees
<1>4. ASSUME NEW k \in 1 .. h, At(b, k) \in Carriers PROVE k \in T
  <2>1. CASE k = h
    BY <2>1
  <2>2. CASE k # h
    <3>1. k \in 1 .. HeightOf(p) /\ At(b, k) = At(p, k)
      BY <2>2, AtStep
    <3> QED
      BY <1>4, <3>1 DEF Sees
  <2> QED
    BY <2>1, <2>2
<1>5. T \in Sees(b)
  BY <1>3, <1>4 DEF Sees
<1>6. FoldAt(p, T) = FoldAt(p, S)
  <2>1. \A k \in 1 .. HeightOf(p) : k \in T <=> k \in S
    BY <1>2
  <2> QED
    BY <2>1, FoldAtReads
<1>7. Median(f, h) = Median(ChainOf(b), h)
  <2>1. DOMAIN f = Heights
    BY DEF Table
  <2> QED
    BY <2>1, MedianOfChain
<1>8. FoldAt(b, T) = Folded(FoldAt(p, T), b, h, Median(ChainOf(b), h))
  BY FoldAtStep
<1>9. Connected(s, f, b, h) = FoldAt(b, T)
  BY <1>1, <1>6, <1>7, <1>8 DEF Connected
<1> QED
  BY <1>5, <1>9 DEF SeenAs

\* A state rebuilt from the actions of a chain has seen it.
LEMMA SeenRebuilt ==
  ASSUME NEW b \in Tips, ~Lossless, raws \in Table, NEW f \in Table, Holds(f, b),
         HoldsCarriers(raws, b)
  PROVE  SeenAs(Rebuilt(f, HeightOf(b)), b)
<1> DEFINE h == HeightOf(b)
           t == Cut(raws, h)
           S == RowsAt(t)
<1>1. h \in Nat /\ h <= h
  BY TipsHeight
<1>2. HoldsCarriers(t, b) /\ DOMAIN f = Heights
  BY <1>1, HoldsCut DEF Table
<1>3. Rebuilt(f, h) = FoldAt(b, S)
  <2> HIDE DEF t
  <2>1. [Replay(t, f)[HeightOf(b)] EXCEPT !.at = HeightOf(b)] = FoldAt(b, RowsAt(t))
    BY <1>2, ReplayIsFold
  <2> QED
    BY <2>1 DEF Rebuilt, t
<1>4. S \in Sees(b)
  <2>1. ASSUME NEW k \in 1 .. HeightOf(b), At(b, k) \in Carriers PROVE k \in S
    <3>1. k \in Heights /\ b \in Blocks
      BY HeightsOfTip, HeightOfStart DEF Tips
    <3>2. t[k] = At(b, k) /\ At(b, k) \in Blocks
      BY <1>2, <2>1, <3>1, AtType DEF HoldsCarriers
    <3> QED
      BY <3>1, <3>2, MissingIsNone DEF RowsAt
  <2>2. S \in SUBSET Heights
    BY DEF RowsAt
  <2> HIDE DEF S
  <2> QED
    BY <2>1, <2>2 DEF Sees
<1> QED
  BY <1>3, <1>4 DEF SeenAs

LEMMA InitState == Init => StateOK
<1> SUFFICES ASSUME Init PROVE StateOK
  OBVIOUS
<1>1. /\ pc = "down" /\ cursor.height = 0 /\ cursor.tip = Start /\ proj.state = EmptyState
      /\ proj.height = IF Fresh THEN -1 ELSE 0
  BY DEF Init
<1>2. SeenAs(proj.state, Below(cursor.tip, 0))
  BY <1>1, SeenStart DEF Below
<1> QED
  BY <1>1, <1>2 DEF StateOK

LEMMA ProjHeight ==
  ASSUME NEW p \in Upto \cup {-1}
  PROVE  p \in Int /\ (p >= 0 => p \in Nat /\ p \in Upto)
<1>1. p = -1 \/ (p \in Upto /\ p \in Nat)
  BY UptoType
<1> QED
  BY <1>1

\* A step that leaves the projection and the cursor.
LEMMA ProjStays ==
  ASSUME StateOK, proj' = proj, cursor' = cursor, pc' # "down" => SeenAs(state', Stand'),
         pc' = "down" => pc = "down" \/ ~(proj.height < 0)
  PROVE  StateOK'
  BY DEF StateOK

\* A step that projects a state, at the cursor or below.
LEMMA ProjTaken ==
  ASSUME StateOK, NEW h \in 0 .. HeightOf(cursor.tip), proj'.height = h,
         SeenAs(proj'.state, Below(cursor.tip, h)), cursor' = cursor,
         cursor.tip \in Tips, cursor.height = HeightOf(cursor.tip),
         pc' # "down" => SeenAs(state', Stand')
  PROVE  StateOK'
<1>1. HeightOf(cursor.tip) \in Nat
  BY TipsHeight
<1>2. /\ proj'.height <= cursor'.height /\ ~(proj'.height < 0)
      /\ SeenAs(proj'.state, Below(cursor'.tip, proj'.height))
  BY <1>1
<1> QED
  BY <1>2 DEF StateOK

LEMMA BootState ==
  ASSUME CInv, StateOK, Boot
  PROVE  StateOK'
<1>1. /\ pc = "down" /\ pc' = "idle" /\ proj' = proj
      /\ state' = [proj.state EXCEPT !.at = ResumeHeight]
  BY DEF Boot, Loaded
<1>2. /\ tip' = ResumeTip /\ cursor'.height = ResumeHeight /\ cursor'.tip = ResumeTip
  BY BootTakes
<1>3. /\ cursor.tip \in Tips /\ cursor.height \in Nat /\ cursor.height = HeightOf(cursor.tip)
      /\ ResumeTip \in Tips /\ HeightOf(ResumeTip) = ResumeHeight
      /\ ResumeHeight \in Nat /\ ResumeHeight \in 0 .. HeightOf(cursor.tip)
      /\ proj.height \in Upto \cup {-1} /\ proj.height <= cursor.height
  BY ResumeType DEF CInv, Typed, StateOK
<1>4. Stand' = tip'
  BY <1>1 DEF Stand, Connecting
<1>5. CASE proj.height < 0
  <2>1. cursor.tip = Start /\ proj.state = EmptyState
    BY <1>1, <1>5 DEF StateOK
  <2>2. ResumeHeight = 0
    BY <1>3, <2>1, HeightOfStart
  <2>3. ResumeTip = Start
    BY <2>2 DEF ResumeTip, Below
  <2>4. state' = EmptyState
    BY <1>1, <2>1, <2>2 DEF EmptyState
  <2>5. SeenAs(state', Stand')
    BY <1>2, <1>4, <2>3, <2>4, SeenStart
  <2>6. ~(proj.height >= 0) /\ proj.height <= 0 /\ Fresh
    BY <1>3, <1>5, ProjHeight DEF StateOK
  <2>7. proj'.height <= cursor'.height /\ ~(proj'.height >= 0)
    BY <1>1, <1>2, <2>2, <2>6
  <2> QED
    BY <1>1, <2>5, <2>6, <2>7 DEF StateOK
<1>6. CASE proj.height >= 0
  <2>1. proj.height \in Nat
    BY <1>3, <1>6, ProjHeight
  <2>2. ResumeHeight = proj.height
    BY <1>3, <2>1 DEF ResumeHeight
  <2>3. SeenAs(proj.state, ResumeTip)
    BY <1>6, <2>2 DEF StateOK, ResumeTip
  <2>4. IsState(proj.state) /\ proj.state.at = ResumeHeight
    BY <1>3, <2>3, SeenType
  <2>5. state' = proj.state
    BY <1>1, <2>4, RaisedSame
  <2>6. Below(cursor'.tip, proj.height) = ResumeTip
    BY <1>2, <1>3, <2>2, BelowTop
  <2>7. /\ SeenAs(state', Stand') /\ SeenAs(proj'.state, Below(cursor'.tip, proj'.height))
        /\ proj'.height <= cursor'.height /\ ~(proj'.height < 0)
    BY <1>1, <1>2, <1>3, <1>4, <2>1, <2>2, <2>3, <2>5, <2>6
  <2> QED
    BY <1>1, <2>7 DEF StateOK
<1>7. proj.height < 0 \/ proj.height >= 0
  BY <1>3, ProjHeight
<1> QED
  BY <1>5, <1>6, <1>7

LEMMA FoldBlockState ==
  ASSUME CInv, StateOK, NEW b \in Blocks, FoldBlock(b)
  PROVE  StateOK'
<1>1. /\ pc = "idle" /\ pc' = "put" /\ block' = b /\ proj' = proj /\ cursor' = cursor
      /\ state' = Connected(state, feed, b, height + 1) /\ tip = Parent[b]
  BY DEF FoldBlock, disk
<1>2. tip \in Tips /\ height = HeightOf(tip) /\ feed \in Table /\ Holds(feed, tip) /\ Stand = tip
  BY <1>1, IdleC, InPass DEF CInv, Typed
<1>3. HeightOf(b) = height + 1
  BY <1>1, <1>2, HeightStep
<1>4. SeenAs(state', b)
  BY <1>1, <1>2, <1>3, SeenConnected DEF StateOK
<1>5. Stand' = b
  BY <1>1 DEF Stand, Connecting
<1> QED
  BY <1>1, <1>4, <1>5, ProjStays

LEMMA SaveCursorState ==
  ASSUME CInv, StateOK, SaveCursor
  PROVE  StateOK'
<1>1. /\ pc = "save" /\ pc' = "idle" /\ tip' = block /\ proj' = proj /\ state' = state
      /\ cursor'.height = height + 1 /\ cursor'.tip = block
  BY DEF SaveCursor
<1>2. /\ block \in Blocks /\ Parent[block] = tip /\ height \in Nat /\ height = HeightOf(tip)
      /\ cursor.tip = tip /\ cursor.height = height /\ proj.height \in Upto \cup {-1}
  BY <1>1, InPass DEF CInv, BlockOK, Typed, Connecting
<1>3. Stand = block /\ Stand' = block
  BY <1>1 DEF Stand, Connecting
<1>4. proj.height <= height /\ (proj.height < 0 => Fresh)
  BY <1>2 DEF StateOK
<1>5. proj.height \in Int
  BY <1>2, ProjHeight
<1>6. ASSUME proj.height >= 0 PROVE SeenAs(proj.state, Below(block, proj.height))
  <2>1. proj.height \in 0 .. HeightOf(Parent[block])
    BY <1>2, <1>4, <1>5, <1>6
  <2>2. Below(block, proj.height) = Below(tip, proj.height)
    BY <1>2, <2>1, BelowParent
  <2> QED
    BY <1>2, <1>6, <2>2 DEF StateOK
<1>7. SeenAs(state', Stand')
  BY <1>1, <1>3 DEF StateOK
<1>8. proj'.height <= cursor'.height
  BY <1>1, <1>2, <1>4, <1>5
<1> QED
  BY <1>1, <1>4, <1>6, <1>7, <1>8 DEF StateOK

LEMMA ProjectState ==
  ASSUME CInv, StateOK, pc = "idle", proj' = Projection(state), UNCHANGED <<cursor, tip, state>>,
         pc' \in {"idle", "down"}
  PROVE  StateOK'
<1>1. /\ Stand = tip /\ Projection(state).height = height /\ Projection(state).state = state
      /\ tip \in Tips /\ height = HeightOf(tip) /\ cursor.tip = tip /\ cursor.height = height
      /\ height \in Nat
  BY IdleC, InPass
<1>2. SeenAs(state, tip) /\ Below(tip, height) = tip /\ height \in 0 .. HeightOf(tip)
  BY <1>1, BelowTop DEF StateOK
<1>3. pc' # "down" => SeenAs(state', Stand')
  BY <1>2 DEF Stand, Connecting
<1> QED
  BY <1>1, <1>2, <1>3, ProjTaken

\* A state is rebuilt from a substrate that holds every action.
LEMMA ReplayRawsState ==
  ASSUME CInv, RawsOK, StateOK, ReplayRaws
  PROVE  StateOK'
<1>1. /\ pc = "replay" /\ pc' = "reset" /\ block' = block /\ cursor' = cursor
      /\ state' = Rebuilt(Cut(feed, fork), fork)
      /\ proj' = Projection(Rebuilt(Cut(feed, fork), fork))
  BY DEF ReplayRaws
<1>2. /\ tip \in Blocks /\ Reorgs /\ Parent[block] \in Ancestors[tip] /\ Parent[block] \in Tips
      /\ HeightOf(Parent[block]) = fork /\ Below(tip, fork) = Parent[block]
      /\ fork \in 0 .. HeightOf(tip) /\ fork \in Nat /\ fork \in Upto
  BY <1>1, RollsBack, UptoType DEF RollingBack
<1>3. raws \in Table /\ feed \in Table /\ Holds(feed, tip) /\ HoldsCarriers(raws, Parent[block])
  BY <1>1 DEF CInv, Typed, MemoryOK, Stand, Connecting, RawsOK, RawsTip, HoldsExactly
<1>4. Cut(feed, fork) \in Table /\ Holds(Cut(feed, fork), Parent[block])
  BY <1>2, <1>3, HoldsAncestor, HoldsCut
<1>5. SeenAs(Rebuilt(Cut(feed, fork), fork), Parent[block])
  BY <1>2, <1>3, <1>4, SeenRebuilt DEF Lossless
<1>6. proj'.height = fork /\ proj'.state = Rebuilt(Cut(feed, fork), fork)
  BY <1>1, <1>2, RebuiltType
<1>7. cursor.tip = tip /\ cursor.height = HeightOf(cursor.tip) /\ cursor.tip \in Tips
  BY <1>1, InPass
<1>8. SeenAs(state', Stand')
  BY <1>1, <1>5 DEF Stand, Connecting
<1>9. fork \in 0 .. HeightOf(cursor.tip) /\ SeenAs(proj'.state, Below(cursor.tip, fork))
  BY <1>2, <1>5, <1>6, <1>7
<1> QED
  BY <1>1, <1>6, <1>7, <1>8, <1>9, ProjTaken

LEMMA ResetCursorState ==
  ASSUME CInv, StateOK, ResetCursor
  PROVE  StateOK'
<1>1. /\ pc = "reset" /\ block' = block /\ proj' = proj
      /\ \/ pc' = "put" /\ state' = Connected(state, feed, block, fork + 1)
         \/ pc' = "idle" /\ state' = state
  BY DEF ResetCursor
<1>2. /\ tip' = Parent[block] /\ cursor'.tip = Parent[block] /\ cursor'.height = fork
      /\ Stand = Parent[block] /\ cursor.tip = tip
  BY <1>1, ResetCursorC, InPass
<1>3. /\ block \in Blocks /\ Parent[block] \in Tips /\ HeightOf(block) = fork + 1
      /\ HeightOf(Parent[block]) = fork /\ Below(tip, fork) = Parent[block] /\ fork \in Nat
  BY <1>1, RollsBack DEF RollingBack
<1>4. feed \in Table /\ Holds(feed, Parent[block]) /\ proj.height = fork
  BY <1>1, <1>2 DEF CInv, Typed, MemoryOK, BlockOK
<1>5. SeenAs(state, Parent[block])
  BY <1>1, <1>2 DEF StateOK
<1>6. SeenAs(state', Stand')
  <2>1. CASE pc' = "put" /\ state' = Connected(state, feed, block, fork + 1)
    BY <1>1, <1>3, <1>4, <1>5, <2>1, SeenConnected DEF Stand, Connecting
  <2>2. CASE pc' = "idle" /\ state' = state
    BY <1>2, <1>5, <2>2 DEF Stand, Connecting
  <2> QED
    BY <1>1, <2>1, <2>2
<1>7. SeenAs(proj.state, Parent[block])
  BY <1>2, <1>3, <1>4 DEF StateOK
<1>8. Below(Parent[block], fork) = Parent[block]
  BY <1>3, BelowTop
<1>9. /\ proj'.height <= cursor'.height /\ ~(proj'.height < 0)
      /\ SeenAs(proj'.state, Below(cursor'.tip, proj'.height))
  BY <1>1, <1>2, <1>3, <1>4, <1>7, <1>8
<1> QED
  BY <1>6, <1>9 DEF StateOK

LEMMA RefoldState ==
  ASSUME CInv, RawsOK, StateOK, Refold, Refolds \subseteq {"settled"}
  PROVE  StateOK'
<1>1. /\ pc = "down" /\ pc' = "down" /\ cursor' = cursor /\ Refolds # {}
      /\ proj' = Projection(Rebuilt(Cut(blocks, cursor.height), cursor.height))
  BY RefoldAt DEF Refold, control
<1>2. /\ cursor.tip \in Tips /\ cursor.height = HeightOf(cursor.tip)
      /\ cursor.height \in Nat /\ cursor.height \in Upto
      /\ Holds(blocks, cursor.tip) /\ ResumeTip = cursor.tip /\ raws \in Table /\ blocks \in Table
  BY RefoldAt DEF CInv, Typed
<1>3. HoldsCarriers(raws, cursor.tip)
  BY <1>1, <1>2 DEF RawsOK, RawsTip, HoldsExactly
<1> DEFINE f == Cut(blocks, cursor.height)
           s == Rebuilt(f, cursor.height)
<1>4. f \in Table /\ Holds(f, cursor.tip)
  BY <1>2, HoldsCut
<1> HIDE DEF f
<1>5. SeenAs(s, cursor.tip)
  BY <1>1, <1>2, <1>3, <1>4, SeenRebuilt DEF Lossless
<1>6. proj'.height = cursor.height /\ proj'.state = s
  BY <1>1, <1>2, RebuiltType DEF f
<1> HIDE DEF s
<1>7. /\ HeightOf(cursor.tip) \in 0 .. HeightOf(cursor.tip)
      /\ Below(cursor.tip, HeightOf(cursor.tip)) = cursor.tip
  BY <1>2, BelowTop
<1> QED
  BY <1>1, <1>2, <1>5, <1>6, <1>7, ProjTaken

LEMMA CrashState ==
  ASSUME CInv, StateOK, Crash, Careful
  PROVE  StateOK'
<1>1. pc \in CrashAt /\ pc' = "down" /\ proj' = proj /\ cursor' = cursor
  BY DEF Crash, disk
<1>2. ~(proj.height < 0)
  <2>1. CASE Fresh
    <3>1. pc = "reset"
      BY <1>1, <2>1 DEF Careful
    <3>2. proj.height = fork /\ fork \in Nat
      BY <3>1, RollsBack DEF CInv, BlockOK, RollingBack
    <3> QED
      BY <3>2
  <2> QED
    BY <2>1 DEF StateOK
<1> QED
  BY <1>1, <1>2, ProjStays

LEMMA NextState ==
  ASSUME CInv, ~Lossless => RawsOK, StateOK, [Next]_vars, Careful
  PROVE  StateOK'
<1>1. CASE Boot
  BY <1>1, BootState
<1>2. CASE FoldSome
  BY <1>2, FoldBlockState DEF FoldSome
<1>3. CASE PutBlock \/ PutRaw
  <2>1. /\ pc \in Connecting /\ pc' \in Connecting /\ UNCHANGED <<proj, cursor, state, block>>
    BY <1>3 DEF PutBlock, PutRaw, memory, Connecting
  <2>2. SeenAs(state', Stand')
    BY <2>1 DEF StateOK, Stand, Connecting
  <2> QED
    BY <2>1, <2>2, ProjStays DEF Connecting
<1>4. CASE SaveCursor
  BY <1>4, SaveCursorState
<1>5. CASE ReorgSome \/ (\E b \in Blocks : TurnTo(b)) \/ PruneBlocks \/ PruneRaws
  <2>1. /\ pc \in {"idle", "prune", "pruneRaw"} /\ UNCHANGED <<proj, cursor, state, tip>>
        /\ pc' \in {"idle", "prune", "pruneRaw", "replay"}
    BY <1>5 DEF ReorgSome, StartReorg, TurnTo, PruneBlocks, PruneRaws, memory, disk
  <2>2. SeenAs(state', Stand')
    BY <2>1 DEF StateOK, Stand, Connecting
  <2> QED
    BY <2>1, <2>2, ProjStays
<1>6. CASE Project \/ EndPass
  BY <1>6, ProjectState DEF Project, EndPass, memory, control
<1>7. CASE ReplayRaws
  <2>1. ~Lossless
    BY <1>7, RollsBack DEF ReplayRaws, RollingBack, Lossless
  <2> QED
    BY <1>7, <2>1, ReplayRawsState
<1>8. CASE ResetCursor
  BY <1>8, ResetCursorState
<1>9. CASE Refold
  BY <1>9, RefoldState DEF Refold, Lossless, Careful
<1>10. CASE Crash
  BY <1>10, CrashState
<1>11. CASE UNCHANGED vars
  <2>1. UNCHANGED <<proj, cursor, state, pc, block, tip>>
    BY <1>11 DEF vars
  <2>2. pc' # "down" => SeenAs(state', Stand')
    BY <2>1 DEF StateOK, Stand
  <2> QED
    BY <2>1, <2>2, ProjStays
<1> QED
  BY <1>1, <1>2, <1>3, <1>4, <1>5, <1>6, <1>7, <1>8, <1>9, <1>10, <1>11 DEF Next, Proceed

\* Where the substrate is kept: no crash falls between the statements of a block
\* or of a rollback, but after the projection.
LEMMA RawsHold ==
  ASSUME Refolds \subseteq {"settled"}, CrashAt \subseteq {"reset"}
  PROVE  Spec => [](CInv /\ RawsOK)
<1>1. Reorgs => CrashAt \cap {"pruneRaw", "replay"} = {}
  OBVIOUS
<1>2. CInv /\ RawsOK /\ [Next]_vars => CInv' /\ RawsOK'
  BY <1>1, NextC, NextRaws
<1> QED
  BY <1>2, InitC, InitRaws, PTL DEF Spec

\* Between two blocks the replay substrate holds the carrier blocks of the chain,
\* and of it only: what a rollback stores, prunes and replays is the chain's own
\* history (sync.c:161-167, 198-203).
THEOREM SubstrateHolds ==
  ASSUME Refolds \subseteq {"settled"}, CrashAt \subseteq {"reset"}
  PROVE  Spec => []SubstrateOfChain
<1>1. CInv /\ RawsOK => SubstrateOfChain
  <2> SUFFICES ASSUME CInv, RawsOK, pc = "idle", NEW h \in 1 .. height
               PROVE  raws[h] = IF blocks[h] \in Carriers THEN blocks[h] ELSE Missing
    BY DEF SubstrateOfChain
  <2>1. height = HeightOf(tip) /\ HoldsCarriers(raws, tip) /\ Holds(blocks, tip)
    BY InPass DEF RawsOK, RawsTip, HoldsExactly, CInv, RowsTip
  <2> QED
    BY <2>1 DEF Holds, HoldsCarriers
<1> QED
  BY <1>1, RawsHold, PTL

\* The state is kept where the rows it is rebuilt from are.
LEMMA StateHolds ==
  ASSUME Careful
  PROVE  Spec => [](CInv /\ StateOK)
<1> DEFINE Substrate == ~Lossless => RawsOK
<1>1. /\ Refolds \subseteq {"settled"} /\ (Reorgs => CrashAt \cap {"pruneRaw", "replay"} = {})
      /\ ~Lossless => CrashAt \subseteq {"reset"}
  BY DEF Careful, Lossless
<1>2. Init => CInv /\ Substrate /\ StateOK
  BY InitC, InitRaws, InitState
<1>3. CInv /\ Substrate /\ StateOK /\ [Next]_vars => CInv' /\ Substrate' /\ StateOK'
  <2> SUFFICES ASSUME CInv, Substrate, StateOK, [Next]_vars
               PROVE  CInv' /\ Substrate' /\ StateOK'
    OBVIOUS
  <2>1. CInv' /\ StateOK'
    BY <1>1, NextC, NextState
  <2>2. ~Lossless => RawsOK'
    BY <1>1, NextRaws
  <2> QED
    BY <2>1, <2>2 DEF Lossless
<1> HIDE DEF Substrate
<1> QED
  BY <1>2, <1>3, PTL DEF Spec

\* Between two blocks the state has seen every action of the chain, at its height
\* and in order, whatever was connected, rolled back, projected and refolded: no
\* block's actions are silently skipped (sync.c:970-973).
THEOREM ActionsSeen ==
  ASSUME Refolds \subseteq {"settled"},
         Fresh \/ Reorgs \/ Refolds # {} => CrashAt \subseteq {"reset"}
  PROVE  Spec => []NoActionLost
<1>1. Careful
  BY DEF Careful, Lossless
<1>2. CInv /\ StateOK => NoActionLost
  <2> SUFFICES ASSUME CInv, StateOK, pc = "idle"
               PROVE  \E S \in SUBSET (1 .. HeightOf(tip)) :
                        /\ {h \in 1 .. HeightOf(tip) : At(tip, h) \in Carriers} \subseteq S
                        /\ state = FoldAt(tip, S)
    BY DEF NoActionLost
  <2>1. Stand = tip /\ tip \in Tips
    BY IdleC, InPass
  <2>2. PICK S \in Sees(tip) : state = FoldAt(tip, S)
    BY <2>1 DEF StateOK, SeenAs
  <2> DEFINE T == S \cap (1 .. HeightOf(tip))
  <2>3. FoldAt(tip, T) = FoldAt(tip, S)
    <3>1. \A k \in 1 .. HeightOf(tip) : k \in T <=> k \in S
      OBVIOUS
    <3> QED
      BY <2>1, <3>1, FoldAtReads
  <2>4. {h \in 1 .. HeightOf(tip) : At(tip, h) \in Carriers} \subseteq T
    BY DEF Sees
  <2> HIDE DEF T
  <2>5. T \in SUBSET (1 .. HeightOf(tip))
    BY DEF T
  <2> QED
    BY <2>2, <2>3, <2>4, <2>5
<1> QED
  BY <1>1, <1>2, StateHolds, PTL

\* While nothing is rebuilt from the substrate, which keeps the blocks with an
\* action only, the state is exactly the fold of the whole chain: every lease
\* lapses in the block at which it does for a node that never stopped, whatever
\* crashed and was recovered (sync.c:200-201, 959-1016).
THEOREM FoldsWholeChain ==
  ASSUME ~Reorgs, Refolds = {}, Fresh => CrashAt \subseteq {"reset"}
  PROVE  Spec => []StateOfChain
<1>1. Careful /\ Lossless
  BY DEF Careful, Lossless
<1>2. CInv /\ StateOK => StateOfChain
  <2> SUFFICES ASSUME CInv, StateOK, pc = "idle" PROVE state = FoldAt(tip, Heights)
    BY DEF StateOfChain
  <2> QED
    BY <1>1, IdleC DEF StateOK, SeenAs, Sees
<1> QED
  BY <1>1, <1>2, StateHolds, PTL
=============================================================================
