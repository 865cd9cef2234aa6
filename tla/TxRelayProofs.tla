---------------------------- MODULE TxRelayProofs ----------------------------
(***************************************************************************)
(* Theorems of TxRelay for every value of its constants: the two indexes   *)
(* of the pool agree through every admission, eviction, sweep and          *)
(* confirmation, and so conflicts are found.                               *)
(***************************************************************************)
EXTENDS TxRelay, FiniteSetTheorems, SequenceTheorems, WellFoundedInduction, TLAPS

\* Record p has the fields of a pool; of age, bytes and ring nothing is said.
Shape(p) ==
  p \in [txs : SUBSET Txs, age : {p.age}, owner : [Outs -> Txs \cup {NoTx}],
         count : Int, bytes : {p.bytes}, ring : {p.ring}]

\* Both indexes of pool p describe the same entries, and they are counted.
Indexed(p) ==
  /\ \A i \in Outs, t \in Txs : p.owner[i] = t <=> t \in p.txs /\ i \in Spends[t]
  /\ p.count = Cardinality(p.txs)

PoolOK(p) == Shape(p) /\ Indexed(p)

Msg == [cmd : {"inv", "getdata", "tx"}, tx : Txs]

\* What is under way is about transactions, and every pool is in order.
IInv ==
  /\ world \in Worlds
  /\ pool \in [Nodes -> {pool[n] : n \in Nodes}]
  /\ \A n \in Nodes : PoolOK(pool[n])
  /\ net \in [Pairs -> Seq(Msg)]
  /\ hook \in [Nodes -> Txs \cup {NoTx}]

-----------------------------------------------------------------------------
(* What the operators of the pool preserve *)

\* note_seen touches the ring alone.
LEMMA NoteSeenKeeps ==
  ASSUME NEW p, NEW t \in Txs, PoolOK(p)
  PROVE  /\ PoolOK(NoteSeen(p, t))
         /\ NoteSeen(p, t).txs = p.txs /\ NoteSeen(p, t).owner = p.owner
  BY DEF NoteSeen, PoolOK, Shape, Indexed

\* remove_entry keeps the indexes together (mempool.c:58-71).
LEMMA RemoveKeeps ==
  ASSUME NEW p, NEW E \in SUBSET p.txs, PoolOK(p)
  PROVE  PoolOK(RemoveEntries(p, E)) /\ RemoveEntries(p, E).txs = p.txs \ E
<1> DEFINE q == RemoveEntries(p, E)
<1>1. Shape(p) /\ Indexed(p) /\ p.txs \in SUBSET Txs /\ IsFiniteSet(p.txs) /\ IsFiniteSet(E)
  BY TxsAssumption, FS_Subset DEF PoolOK, Shape
<1>2. Cardinality(p.txs) \in Nat /\ Cardinality(E) \in Nat
  BY <1>1, FS_CardinalityType
<1>3. Cardinality(p.txs \ E) = Cardinality(p.txs) - Cardinality(E)
  <2>1. p.txs \cap E = E
    OBVIOUS
  <2> QED
    BY <2>1, <1>1, FS_Difference
<1> DEFINE own == [i \in Outs |-> IF \E t \in E : i \in Spends[t] /\ p.owner[i] = t
                                   THEN NoTx ELSE p.owner[i]]
<1>5. own \in [Outs -> Txs \cup {NoTx}] /\ p.count - Cardinality(E) \in Int
  BY <1>1, <1>2 DEF Shape
<1>4. /\ Shape(q) /\ q.txs = p.txs \ E /\ q.count = p.count - Cardinality(E)
      /\ q.owner = own
  BY <1>1, <1>5 DEF RemoveEntries, Shape
<1>6. ASSUME NEW i \in Outs, NEW t \in Txs
      PROVE  q.owner[i] = t <=> t \in q.txs /\ i \in Spends[t]
  <2>1. p.owner[i] = t <=> t \in p.txs /\ i \in Spends[t]
    BY <1>1 DEF Indexed
  <2>2. t # NoTx
    BY TxsAssumption
  <2> QED
    BY <1>1, <1>4, <2>1, <2>2
<1> QED
  BY <1>1, <1>2, <1>3, <1>4, <1>6 DEF PoolOK, Indexed

\* An entry that conflicts with none comes into both indexes (mempool.c:143-156).
LEMMA InsertKeeps ==
  ASSUME NEW p, NEW t \in Txs, PoolOK(p), ~Has(p, t), ~Conflicts(p, t)
  PROVE  PoolOK(Insert(p, t))
<1> DEFINE q == Insert(p, t)
<1>1. Shape(p) /\ Indexed(p) /\ t \notin p.txs /\ IsFiniteSet(p.txs)
  BY TxsAssumption, FS_Subset DEF PoolOK, Shape, Has
<1>2. Cardinality(p.txs \cup {t}) = Cardinality(p.txs) + 1
  BY <1>1, FS_AddElement
<1> DEFINE own == [i \in Outs |-> IF i \in Spends[t] THEN t ELSE p.owner[i]]
<1>4. own \in [Outs -> Txs \cup {NoTx}] /\ p.count + 1 \in Int
  BY <1>1 DEF Shape
<1>3. /\ Shape(q) /\ q.txs = p.txs \cup {t} /\ q.count = p.count + 1
      /\ q.owner = own
  BY <1>1, <1>4 DEF Insert, Shape
<1>5. ASSUME NEW i \in Outs, NEW u \in Txs
      PROVE  q.owner[i] = u <=> u \in q.txs /\ i \in Spends[u]
  <2>1. p.owner[i] = u <=> u \in p.txs /\ i \in Spends[u]
    BY <1>1 DEF Indexed
  <2>2. CASE i \in Spends[t]
    <3>1. p.owner[i] = NoTx /\ u # NoTx
      BY <2>2, TxsAssumption DEF Conflicts
    <3> QED
      BY <1>3, <2>1, <2>2, <3>1
  <2>3. CASE i \notin Spends[t]
    BY <1>3, <2>1, <2>3
  <2> QED
    BY <2>2, <2>3
<1> QED
  BY <1>1, <1>2, <1>3, <1>5 DEF PoolOK, Indexed

\* mempool_accept, with its evictions (mempool.c:119-160).
LEMMA AcceptedKeeps ==
  ASSUME NEW p, NEW t \in Txs, PoolOK(p), NEW q \in Accepted(p, t)
  PROVE  PoolOK(q)
<1> DEFINE noted == NoteSeen(p, t)
<1>1. PoolOK(noted) /\ noted.txs = p.txs /\ noted.owner = p.owner
  BY NoteSeenKeeps
<1>2. CASE ~Admits(p, t)
  BY <1>1, <1>2 DEF Accepted
<1>3. CASE Admits(p, t)
  <2>1. PICK E \in Evictions(noted, t) : q = Insert(RemoveEntries(noted, E), t)
    BY <1>3 DEF Accepted
  <2> DEFINE r == RemoveEntries(noted, E)
  <2>2. E \in SUBSET noted.txs
    BY DEF Evictions
  <2>3. PoolOK(r) /\ r.txs = noted.txs \ E
    BY <1>1, <2>2, RemoveKeeps
  <2>4. ~Has(r, t)
    BY <1>1, <1>3, <2>3 DEF Admits, Has
  <2>5. ~Conflicts(r, t)
    <3>1. SUFFICES ASSUME NEW i \in Spends[t] PROVE r.owner[i] = NoTx
      BY DEF Conflicts
    <3>2. i \in Outs
      BY TxsAssumption
    <3>3. p.owner[i] = NoTx
      BY <1>3 DEF Admits, Conflicts
    <3> QED
      BY <1>1, <3>2, <3>3 DEF RemoveEntries, PoolOK, Shape
  <2> QED
    BY <2>1, <2>3, <2>4, <2>5, InsertKeeps
<1> QED
  BY <1>2, <1>3

\* mempool_on_confirmed_tx leaves neither the transaction nor a conflict of it
\* (mempool.c:193-198).
LEMMA OnConfirmedClears ==
  ASSUME NEW p, NEW t \in Txs, PoolOK(p)
  PROVE  /\ PoolOK(OnConfirmed(p, t))
         /\ \A e \in OnConfirmed(p, t).txs : e # t /\ Spends[e] \cap Spends[t] = {}
<1> DEFINE E == {e \in p.txs : e = t \/ \E i \in Spends[t] : p.owner[i] = e}
<1>1. PoolOK(OnConfirmed(p, t)) /\ OnConfirmed(p, t).txs = p.txs \ E
  <2>1. E \in SUBSET p.txs
    OBVIOUS
  <2> QED
    BY <2>1, RemoveKeeps DEF OnConfirmed
<1>2. ASSUME NEW e \in p.txs, NEW i \in Spends[e] \cap Spends[t]
      PROVE  e \in E
  BY TxsAssumption DEF PoolOK, Shape, Indexed
<1> QED
  BY <1>1, <1>2

\* mempool_sweep (mempool.c:202-211).
LEMMA SweepKeeps ==
  ASSUME NEW p, PoolOK(p)
  PROVE  PoolOK(Sweep(p))
<1> DEFINE left == RemoveEntries(p, Expired(p))
<1>1. PoolOK(left)
  BY RemoveKeeps DEF Expired
<1> QED
  BY <1>1 DEF Sweep, PoolOK, Shape, Indexed

\* A pool is replaced by one in order.
LEMMA PoolSet ==
  ASSUME IInv, NEW n \in Nodes, NEW q, PoolOK(q), pool' = [pool EXCEPT ![n] = q]
  PROVE  /\ pool' \in [Nodes -> {pool'[m] : m \in Nodes}]
         /\ \A m \in Nodes : PoolOK(pool'[m])
<1>1. pool' = [m \in Nodes |-> IF m = n THEN q ELSE pool[m]]
  BY DEF IInv
<1>2. \A m \in Nodes : pool'[m] = IF m = n THEN q ELSE pool[m]
  BY <1>1
<1>3. \A m \in Nodes : PoolOK(pool'[m])
  BY <1>2 DEF IInv
<1> QED
  BY <1>1, <1>2, <1>3

\* Taking a message and sending one keeps messages what they are.
LEMMA AnswerKeeps ==
  ASSUME IInv, NEW l \in Pairs, net[l] # <<>>, NEW S, NEW m \in Msg, Answer(l, S, m)
  PROVE  net' \in [Pairs -> Seq(Msg)]
<1> DEFINE left(k) == IF k = l THEN Tail(net[k]) ELSE net[k]
<1>1. ASSUME NEW k \in Pairs PROVE left(k) \in Seq(Msg)
  BY DEF IInv
<1>2. net' = [k \in Pairs |-> IF k \in S THEN Append(left(k), m) ELSE left(k)]
  BY DEF Answer
<1>3. ASSUME NEW k \in Pairs PROVE Append(left(k), m) \in Seq(Msg)
  BY <1>1
<1> QED
  BY <1>1, <1>2, <1>3

\* The first message of a connection is about a transaction.
LEMMA FirstIsMsg ==
  ASSUME IInv, NEW l \in Links, net[l] # <<>>
  PROVE  l \in Pairs /\ l[2] \in Nodes /\ First(l) \in Msg /\ First(l).tx \in Txs
<1>1. l \in Pairs /\ net[l] \in Seq(Msg)
  BY WorldsAssumption DEF IInv, Links
<1>2. First(l) \in Msg
  BY <1>1 DEF First
<1> QED
  BY <1>1, <1>2 DEF Pairs, Msg

-----------------------------------------------------------------------------
(* The theorems *)

LEMMA InitInv == Init => IInv
<1> SUFFICES ASSUME Init PROVE IInv
  OBVIOUS
<1>1. PoolOK(EmptyPool)
  <2>1. Shape(EmptyPool)
    BY DEF Shape, EmptyPool
  <2>2. Indexed(EmptyPool)
    BY TxsAssumption, FS_EmptySet DEF Indexed, EmptyPool
  <2> QED
    BY <2>1, <2>2 DEF PoolOK
<1> QED
  BY <1>1 DEF Init, IInv

LEMMA StepInv == IInv /\ [Next]_vars => IInv'
<1> SUFFICES ASSUME IInv, [Next]_vars PROVE IInv'
  OBVIOUS
<1>1. ASSUME NEW l \in Links, OnInv(l) PROVE IInv'
  <2>1. l \in Pairs /\ First(l).tx \in Txs
    BY <1>1, FirstIsMsg DEF OnInv
  <2>2. [cmd |-> "getdata", tx |-> First(l).tx] \in Msg
    BY <2>1 DEF Msg
  <2>3. net' \in [Pairs -> Seq(Msg)]
    BY <1>1, <2>1, <2>2, AnswerKeeps DEF OnInv
  <2> QED
    BY <1>1, <2>3 DEF OnInv, IInv
<1>2. ASSUME NEW l \in Links, OnGetdata(l) PROVE IInv'
  <2>1. l \in Pairs /\ First(l).tx \in Txs
    BY <1>2, FirstIsMsg DEF OnGetdata
  <2>2. [cmd |-> "tx", tx |-> First(l).tx] \in Msg
    BY <2>1 DEF Msg
  <2>3. net' \in [Pairs -> Seq(Msg)]
    BY <1>2, <2>1, <2>2, AnswerKeeps DEF OnGetdata
  <2> QED
    BY <1>2, <2>3 DEF OnGetdata, IInv
<1>3. ASSUME NEW l \in Links, OnTx(l) PROVE IInv'
  <2>1. l \in Pairs /\ l[2] \in Nodes /\ First(l).tx \in Txs
    BY <1>3, FirstIsMsg DEF OnTx
  <2>2. [cmd |-> "inv", tx |-> First(l).tx] \in Msg
    BY <2>1 DEF Msg
  <2>3. net' \in [Pairs -> Seq(Msg)]
    BY <1>3, <2>1, <2>2, AnswerKeeps DEF OnTx
  <2>4. PICK p \in Accepted(pool[l[2]], First(l).tx) : pool' = [pool EXCEPT ![l[2]] = p]
    BY <1>3 DEF OnTx
  <2>5. PoolOK(p)
    BY <2>1, AcceptedKeeps DEF IInv
  <2> QED
    BY <1>3, <2>1, <2>3, <2>4, <2>5, PoolSet DEF OnTx, IInv
<1>4. ASSUME NEW n \in Nodes, NEW t \in Txs, Submit(n, t) PROVE IInv'
  <2>1. PICK p \in Accepted(pool[n], t) : pool' = [pool EXCEPT ![n] = p]
    BY <1>4 DEF Submit
  <2>2. PoolOK(p)
    BY AcceptedKeeps DEF IInv
  <2>3. [cmd |-> "inv", tx |-> t] \in Msg
    BY DEF Msg
  <2> DEFINE m == [cmd |-> "inv", tx |-> t]
             C(l) == l \in {n} \X Others(n, n) /\ Admits(pool[n], t)
  <2>5. net' = [l \in Pairs |-> IF C(l) THEN Append(net[l], m) ELSE net[l]]
    BY <1>4 DEF Submit
  <2>4. net' \in [Pairs -> Seq(Msg)]
    <3> HIDE DEF m, C
    <3>1. m \in Msg
      BY <2>3 DEF m
    <3>2. \A l \in Pairs : net[l] \in Seq(Msg) /\ Append(net[l], m) \in Seq(Msg)
      BY <3>1 DEF IInv
    <3> QED
      BY <2>5, <3>2
  <2> QED
    BY <1>4, <2>1, <2>2, <2>4, PoolSet DEF Submit, IInv
<1>5. ASSUME NEW n \in Nodes, Swept(n) PROVE IInv'
  BY <1>5, SweepKeeps, PoolSet DEF Swept, IInv
<1>6. ASSUME NEW n \in Nodes, NEW t \in Txs, Confirm(n, t) PROVE IInv'
  BY <1>6 DEF Confirm, IInv
<1>7. ASSUME NEW n \in Nodes, RemoveConfirmed(n) PROVE IInv'
  <2>1. hook[n] \in Txs
    BY <1>7 DEF RemoveConfirmed, IInv
  <2>2. PoolOK(OnConfirmed(pool[n], hook[n]))
    BY <2>1, OnConfirmedClears DEF IInv
  <2> QED
    BY <1>7, <2>2, PoolSet DEF RemoveConfirmed, IInv
<1>8. ASSUME NEW l \in Links, Lose(l) PROVE IInv'
  <2>1. <<>> \in Seq(Msg) /\ \A k \in Pairs : net[k] \in Seq(Msg)
    BY DEF IInv
  <2>2. net' \in [Pairs -> Seq(Msg)]
    BY <1>8, <2>1 DEF Lose
  <2> QED
    BY <1>8, <2>2 DEF Lose, IInv
<1>9. ASSUME NEW l \in Links, Refuse(l) PROVE IInv'
  <2>2. l \in Pairs /\ net[l] \in Seq(Msg) /\ net[l] # <<>>
    BY <1>9, FirstIsMsg DEF Refuse, IInv
  <2>3. Tail(net[l]) \in Seq(Msg)
    BY <2>2
  <2>1. net' \in [Pairs -> Seq(Msg)]
    BY <1>9, <2>2, <2>3 DEF Refuse, IInv
  <2> QED
    BY <1>9, <2>1 DEF Refuse, IInv
<1>10. ASSUME NEW l \in Links, AskPool(l) PROVE IInv'
  <2>1. l \in Pairs /\ l[1] \in Nodes
    BY WorldsAssumption DEF Links, IInv, Pairs
  <2>2. PICK s \in SetToSeqs(pool[l[1]].txs) :
          net' = [net EXCEPT ![l] = @ \o [i \in 1 .. Len(s) |-> [cmd |-> "inv", tx |-> s[i]]]]
    BY <1>10 DEF AskPool
  <2>3. pool[l[1]].txs \subseteq Txs /\ IsFiniteSet(pool[l[1]].txs)
    BY <2>1, TxsAssumption, FS_Subset DEF IInv, PoolOK, Shape
  <2>4. s \in Seq(Txs)
    <3>1. Cardinality(pool[l[1]].txs) \in Nat
      BY <2>3, FS_CardinalityType
    <3>2. s \in [1 .. Cardinality(pool[l[1]].txs) -> pool[l[1]].txs]
      BY DEF SetToSeqs
    <3> QED
      BY <2>3, <3>1, <3>2, SeqDef
  <2> DEFINE invs == [i \in 1 .. Len(s) |-> [cmd |-> "inv", tx |-> s[i]]]
  <2>5. invs \in Seq(Msg)
    <3>1. Len(s) \in Nat /\ \A i \in 1 .. Len(s) : s[i] \in Txs
      BY <2>4
    <3>2. \A i \in 1 .. Len(s) : [cmd |-> "inv", tx |-> s[i]] \in Msg
      BY <3>1 DEF Msg
    <3> QED
      BY <3>1, <3>2, SeqDef
  <2>6. net' \in [Pairs -> Seq(Msg)]
    <3>1. net[l] \in Seq(Msg)
      BY <2>1 DEF IInv
    <3> HIDE DEF invs
    <3>2. net[l] \o invs \in Seq(Msg)
      BY <3>1, <2>5
    <3>3. net' = [net EXCEPT ![l] = net[l] \o invs]
      BY <2>2 DEF invs
    <3> QED
      BY <2>1, <3>2, <3>3 DEF IInv
  <2> QED
    BY <1>10, <2>6 DEF AskPool, IInv
<1>11. CASE UNCHANGED vars
  BY <1>11 DEF vars, IInv
<1> QED
  BY <1>1, <1>2, <1>3, <1>4, <1>5, <1>6, <1>7, <1>8, <1>9, <1>10, <1>11 DEF Next, Serve

\* The pools of every node stay in order, along every behaviour.
THEOREM Inductive == Spec => []IInv
  BY InitInv, StepInv, PTL DEF Spec

\* The txid index, the prevout index and the count agree, at any limits
\* (mempool.c:58-71, 119-160, 190-211).
THEOREM IndexesAgree == Spec => []IndexInv
<1>1. IInv => IndexInv
  BY DEF IInv, IndexInv, PoolOK, Indexed
<1> QED
  BY <1>1, Inductive, PTL

\* No two pooled transactions spend one output (mempool.c:127-129).
THEOREM ConflictFree == Spec => []NoDoubleSpend
<1>1. IInv => NoDoubleSpend
  <2> SUFFICES ASSUME IInv, NEW n \in Nodes, NEW t \in pool[n].txs, NEW u \in pool[n].txs,
                      t # u, NEW i \in Spends[t] \cap Spends[u]
               PROVE  FALSE
    BY DEF NoDoubleSpend
  <2>1. PoolOK(pool[n]) /\ t \in Txs /\ u \in Txs
    BY DEF IInv, PoolOK, Shape
  <2>2. i \in Outs
    BY <2>1, TxsAssumption
  <2> QED
    BY <2>1, <2>2 DEF PoolOK, Indexed
<1> QED
  BY <1>1, Inductive, PTL

\* Once its hook has returned, neither a confirmed transaction nor a conflict of it
\* is in the pool, whatever the serve thread admitted since the emptiness check
\* (mempool.c:190-200).
THEOREM ConfirmationClears == Spec => ConfirmedLeaves
<1> DEFINE Step == \A n \in Nodes :
                     hook[n] # NoTx /\ hook'[n] = NoTx =>
                       \A e \in pool'[n].txs :
                         e # hook[n] /\ Spends[e] \cap Spends[hook[n]] = {}
<1>1. IInv /\ [Next]_vars => [Step]_vars
  <2> SUFFICES ASSUME IInv, Next, NEW n \in Nodes, hook[n] # NoTx, hook'[n] = NoTx
               PROVE  \A e \in pool'[n].txs : e # hook[n] /\ Spends[e] \cap Spends[hook[n]] = {}
    OBVIOUS
  <2>1. hook \in [Nodes -> Txs \cup {NoTx}] /\ NoTx \notin Txs
    BY TxsAssumption DEF IInv
  <2>2. RemoveConfirmed(n)
    BY <2>1 DEF Next, Serve, OnInv, OnGetdata, OnTx, Submit, Swept, Confirm,
                RemoveConfirmed, Lose, Refuse, AskPool
  <2>3. hook[n] \in Txs
    BY <2>1
  <2>4. pool'[n] = OnConfirmed(pool[n], hook[n])
    BY <2>2 DEF RemoveConfirmed, IInv
  <2> QED
    BY <2>3, <2>4, OnConfirmedClears DEF IInv
<1> QED
  BY <1>1, Inductive, PTL DEF Spec, ConfirmedLeaves

-----------------------------------------------------------------------------
(* The bytes of a set of entries *)

\* What holds of a set when it holds of all its smaller subsets holds of every
\* subset of a finite set.
LEMMA SetInduct ==
  ASSUME NEW S, IsFiniteSet(S), NEW G \in SUBSET (SUBSET S),
         \A T \in SUBSET S : (\A U \in SUBSET T : U # T => U \in G) => T \in G
  PROVE  G = SUBSET S
<1> SUFFICES ASSUME (SUBSET S) \ G # {} PROVE FALSE
  OBVIOUS
<1>1. (SUBSET S) \ G \subseteq FiniteSubsetsOf(S)
  BY FS_Subset DEF FiniteSubsetsOf
<1>2. IsWellFoundedOn(StrictSubsetOrdering(S), FiniteSubsetsOf(S))
  BY FS_StrictSubsetOrderingWellFounded
<1> DEFINE bad == (SUBSET S) \ G
<1>3. PICK T \in bad : \A U \in bad : ~(<<U, T>> \in StrictSubsetOrdering(S))
  <2>1. bad \subseteq FiniteSubsetsOf(S) /\ bad # {}
    BY <1>1
  <2> HIDE DEF bad
  <2> QED
    BY <1>2, <2>1, WFMin
<1>4. ASSUME NEW U \in SUBSET T, U # T PROVE U \in G
  BY <1>3 DEF StrictSubsetOrdering
<1> QED
  BY <1>3, <1>4

\* The element of a set that is added to the rest.
Pick(s) == CHOOSE x \in s : TRUE

\* The function that Bytes takes the last value of.
BytesRun(S) ==
  CHOOSE run : run = [s \in SUBSET S |->
    IF s = {} THEN 0 ELSE Size[Pick(s)] + run[s \ {Pick(s)}]]

IsRun(run, S) ==
  run = [s \in SUBSET S |-> IF s = {} THEN 0 ELSE Size[Pick(s)] + run[s \ {Pick(s)}]]

LEMMA BytesIs == \A S : Bytes(S) = BytesRun(S)[S]
  BY DEF Bytes, MapThenSumSet, MapThenFoldSet, BytesRun, Pick

\* Two sums over the subsets of a set agree.
LEMMA RunsAgree ==
  ASSUME NEW S, IsFiniteSet(S), NEW T \in SUBSET S, NEW f, NEW g, IsRun(f, S), IsRun(g, T)
  PROVE  \A s \in SUBSET T : f[s] = g[s]
<1> DEFINE G == {s \in SUBSET T : f[s] = g[s]}
<1>1. ASSUME NEW s \in SUBSET T, \A u \in SUBSET s : u # s => u \in G PROVE s \in G
  <2>1. f[s] = IF s = {} THEN 0 ELSE Size[Pick(s)] + f[s \ {Pick(s)}]
    BY DEF IsRun
  <2>2. g[s] = IF s = {} THEN 0 ELSE Size[Pick(s)] + g[s \ {Pick(s)}]
    BY DEF IsRun
  <2>3. ASSUME s # {} PROVE s \ {Pick(s)} \in SUBSET s /\ s \ {Pick(s)} # s
    BY <2>3 DEF Pick
  <2> QED
    BY <1>1, <2>1, <2>2, <2>3
<1> HIDE DEF G
<1>2. G = SUBSET T
  <2>1. IsFiniteSet(T) /\ G \in SUBSET (SUBSET T)
    BY FS_Subset DEF G
  <2> QED
    BY <1>1, <2>1, SetInduct
<1> QED
  BY <1>2 DEF G

\* The sum exists for every finite set.
LEMMA BytesRuns ==
  ASSUME NEW S, IsFiniteSet(S)
  PROVE  IsRun(BytesRun(S), S)
<1> DEFINE G == {T \in SUBSET S : IsRun(BytesRun(T), T)}
<1>1. ASSUME NEW T \in SUBSET S, \A U \in SUBSET T : U # T => U \in G PROVE T \in G
  <2> DEFINE g == [s \in SUBSET T |->
                     IF s = {} THEN 0
                     ELSE IF s = T THEN Size[Pick(T)] + Bytes(T \ {Pick(T)}) ELSE Bytes(s)]
  <2>1. ASSUME NEW s \in SUBSET T, s # {}
        PROVE  g[s] = Size[Pick(s)] + g[s \ {Pick(s)}]
    <3> DEFINE r == s \ {Pick(s)}
    <3>1. r \in SUBSET s /\ r # s
      BY <2>1 DEF Pick
    <3>2. g[r] = Bytes(r)
      <4>1. CASE r = {}
        <5>1. IsRun(BytesRun({}), {})
          BY <1>1, <2>1, <4>1
        <5>2. Bytes({}) = 0
          BY <5>1, BytesIs DEF IsRun
        <5> QED
          BY <4>1, <5>2
      <4>2. CASE r # {}
        BY <3>1, <4>2
      <4> QED
        BY <4>1, <4>2
    <3>3. CASE s = T
      BY <2>1, <3>2, <3>3
    <3>4. CASE s # T
      <4>1. IsRun(BytesRun(s), s) /\ IsRun(BytesRun(r), r) /\ IsFiniteSet(s)
        BY <1>1, <3>1, <3>4, FS_Subset
      <4>2. BytesRun(s)[s] = Size[Pick(s)] + BytesRun(s)[r]
        BY <2>1, <4>1 DEF IsRun
      <4> HIDE DEF r
      <4>3. BytesRun(s)[r] = BytesRun(r)[r]
        BY <3>1, <4>1, RunsAgree
      <4>4. g[s] = Bytes(s)
        BY <2>1, <3>4
      <4> HIDE DEF g
      <4> QED
        BY <3>2, <4>2, <4>3, <4>4, BytesIs DEF r
    <3> QED
      BY <3>3, <3>4
  <2>2. g = [s \in SUBSET T |-> IF s = {} THEN 0 ELSE g[s]]
    OBVIOUS
  <2>3. IsRun(g, T)
    <3> HIDE DEF g
    <3> QED
      BY <2>1, <2>2 DEF IsRun
  <2> HIDE DEF g
  <2>4. IsRun(BytesRun(T), T)
    BY <2>3 DEF IsRun, BytesRun
  <2> QED
    BY <2>4
<1> HIDE DEF G
<1>2. G = SUBSET S
  <2>1. G \in SUBSET (SUBSET S)
    BY DEF G
  <2> QED
    BY <1>1, <2>1, SetInduct
<1> QED
  BY <1>2 DEF G

LEMMA BytesStep ==
  ASSUME NEW S, IsFiniteSet(S)
  PROVE  Bytes(S) = IF S = {} THEN 0 ELSE Size[Pick(S)] + Bytes(S \ {Pick(S)})
<1> DEFINE r == S \ {Pick(S)}
<1>1. IsFiniteSet(r) /\ r \in SUBSET S
  BY FS_Subset
<1>2. IsRun(BytesRun(S), S) /\ IsRun(BytesRun(r), r)
  BY <1>1, BytesRuns
<1>3. BytesRun(S)[S] = IF S = {} THEN 0 ELSE Size[Pick(S)] + BytesRun(S)[r]
  BY <1>2 DEF IsRun
<1> HIDE DEF r
<1>4. BytesRun(S)[r] = BytesRun(r)[r]
  BY <1>1, <1>2, RunsAgree
<1> QED
  BY <1>3, <1>4, BytesIs DEF r

\* The sum is a number, and counts every element once.
LEMMA BytesType ==
  ASSUME NEW S \in SUBSET Txs
  PROVE  Bytes(S) \in Nat
<1> DEFINE G == {T \in SUBSET S : Bytes(T) \in Nat}
<1>1. IsFiniteSet(S)
  BY TxsAssumption, FS_Subset
<1>2. ASSUME NEW T \in SUBSET S, \A U \in SUBSET T : U # T => U \in G PROVE T \in G
  <2>1. IsFiniteSet(T)
    BY <1>1, FS_Subset
  <2>2. CASE T = {}
    <3>1. Bytes(T) = 0
      BY <2>1, <2>2, BytesStep
    <3> QED
      BY <3>1
  <2>3. CASE T # {}
    <3>1. /\ Pick(T) \in Txs /\ T \ {Pick(T)} \in SUBSET T /\ T \ {Pick(T)} # T
          /\ Size[Pick(T)] \in Nat
      BY <2>3, TxsAssumption DEF Pick
    <3>2. Bytes(T \ {Pick(T)}) \in Nat
      BY <1>2, <3>1
    <3>3. Bytes(T) = Size[Pick(T)] + Bytes(T \ {Pick(T)})
      BY <2>1, <2>3, BytesStep
    <3>4. Bytes(T) \in Nat
      BY <3>1, <3>2, <3>3
    <3> QED
      BY <3>4
  <2> QED
    BY <2>2, <2>3
<1> HIDE DEF G
<1>3. G = SUBSET S
  <2>1. G \in SUBSET (SUBSET S)
    BY DEF G
  <2> QED
    BY <1>1, <1>2, <2>1, SetInduct
<1> QED
  BY <1>3 DEF G

LEMMA BytesLess ==
  ASSUME NEW S \in SUBSET Txs, NEW t \in S
  PROVE  Bytes(S \ {t}) = Bytes(S) - Size[t]
<1> DEFINE Counts(T) == \A u \in T : Bytes(T) = Size[u] + Bytes(T \ {u})
           G == {T \in SUBSET S : Counts(T)}
<1>1. IsFiniteSet(S)
  BY TxsAssumption, FS_Subset
<1>2. ASSUME NEW T \in SUBSET S, \A U \in SUBSET T : U # T => U \in G PROVE T \in G
  <2>1. IsFiniteSet(T) /\ T \in SUBSET Txs
    BY <1>1, FS_Subset
  <2>2. ASSUME NEW u \in T PROVE Bytes(T) = Size[u] + Bytes(T \ {u})
    <3> DEFINE x == Pick(T)
               both == T \ {u, x}
    <3>1. x \in T /\ Bytes(T) = Size[x] + Bytes(T \ {x})
      BY <2>1, <2>2, BytesStep DEF Pick
    <3>2. CASE u = x
      BY <3>1, <3>2
    <3>3. CASE u # x
      <4>1. /\ T \ {x} \in G /\ u \in T \ {x} /\ (T \ {x}) \ {u} = both
            /\ T \ {u} \in G /\ x \in T \ {u} /\ (T \ {u}) \ {x} = both
        BY <1>2, <2>2, <3>1, <3>3
      <4>2. Counts(T \ {x}) /\ Counts(T \ {u})
        BY <4>1
      <4>3. /\ Bytes(T \ {x}) = Size[u] + Bytes(both)
            /\ Bytes(T \ {u}) = Size[x] + Bytes(both)
        BY <4>1, <4>2
      <4>4. Size[u] \in Nat /\ Size[x] \in Nat /\ Bytes(both) \in Nat
        BY <2>1, <2>2, <3>1, BytesType, TxsAssumption
      <4> HIDE DEF x, both
      <4> QED
        BY <3>1, <4>3, <4>4
    <3> QED
      BY <3>2, <3>3
  <2> QED
    BY <2>2
<1>3. Counts(S)
  <2> HIDE DEF G, Counts
  <2>1. G = SUBSET S
    <3>1. G \in SUBSET (SUBSET S)
      BY DEF G
    <3> QED
      BY <1>1, <1>2, <3>1, SetInduct
  <2> QED
    BY <2>1 DEF G
<1>4. Bytes(S \ {t}) \in Nat /\ Bytes(S) \in Nat /\ Size[t] \in Nat
  BY BytesType, TxsAssumption
<1>5. Bytes(S) = Size[t] + Bytes(S \ {t})
  BY <1>3
<1> QED
  BY <1>4, <1>5

\* What is removed is subtracted.
LEMMA BytesMinus ==
  ASSUME NEW S \in SUBSET Txs, NEW E \in SUBSET S
  PROVE  Bytes(S \ E) = Bytes(S) - Bytes(E)
<1> DEFINE G == {T \in SUBSET E : Bytes(S \ T) = Bytes(S) - Bytes(T)}
<1>1. IsFiniteSet(E)
  BY TxsAssumption, FS_Subset
<1>2. ASSUME NEW T \in SUBSET E, \A U \in SUBSET T : U # T => U \in G PROVE T \in G
  <2>1. CASE T = {}
    <3>1. Bytes({}) = 0 /\ S \ {} = S /\ Bytes(S) \in Nat
      BY BytesStep, BytesType, FS_EmptySet
    <3> QED
      BY <2>1, <3>1
  <2>2. CASE T # {}
    <3>1. PICK t : t \in T
      BY <2>2
    <3> DEFINE U == T \ {t}
    <3>2. U \in SUBSET T /\ U # T /\ t \in S \ U /\ (S \ U) \ {t} = S \ T
      BY <3>1
    <3>3. Bytes(S \ U) = Bytes(S) - Bytes(U)
      BY <1>2, <3>2
    <3>4. Bytes(U) = Bytes(T) - Size[t] /\ T \in SUBSET Txs
      BY <3>1, BytesLess
    <3>5. Bytes(S \ T) = Bytes(S \ U) - Size[t]
      <4>1. S \ U \in SUBSET Txs
        OBVIOUS
      <4> HIDE DEF U
      <4> QED
        BY <3>2, <4>1, BytesLess
    <3>6. Bytes(S) \in Nat /\ Bytes(U) \in Nat /\ Bytes(T) \in Nat /\ Size[t] \in Nat
      BY <3>1, <3>4, BytesType, TxsAssumption
    <3> HIDE DEF U
    <3>7. Bytes(S \ T) = Bytes(S) - Bytes(T)
      BY <3>3, <3>4, <3>5, <3>6
    <3> QED
      BY <3>7
  <2> QED
    BY <2>1, <2>2
<1> HIDE DEF G
<1>3. G = SUBSET E
  <2>1. G \in SUBSET (SUBSET E)
    BY DEF G
  <2> QED
    BY <1>1, <1>2, <2>1, SetInduct
<1> QED
  BY <1>3 DEF G

-----------------------------------------------------------------------------
(* The limits of the pool *)

Limited(p) == p.bytes = Bytes(p.txs) /\ p.count <= MaxTxs /\ p.bytes <= MaxBytes

LEMMA RemoveLimited ==
  ASSUME NEW p, NEW E \in SUBSET p.txs, PoolOK(p), Limited(p)
  PROVE  Limited(RemoveEntries(p, E))
<1> DEFINE q == RemoveEntries(p, E)
<1>1. p.txs \in SUBSET Txs /\ E \in SUBSET Txs /\ IsFiniteSet(E) /\ p.count \in Int
  BY TxsAssumption, FS_Subset DEF PoolOK, Shape
<1>2. Cardinality(E) \in Nat /\ Bytes(E) \in Nat /\ Bytes(p.txs) \in Nat
  BY <1>1, FS_CardinalityType, BytesType
<1>3. /\ q.bytes = p.bytes - Bytes(E) /\ q.count = p.count - Cardinality(E)
      /\ q.txs = p.txs \ E
  BY DEF RemoveEntries
<1> HIDE DEF q
<1>4. q.bytes = Bytes(q.txs)
  BY <1>1, <1>3, BytesMinus DEF Limited
<1>5. q.count <= MaxTxs /\ q.bytes <= MaxBytes
  BY <1>1, <1>2, <1>3, LimitsAssumption DEF Limited
<1> QED
  BY <1>4, <1>5 DEF Limited, q

\* An admission evicts until there is room (mempool.c:131-160).
LEMMA AcceptedLimited ==
  ASSUME NEW p, NEW t \in Txs, PoolOK(p), Limited(p), NEW q \in Accepted(p, t)
  PROVE  Limited(q)
<1> DEFINE noted == NoteSeen(p, t)
<1>1. /\ PoolOK(noted) /\ noted.txs = p.txs /\ noted.owner = p.owner
      /\ noted.bytes = p.bytes /\ noted.count = p.count
  BY NoteSeenKeeps DEF NoteSeen, PoolOK, Shape
<1>2. Limited(noted)
  BY <1>1 DEF Limited
<1>3. CASE ~Admits(p, t)
  BY <1>2, <1>3 DEF Accepted
<1>4. CASE Admits(p, t)
  <2>1. PICK E \in Evictions(noted, t) : q = Insert(RemoveEntries(noted, E), t)
    BY <1>4 DEF Accepted
  <2>2. E \in SUBSET noted.txs /\ (E = noted.txs \/ Room(noted, E, t)) /\ t \notin noted.txs
    BY <1>1, <1>4 DEF Evictions, Admits, Has
  <2> DEFINE r == RemoveEntries(noted, E)
  <2> HIDE DEF noted
  <2>3. /\ Limited(r) /\ PoolOK(r) /\ r.txs = noted.txs \ E
        /\ r.count = noted.count - Cardinality(E) /\ r.bytes = noted.bytes - Bytes(E)
    BY <1>1, <1>2, <2>2, RemoveLimited, RemoveKeeps DEF RemoveEntries
  <2>4. /\ r.txs \in SUBSET Txs /\ t \notin r.txs /\ r.txs \cup {t} \in SUBSET Txs
        /\ Bytes(r.txs) \in Nat /\ Bytes(r.txs \cup {t}) \in Nat /\ Size[t] \in Nat
        /\ r.count \in Int /\ r.count = Cardinality(r.txs)
    BY <2>2, <2>3, BytesType, TxsAssumption DEF PoolOK, Shape, Indexed
  <2>5. r.count < MaxTxs /\ r.bytes + Size[t] <= MaxBytes
    <3>1. CASE Room(noted, E, t)
      BY <2>3, <3>1 DEF Room
    <3>2. CASE E = noted.txs
      <4>1. r.txs = {} /\ r.count = 0 /\ Bytes(r.txs) = 0
        BY <2>3, <2>4, <3>2, FS_EmptySet, BytesStep
      <4>2. r.bytes = 0
        BY <2>3, <4>1 DEF Limited
      <4> QED
        BY <2>4, <4>1, <4>2, LimitsAssumption
    <3> QED
      BY <2>2, <3>1, <3>2
  <2>6. q.txs = r.txs \cup {t} /\ q.count = r.count + 1 /\ q.bytes = r.bytes + Size[t]
    BY <2>1 DEF Insert
  <2> HIDE DEF r
  <2>7. Bytes(q.txs) = Bytes(r.txs) + Size[t]
    <3>1. Bytes((r.txs \cup {t}) \ {t}) = Bytes(r.txs \cup {t}) - Size[t]
      BY <2>4, BytesLess
    <3>2. (r.txs \cup {t}) \ {t} = r.txs
      BY <2>4
    <3>3. Bytes(r.txs) = Bytes(r.txs \cup {t}) - Size[t]
      BY <3>1, <3>2
    <3>4. Bytes(q.txs) = Bytes(r.txs \cup {t})
      BY <2>6
    <3> QED
      BY <2>4, <3>3, <3>4
  <2>8. q.bytes = Bytes(q.txs)
    BY <2>3, <2>6, <2>7 DEF Limited
  <2>9. q.count <= MaxTxs /\ q.bytes <= MaxBytes
    BY <2>4, <2>5, <2>6, LimitsAssumption
  <2> QED
    BY <2>8, <2>9 DEF Limited
<1> QED
  BY <1>3, <1>4

LEMMA SweepLimited ==
  ASSUME NEW p, PoolOK(p), Limited(p)
  PROVE  Limited(Sweep(p))
<1> DEFINE left == RemoveEntries(p, Expired(p))
<1>1. Limited(left)
  BY RemoveLimited DEF Expired
<1>2. CASE p.count = 0
  BY <1>2 DEF Sweep
<1>3. CASE p.count # 0
  <2>1. Sweep(p) = [left EXCEPT !.age = [t \in Txs |-> IF t \in left.txs THEN @[t] + 1 ELSE @[t]]]
    BY <1>3 DEF Sweep
  <2>2. /\ Sweep(p).txs = left.txs /\ Sweep(p).count = left.count
        /\ Sweep(p).bytes = left.bytes
    BY <2>1 DEF RemoveEntries
  <2> QED
    BY <1>1, <2>2 DEF Limited
<1> QED
  BY <1>2, <1>3

\* What a step makes of the pool of a node: no more than one call of mempool.c.
Becomes(p, q) ==
  \/ q = p
  \/ \E t \in Txs : q \in Accepted(p, t) \/ q = OnConfirmed(p, t)
  \/ q = Sweep(p)

LEMMA PoolStep ==
  ASSUME IInv, [Next]_vars, NEW n \in Nodes
  PROVE  Becomes(pool[n], pool'[n])
<1>1. ASSUME NEW l \in Links, OnTx(l) PROVE Becomes(pool[n], pool'[n])
  <2>1. First(l).tx \in Txs /\ l[2] \in Nodes
    BY <1>1, FirstIsMsg DEF OnTx
  <2>2. PICK q \in Accepted(pool[l[2]], First(l).tx) : pool' = [pool EXCEPT ![l[2]] = q]
    BY <1>1 DEF OnTx
  <2> QED
    BY <2>1, <2>2 DEF Becomes, IInv
<1>2. ASSUME NEW m \in Nodes, NEW t \in Txs, Submit(m, t) PROVE Becomes(pool[n], pool'[n])
  <2>1. PICK q \in Accepted(pool[m], t) : pool' = [pool EXCEPT ![m] = q]
    BY <1>2 DEF Submit
  <2> QED
    BY <2>1 DEF Becomes, IInv
<1>3. ASSUME NEW m \in Nodes, Swept(m) \/ RemoveConfirmed(m)
      PROVE  Becomes(pool[n], pool'[n])
  <2>1. CASE Swept(m)
    BY <2>1 DEF Swept, Becomes, IInv
  <2>2. CASE RemoveConfirmed(m)
    BY <2>2 DEF RemoveConfirmed, Becomes, IInv
  <2> QED
    BY <1>3, <2>1, <2>2
<1>4. CASE pool' = pool
  BY <1>4 DEF Becomes
<1> QED
  BY <1>1, <1>2, <1>3, <1>4
  DEF Next, Serve, OnInv, OnGetdata, Confirm, Lose, Refuse, AskPool, vars

\* No pool grows past its limits, and every pool counts the bytes it holds,
\* through any admissions, evictions, confirmations and sweeps
\* (mempool.c:58-71, 119-160).
THEOREM LimitsHold == Spec => []WithinLimits
<1> DEFINE AllLimited == \A n \in Nodes : Limited(pool[n])
<1>1. Init => AllLimited
  <2>1. Limited(EmptyPool)
    BY BytesStep, FS_EmptySet, LimitsAssumption DEF Limited, EmptyPool
  <2> QED
    BY <2>1 DEF Init
<1>2. IInv /\ AllLimited /\ [Next]_vars => AllLimited'
  <2> SUFFICES ASSUME IInv, AllLimited, [Next]_vars, NEW n \in Nodes PROVE Limited(pool'[n])
    BY DEF Limited
  <2>1. PoolOK(pool[n]) /\ Limited(pool[n]) /\ Becomes(pool[n], pool'[n])
    BY PoolStep DEF IInv
  <2>2. ASSUME NEW t \in Txs, pool'[n] = OnConfirmed(pool[n], t) PROVE Limited(pool'[n])
    BY <2>1, <2>2, RemoveLimited DEF OnConfirmed
  <2> QED
    BY <2>1, <2>2, AcceptedLimited, SweepLimited DEF Becomes
<1>3. AllLimited => WithinLimits
  BY DEF Limited, WithinLimits
<1> QED
  BY <1>1, <1>2, <1>3, Inductive, PTL DEF Spec

-----------------------------------------------------------------------------
(* What has been seen, and what is under way *)

LEMMA AppendSet ==
  ASSUME NEW X, NEW s \in Seq(X), NEW m \in X
  PROVE  ToSet(Append(s, m)) = ToSet(s) \cup {m}
<1> DEFINE u == Append(s, m)
<1>1. /\ Len(s) \in Nat /\ DOMAIN s = 1 .. Len(s) /\ DOMAIN u = 1 .. Len(s) + 1
      /\ \A i \in 1 .. Len(s) : u[i] = s[i]
      /\ u[Len(s) + 1] = m
  OBVIOUS
<1> HIDE DEF u
<1>2. ToSet(u) = ToSet(s) \cup {m}
  BY <1>1 DEF ToSet
<1> QED
  BY <1>2 DEF u

LEMMA TailSet ==
  ASSUME NEW X, NEW s \in Seq(X), s # <<>>
  PROVE  /\ Head(s) \in ToSet(s) /\ ToSet(Tail(s)) \subseteq ToSet(s)
         /\ ToSet(s) \subseteq ToSet(Tail(s)) \cup {Head(s)}
<1> DEFINE u == Tail(s)
<1>1. /\ Len(s) \in Nat \ {0} /\ DOMAIN s = 1 .. Len(s) /\ DOMAIN u = 1 .. Len(s) - 1
      /\ \A i \in 1 .. Len(s) - 1 : u[i] = s[i + 1]
      /\ Head(s) = s[1]
  OBVIOUS
<1> HIDE DEF u
<1>2. Head(s) \in ToSet(s)
  BY <1>1 DEF ToSet
<1>3. ToSet(u) \subseteq ToSet(s)
  BY <1>1 DEF ToSet
<1>4. ASSUME NEW x \in ToSet(s), x # Head(s) PROVE x \in ToSet(u)
  <2>1. PICK i \in 1 .. Len(s) : x = s[i]
    BY <1>1 DEF ToSet
  <2>2. i - 1 \in DOMAIN u /\ u[i - 1] = x
    BY <1>1, <1>4, <2>1
  <2> QED
    BY <2>2 DEF ToSet
<1> QED
  BY <1>2, <1>3, <1>4 DEF u

\* The ring names every entry, and no transaction twice.
RingOK(p) ==
  /\ p.ring \in Seq(Txs) /\ p.txs \subseteq ToSet(p.ring)
  /\ \A i, j \in 1 .. Len(p.ring) : p.ring[i] = p.ring[j] => i = j

\* A ring that has a place for every transaction forgets none (mempool.c:96-110).
LEMMA NotedRing ==
  ASSUME NEW p, PoolOK(p), RingOK(p), NEW t \in Txs, Cardinality(Txs) <= SeenRing
  PROVE  /\ RingOK(NoteSeen(p, t))
         /\ ToSet(NoteSeen(p, t).ring) = ToSet(p.ring) \cup {t}
<1> DEFINE r == p.ring
<1>1. CASE t \in ToSet(r)
  BY <1>1 DEF NoteSeen
<1>2. CASE t \notin ToSet(r)
  <2>1. Len(r) < SeenRing
    <3>1. r \in [1 .. Len(r) -> Txs \ {t}] /\ Len(r) \in Nat
      BY <1>2 DEF RingOK, ToSet
    <3>2. r \in Injection(1 .. Len(r), Txs \ {t})
      BY <3>1 DEF RingOK, Injection, IsInjective
    <3>3. IsFiniteSet(Txs \ {t}) /\ Cardinality(Txs \ {t}) = Cardinality(Txs) - 1
      BY TxsAssumption, FS_RemoveElement
    <3>4. Cardinality(1 .. Len(r)) <= Cardinality(Txs \ {t})
      BY <3>2, <3>3, FS_Injection
    <3>5. Cardinality(1 .. Len(r)) = Len(r)
      BY <3>1, FS_Interval
    <3>6. SeenRing \in Nat /\ Cardinality(Txs) \in Nat
      BY LimitsAssumption, TxsAssumption, FS_CardinalityType
    <3> QED
      BY <3>1, <3>3, <3>4, <3>5, <3>6
  <2>2. NoteSeen(p, t) = [p EXCEPT !.ring = Append(@, t)]
    BY <1>2, <2>1 DEF NoteSeen
  <2> DEFINE u == Append(r, t)
  <2>3. NoteSeen(p, t).ring = u /\ NoteSeen(p, t).txs = p.txs
    BY <2>2 DEF PoolOK, Shape
  <2>4. r \in Seq(Txs) /\ u \in Seq(Txs) /\ ToSet(u) = ToSet(r) \cup {t}
    BY AppendSet DEF RingOK
  <2>5. \A i, j \in 1 .. Len(u) : u[i] = u[j] => i = j
    <3>1. /\ Len(r) \in Nat /\ Len(u) = Len(r) + 1 /\ u[Len(r) + 1] = t
          /\ \A i \in 1 .. Len(r) : u[i] = r[i] /\ r[i] # t
      BY <1>2, <2>4 DEF ToSet
    <3> HIDE DEF u
    <3> QED
      BY <3>1 DEF RingOK
  <2> HIDE DEF u
  <2> QED
    BY <2>3, <2>4, <2>5 DEF RingOK
<1> QED
  BY <1>1, <1>2

LEMMA RemovedRing ==
  ASSUME NEW p, RingOK(p), NEW E
  PROVE  /\ RingOK(RemoveEntries(p, E)) /\ RemoveEntries(p, E).ring = p.ring
         /\ RemoveEntries(p, E).txs \subseteq p.txs
  BY DEF RemoveEntries, RingOK

LEMMA AcceptedRing ==
  ASSUME NEW p, PoolOK(p), RingOK(p), NEW t \in Txs, NEW q \in Accepted(p, t),
         Cardinality(Txs) <= SeenRing
  PROVE  /\ RingOK(q) /\ ToSet(q.ring) = ToSet(p.ring) \cup {t}
         /\ q.txs \subseteq p.txs \cup {t} /\ (~Admits(p, t) => q.txs = p.txs)
<1> DEFINE noted == NoteSeen(p, t)
<1>1. /\ RingOK(noted) /\ ToSet(noted.ring) = ToSet(p.ring) \cup {t}
      /\ noted.txs = p.txs
  BY NotedRing, NoteSeenKeeps
<1>2. CASE ~Admits(p, t)
  BY <1>1, <1>2 DEF Accepted
<1>3. CASE Admits(p, t)
  <2>1. PICK E \in Evictions(noted, t) : q = Insert(RemoveEntries(noted, E), t)
    BY <1>3 DEF Accepted
  <2> HIDE DEF noted
  <2> DEFINE r == RemoveEntries(noted, E)
  <2>2. RingOK(r) /\ r.ring = noted.ring /\ r.txs \subseteq noted.txs
    BY <1>1, RemovedRing
  <2>3. q.ring = r.ring /\ q.txs = r.txs \cup {t}
    BY <2>1 DEF Insert
  <2> HIDE DEF r
  <2> QED
    BY <1>1, <1>3, <2>2, <2>3 DEF RingOK
<1> QED
  BY <1>2, <1>3

LEMMA SweptRing ==
  ASSUME NEW p, RingOK(p)
  PROVE  RingOK(Sweep(p)) /\ Sweep(p).ring = p.ring /\ Sweep(p).txs \subseteq p.txs
<1> DEFINE left == RemoveEntries(p, Expired(p))
<1>1. RingOK(left) /\ left.ring = p.ring /\ left.txs \subseteq p.txs
  BY RemovedRing
<1>2. CASE p.count = 0
  BY <1>2 DEF Sweep
<1>3. CASE p.count # 0
  <2>1. Sweep(p).ring = left.ring /\ Sweep(p).txs = left.txs
    BY <1>3 DEF Sweep, RemoveEntries
  <2> QED
    BY <1>1, <2>1 DEF RingOK
<1> QED
  BY <1>2, <1>3

-----------------------------------------------------------------------------
(* The invariant of the relay *)

\* A message about t is under way on k.
Flies(c, k, t) == [cmd |-> c, tx |-> t] \in ToSet(net[k])

\* What n says to o of t: o knows it, or the exchange about it is under way.
Told(n, o, t) ==
  \/ t \in ToSet(pool[o].ring)
  \/ Flies("inv", <<n, o>>, t) \/ Flies("getdata", <<o, n>>, t) \/ Flies("tx", <<n, o>>, t)

RingsOK == mishaps \in Nat /\ \A n \in Nodes : RingOK(pool[n])

\* A transaction is sent by a node that has seen it.
SendersSaw == \A l \in Links, t \in Txs : Flies("tx", l, t) => t \in ToSet(pool[l[1]].ring)

AllTold == mishaps = 0 => \A l \in Links : \A t \in pool[l[1]].txs : Told(l[1], l[2], t)

SInv == RingsOK /\ SendersSaw /\ AllTold

\* What an answer takes off the connections and puts on them.
LEMMA AnswerMoves ==
  ASSUME IInv, NEW l \in Pairs, net[l] # <<>>, NEW S, NEW m \in Msg, Answer(l, S, m),
         NEW k \in Pairs
  PROVE  /\ ToSet(net[k]) \subseteq ToSet(net'[k]) \cup (IF k = l THEN {First(l)} ELSE {})
         /\ ToSet(net'[k]) \subseteq ToSet(net[k]) \cup (IF k \in S THEN {m} ELSE {})
         /\ k \in S => m \in ToSet(net'[k])
<1> DEFINE left == IF k = l THEN Tail(net[k]) ELSE net[k]
<1>1. net[k] \in Seq(Msg) /\ left \in Seq(Msg)
  BY DEF IInv
<1>2. /\ ToSet(net[k]) \subseteq ToSet(left) \cup (IF k = l THEN {First(l)} ELSE {})
      /\ ToSet(left) \subseteq ToSet(net[k])
  BY <1>1, TailSet DEF First
<1>3. net'[k] = IF k \in S THEN Append(left, m) ELSE left
  BY DEF Answer
<1> HIDE DEF left
<1>4. ToSet(Append(left, m)) = ToSet(left) \cup {m}
  BY <1>1, AppendSet
<1> QED
  BY <1>2, <1>3, <1>4

\* The ends of a connection.
LEMMA LinkEnds ==
  ASSUME IInv, NEW l \in Links
  PROVE  /\ l \in Pairs /\ l = <<l[1], l[2]>> /\ Back(l) = <<l[2], l[1]>> /\ Back(l) \in Links
         /\ Back(l) \in Pairs /\ l[1] \in Nodes /\ l[2] \in Nodes
  BY WorldsAssumption DEF IInv, Links, Pairs, Back

LEMMA FirstIs ==
  ASSUME IInv, NEW l \in Links, net[l] # <<>>
  PROVE  /\ First(l) = [cmd |-> First(l).cmd, tx |-> First(l).tx] /\ First(l).tx \in Txs
         /\ First(l) \in ToSet(net[l])
<1>1. net[l] \in Seq(Msg) /\ First(l) \in Msg /\ First(l).tx \in Txs
  BY FirstIsMsg, LinkEnds DEF IInv
<1> QED
  BY <1>1, TailSet DEF First, Msg

\* A step that leaves the pools, their rings included, or makes them smaller, and
\* takes off a connection at most a message that has served.
LEMMA SpreadStays ==
  ASSUME IInv, SInv, UNCHANGED <<world, mishaps>>,
         \A n \in Nodes : RingOK(pool'[n]) /\ ToSet(pool[n].ring) \subseteq ToSet(pool'[n].ring),
         \A l \in Links, t \in Txs : Flies("tx", l, t)' =>
           Flies("tx", l, t) \/ t \in ToSet(pool'[l[1]].ring),
         mishaps = 0 => \A l \in Links : \A t \in pool'[l[1]].txs :
           \/ t \in pool[l[1]].txs /\ (Told(l[1], l[2], t) => Told(l[1], l[2], t)')
           \/ Told(l[1], l[2], t)'
  PROVE  SInv'
<1>1. RingsOK'
  BY DEF SInv, RingsOK, RingOK
<1>2. SendersSaw'
  <2> SUFFICES ASSUME NEW l \in Links, NEW t \in Txs, Flies("tx", l, t)'
               PROVE  t \in ToSet(pool'[l[1]].ring)
    BY DEF SendersSaw, Links
  <2>1. l[1] \in Nodes
    BY LinkEnds
  <2> QED
    BY <2>1 DEF SInv, SendersSaw
<1>3. AllTold'
  <2> SUFFICES ASSUME mishaps = 0, NEW l \in Links, NEW t \in pool'[l[1]].txs
               PROVE  Told(l[1], l[2], t)'
    BY DEF AllTold, Links
  <2> QED
    BY DEF SInv, AllTold
<1> QED
  BY <1>1, <1>2, <1>3 DEF SInv

LEMMA InvSpread ==
  ASSUME IInv, SInv, NEW l \in Links, OnInv(l)
  PROVE  SInv'
<1> DEFINE t0 == First(l).tx
           S == IF Known(pool[l[2]], t0) THEN {} ELSE {Back(l)}
           m == [cmd |-> "getdata", tx |-> t0]
<1>1. /\ net[l] # <<>> /\ First(l) = [cmd |-> "inv", tx |-> t0] /\ t0 \in Txs /\ Answer(l, S, m)
      /\ UNCHANGED <<world, pool, mishaps>>
  BY FirstIs DEF OnInv
<1>2. m \in Msg /\ \A n \in Nodes : RingOK(pool[n])
  BY <1>1 DEF Msg, SInv, RingsOK
<1>3. ASSUME NEW k \in Pairs
      PROVE  /\ ToSet(net[k]) \subseteq ToSet(net'[k]) \cup (IF k = l THEN {First(l)} ELSE {})
             /\ ToSet(net'[k]) \subseteq ToSet(net[k]) \cup (IF k \in S THEN {m} ELSE {})
             /\ k \in S => m \in ToSet(net'[k])
  <2> HIDE DEF S, m
  <2> QED
    BY <1>1, <1>2, LinkEnds, AnswerMoves
<1>4. ASSUME NEW k \in Links, NEW t \in Txs, Flies("tx", k, t)' PROVE Flies("tx", k, t)
  BY <1>3, <1>4, LinkEnds DEF Flies
<1>5. ASSUME NEW k \in Links, NEW t \in pool[k[1]].txs, Told(k[1], k[2], t)
      PROVE  Told(k[1], k[2], t)'
  <2>1. k \in Pairs /\ k = <<k[1], k[2]>> /\ Back(k) = <<k[2], k[1]>> /\ Back(k) \in Pairs
        /\ k[2] \in Nodes
    BY LinkEnds
  <2>2. CASE Flies("inv", k, t)
    <3>1. CASE Flies("inv", k, t)'
      BY <2>1, <3>1 DEF Told, Flies
    <3>2. CASE ~Flies("inv", k, t)'
      <4>1. k = l /\ t = t0
        BY <1>1, <1>3, <2>1, <2>2, <3>2 DEF Flies
      <4>2. CASE Known(pool[l[2]], t0)
        <5>1. t0 \in ToSet(pool[l[2]].ring)
          BY <1>2, <2>1, <4>1, <4>2 DEF Known, Seen, Has, RingOK
        <5> QED
          BY <1>1, <4>1, <5>1 DEF Told
      <4>3. CASE ~Known(pool[l[2]], t0)
        <5>1. m \in ToSet(net'[Back(k)])
          BY <1>3, <2>1, <4>1, <4>3
        <5> QED
          BY <2>1, <4>1, <5>1 DEF Told, Flies
      <4> QED
        BY <4>2, <4>3
    <3> QED
      BY <3>1, <3>2
  <2>3. CASE Flies("getdata", Back(k), t)
    <3>1. Flies("getdata", Back(k), t)'
      BY <1>1, <1>3, <2>1, <2>3 DEF Flies
    <3> QED
      BY <2>1, <3>1 DEF Told, Flies
  <2>4. CASE Flies("tx", k, t)
    <3>1. Flies("tx", k, t)'
      BY <1>1, <1>3, <2>1, <2>4 DEF Flies
    <3> QED
      BY <2>1, <3>1 DEF Told, Flies
  <2>5. CASE t \in ToSet(pool[k[2]].ring)
    BY <1>1, <2>5 DEF Told
  <2> QED
    BY <1>5, <2>1, <2>2, <2>3, <2>4, <2>5 DEF Told
<1> QED
  BY <1>1, <1>2, <1>4, <1>5, SpreadStays

LEMMA GetdataSpread ==
  ASSUME IInv, SInv, NEW l \in Links, OnGetdata(l)
  PROVE  SInv'
<1> DEFINE t0 == First(l).tx
           S == IF Has(pool[l[2]], t0) THEN {Back(l)} ELSE {}
           m == [cmd |-> "tx", tx |-> t0]
<1>1. /\ net[l] # <<>> /\ First(l) = [cmd |-> "getdata", tx |-> t0] /\ t0 \in Txs
      /\ Answer(l, S, m) /\ UNCHANGED <<world, pool, mishaps>>
  BY FirstIs DEF OnGetdata
<1>2. m \in Msg /\ \A n \in Nodes : RingOK(pool[n])
  BY <1>1 DEF Msg, SInv, RingsOK
<1>3. ASSUME NEW k \in Pairs
      PROVE  /\ ToSet(net[k]) \subseteq ToSet(net'[k]) \cup (IF k = l THEN {First(l)} ELSE {})
             /\ ToSet(net'[k]) \subseteq ToSet(net[k]) \cup (IF k \in S THEN {m} ELSE {})
             /\ k \in S => m \in ToSet(net'[k])
  <2> HIDE DEF S, m
  <2> QED
    BY <1>1, <1>2, LinkEnds, AnswerMoves
<1>4. ASSUME NEW k \in Links, NEW t \in Txs, Flies("tx", k, t)'
      PROVE  Flies("tx", k, t) \/ t \in ToSet(pool'[k[1]].ring)
  <2>1. k \in Pairs /\ k[1] \in Nodes
    BY LinkEnds
  <2>2. CASE ~Flies("tx", k, t)
    <3>1. Has(pool[l[2]], t0) /\ k = Back(l) /\ t = t0
      BY <1>3, <1>4, <2>1, <2>2 DEF Flies
    <3>2. k[1] = l[2]
      BY <3>1, LinkEnds DEF Back
    <3> QED
      BY <1>1, <1>2, <2>1, <3>1, <3>2 DEF Has, RingOK
  <2> QED
    BY <2>2
<1>5. ASSUME NEW k \in Links, NEW t \in pool[k[1]].txs, Told(k[1], k[2], t)
      PROVE  Told(k[1], k[2], t)'
  <2>1. k \in Pairs /\ k = <<k[1], k[2]>> /\ Back(k) = <<k[2], k[1]>> /\ Back(k) \in Pairs
        /\ k[2] \in Nodes
    BY LinkEnds
  <2>2. CASE Flies("getdata", Back(k), t)
    <3>1. CASE Flies("getdata", Back(k), t)'
      BY <2>1, <3>1 DEF Told, Flies
    <3>2. CASE ~Flies("getdata", Back(k), t)'
      <4>1. Back(k) = l /\ t = t0
        BY <1>1, <1>3, <2>1, <2>2, <3>2 DEF Flies
      <4>2. Back(l) = k /\ l[2] = k[1]
        BY <2>1, <4>1 DEF Back
      <4>3. m \in ToSet(net'[k])
        BY <1>3, <2>1, <4>1, <4>2 DEF Has
      <4> QED
        BY <2>1, <4>1, <4>3 DEF Told, Flies
    <3> QED
      BY <3>1, <3>2
  <2>3. CASE Flies("inv", k, t)
    <3>1. Flies("inv", k, t)'
      BY <1>1, <1>3, <2>1, <2>3 DEF Flies
    <3> QED
      BY <2>1, <3>1 DEF Told, Flies
  <2>4. CASE Flies("tx", k, t)
    <3>1. Flies("tx", k, t)'
      BY <1>1, <1>3, <2>1, <2>4 DEF Flies
    <3> QED
      BY <2>1, <3>1 DEF Told, Flies
  <2>5. CASE t \in ToSet(pool[k[2]].ring)
    BY <1>1, <2>5 DEF Told
  <2> QED
    BY <1>5, <2>1, <2>2, <2>3, <2>4, <2>5 DEF Told
<1> QED
  BY <1>1, <1>2, <1>4, <1>5, SpreadStays

\* A pool takes t0 in from node o, and nothing leaves the connections but the
\* message that brought it: everybody else is told, and o has seen it.
LEMMA TakenSpread ==
  ASSUME IInv, SInv, Cardinality(Txs) <= SeenRing,
         NEW n \in Nodes, NEW t0 \in Txs, NEW o, NEW q \in Accepted(pool[n], t0),
         pool' = [pool EXCEPT ![n] = q], UNCHANGED <<world, mishaps>>,
         o # n => t0 \in ToSet(pool[o].ring),
         \A k \in Pairs :
           /\ \A m \in ToSet(net[k]) :
                m \in ToSet(net'[k]) \/ (k[2] = n /\ m = [cmd |-> "tx", tx |-> t0])
           /\ \A t \in Txs : Flies("tx", k, t)' => Flies("tx", k, t)
           /\ k[1] = n /\ k[2] \in Others(n, o) /\ Admits(pool[n], t0)
                => Flies("inv", k, t0)'
  PROVE  SInv'
<1>1. /\ RingOK(q) /\ ToSet(q.ring) = ToSet(pool[n].ring) \cup {t0}
      /\ q.txs \subseteq pool[n].txs \cup {t0} /\ (~Admits(pool[n], t0) => q.txs = pool[n].txs)
  BY AcceptedRing DEF IInv, SInv, RingsOK
<1>2. \A m \in Nodes : pool'[m] = IF m = n THEN q ELSE pool[m]
  BY DEF IInv
<1>3. \A m \in Nodes : RingOK(pool'[m]) /\ ToSet(pool[m].ring) \subseteq ToSet(pool'[m].ring)
  BY <1>1, <1>2 DEF SInv, RingsOK
<1>4. ASSUME NEW k \in Links, NEW t \in Txs, Flies("tx", k, t)' PROVE Flies("tx", k, t)
  BY <1>4, LinkEnds
<1>5. ASSUME NEW k \in Links, NEW t, Told(k[1], k[2], t)
      PROVE  Told(k[1], k[2], t)'
  <2>1. k \in Pairs /\ k = <<k[1], k[2]>> /\ Back(k) = <<k[2], k[1]>> /\ Back(k) \in Pairs
        /\ k[2] \in Nodes
    BY LinkEnds
  <2>2. CASE t \in ToSet(pool[k[2]].ring)
    BY <1>3, <2>1, <2>2 DEF Told
  <2>3. CASE Flies("inv", k, t)
    <3>1. Flies("inv", k, t)'
      BY <2>1, <2>3 DEF Flies
    <3> QED
      BY <2>1, <3>1 DEF Told, Flies
  <2>4. CASE Flies("getdata", Back(k), t)
    <3>1. Flies("getdata", Back(k), t)'
      BY <2>1, <2>4 DEF Flies
    <3> QED
      BY <2>1, <3>1 DEF Told, Flies
  <2>5. CASE Flies("tx", k, t)
    <3>1. CASE Flies("tx", k, t)'
      BY <2>1, <3>1 DEF Told, Flies
    <3>2. CASE ~Flies("tx", k, t)'
      <4>1. k[2] = n /\ [cmd |-> "tx", tx |-> t] = [cmd |-> "tx", tx |-> t0]
        BY <2>1, <2>5, <3>2 DEF Flies
      <4>2. t = t0
        BY <4>1
      <4> QED
        BY <1>1, <1>2, <4>1, <4>2 DEF Told
    <3> QED
      BY <3>1, <3>2
  <2> QED
    BY <1>5, <2>1, <2>2, <2>3, <2>4, <2>5 DEF Told
<1>6. ASSUME NEW k \in Links, NEW t \in pool'[k[1]].txs, t \notin pool[k[1]].txs
      PROVE  Told(k[1], k[2], t)'
  <2>1. k \in Pairs /\ k = <<k[1], k[2]>> /\ k[1] \in Nodes /\ k[2] \in Nodes
    BY LinkEnds
  <2>2. k[1] = n /\ t = t0 /\ Admits(pool[n], t0)
    BY <1>1, <1>2, <1>6, <2>1
  <2>3. k[2] \in Peers(n)
    BY <2>1, <2>2 DEF Peers
  <2>4. CASE k[2] = n
    BY <1>1, <1>2, <2>2, <2>4 DEF Told
  <2>5. CASE k[2] # n /\ k[2] = o
    <3>1. t0 \in ToSet(pool'[k[2]].ring)
      BY <1>2, <2>1, <2>5
    <3> QED
      BY <2>2, <3>1 DEF Told
  <2>6. CASE k[2] # n /\ k[2] # o
    <3>1. Flies("inv", k, t0)'
      BY <2>1, <2>2, <2>3, <2>6 DEF Others
    <3> QED
      BY <2>1, <2>2, <3>1 DEF Told, Flies
  <2> QED
    BY <2>4, <2>5, <2>6
<1> QED
  BY <1>3, <1>4, <1>5, <1>6, SpreadStays

LEMMA TxSpread ==
  ASSUME IInv, SInv, Cardinality(Txs) <= SeenRing, NEW l \in Links, OnTx(l)
  PROVE  SInv'
<1>0. PICK t0 \in Txs : First(l).tx = t0
  BY FirstIs DEF OnTx
<1> DEFINE n == l[2]
           told == IF Admits(pool[n], t0) THEN Others(n, l[1]) ELSE {}
           S == {n} \X told
           m == [cmd |-> "inv", tx |-> t0]
<1>1. /\ net[l] # <<>> /\ First(l) = [cmd |-> "tx", tx |-> t0] /\ t0 \in Txs
      /\ First(l) \in ToSet(net[l]) /\ Answer(l, S, m) /\ UNCHANGED <<world, mishaps>>
  BY <1>0, FirstIs DEF OnTx
<1>2. PICK q \in Accepted(pool[n], t0) : pool' = [pool EXCEPT ![n] = q]
  BY <1>0 DEF OnTx
<1>3. m \in Msg
  BY <1>1 DEF Msg
<1>4. ASSUME NEW k \in Pairs
      PROVE  /\ ToSet(net[k]) \subseteq ToSet(net'[k]) \cup (IF k = l THEN {First(l)} ELSE {})
             /\ ToSet(net'[k]) \subseteq ToSet(net[k]) \cup (IF k \in S THEN {m} ELSE {})
             /\ k \in S => m \in ToSet(net'[k])
  <2> HIDE DEF S, m
  <2> QED
    BY <1>1, <1>3, LinkEnds, AnswerMoves
<1>5. t0 \in ToSet(pool[l[1]].ring)
  BY <1>1 DEF SInv, SendersSaw, Flies
<1>6. ASSUME NEW k \in Pairs
      PROVE  /\ \A x \in ToSet(net[k]) :
                  x \in ToSet(net'[k]) \/ (k[2] = n /\ x = [cmd |-> "tx", tx |-> t0])
             /\ \A t \in Txs : Flies("tx", k, t)' => Flies("tx", k, t)
             /\ k[1] = n /\ k[2] \in Others(n, l[1]) /\ Admits(pool[n], t0)
                  => Flies("inv", k, t0)'
  <2>1. \A x \in ToSet(net[k]) :
          x \in ToSet(net'[k]) \/ (k[2] = n /\ x = [cmd |-> "tx", tx |-> t0])
    <3> SUFFICES ASSUME NEW x \in ToSet(net[k]), x \notin ToSet(net'[k])
                 PROVE  k[2] = n /\ x = [cmd |-> "tx", tx |-> t0]
      OBVIOUS
    <3>1. k = l /\ x = First(l)
      BY <1>4
    <3> QED
      BY <1>1, <3>1
  <2>2. \A t \in Txs : Flies("tx", k, t)' => Flies("tx", k, t)
    BY <1>4 DEF Flies
  <2>3. ASSUME k[1] = n, k[2] \in Others(n, l[1]), Admits(pool[n], t0)
        PROVE  Flies("inv", k, t0)'
    <3>1. k \in S
      <4>1. k = <<n, k[2]>>
        BY <2>3 DEF Pairs
      <4> HIDE DEF n
      <4> QED
        BY <2>3, <4>1
    <3> QED
      BY <1>4, <3>1 DEF Flies
  <2> QED
    BY <2>1, <2>2, <2>3
<1>7. n \in Nodes
  BY LinkEnds
<1> HIDE DEF n, told, S, m
<1> QED
  BY <1>1, <1>2, <1>5, <1>6, <1>7, TakenSpread

LEMMA SubmitSpread ==
  ASSUME IInv, SInv, Cardinality(Txs) <= SeenRing, NEW n \in Nodes, NEW t0 \in Txs,
         Submit(n, t0)
  PROVE  SInv'
<1> DEFINE m == [cmd |-> "inv", tx |-> t0]
           C(k) == k \in {n} \X Others(n, n) /\ Admits(pool[n], t0)
<1>1. PICK q \in Accepted(pool[n], t0) : pool' = [pool EXCEPT ![n] = q]
  BY DEF Submit
<1>2. net' = [k \in Pairs |-> IF C(k) THEN Append(net[k], m) ELSE net[k]]
      /\ UNCHANGED <<world, mishaps>>
  BY DEF Submit
<1>3. ASSUME NEW k \in Pairs
      PROVE  ToSet(net'[k]) = ToSet(net[k]) \cup (IF C(k) THEN {m} ELSE {})
  <2>1. net[k] \in Seq(Msg) /\ m \in Msg
    BY DEF IInv, Msg
  <2> HIDE DEF m, C
  <2>2. ToSet(Append(net[k], m)) = ToSet(net[k]) \cup {m}
    BY <2>1, AppendSet
  <2> QED
    BY <1>2, <2>2
<1>4. ASSUME NEW k \in Pairs
      PROVE  /\ \A x \in ToSet(net[k]) :
                  x \in ToSet(net'[k]) \/ (k[2] = n /\ x = [cmd |-> "tx", tx |-> t0])
             /\ \A t \in Txs : Flies("tx", k, t)' => Flies("tx", k, t)
             /\ k[1] = n /\ k[2] \in Others(n, n) /\ Admits(pool[n], t0) => Flies("inv", k, t0)'
  <2>1. \A t \in Txs : Flies("tx", k, t)' => Flies("tx", k, t)
    BY <1>3 DEF Flies
  <2>2. ASSUME k[1] = n, k[2] \in Others(n, n), Admits(pool[n], t0)
        PROVE  Flies("inv", k, t0)'
    <3>1. C(k)
      BY <2>2 DEF Pairs
    <3> QED
      BY <1>3, <3>1 DEF Flies
  <2>3. \A x \in ToSet(net[k]) : x \in ToSet(net'[k])
    <3> HIDE DEF m, C
    <3> QED
      BY <1>3
  <2> HIDE DEF m, C
  <2> QED
    BY <2>1, <2>2, <2>3
<1> HIDE DEF m, C
<1> QED
  BY <1>1, <1>2, <1>4, TakenSpread

\* Entries leave a pool, and nothing is sent.
LEMMA LeavesSpread ==
  ASSUME IInv, SInv, NEW n \in Nodes, Swept(n) \/ RemoveConfirmed(n)
  PROVE  SInv'
<1>1. UNCHANGED <<world, mishaps, net>>
  BY DEF Swept, RemoveConfirmed
<1>2. ASSUME NEW m \in Nodes
      PROVE  /\ RingOK(pool'[m]) /\ pool'[m].ring = pool[m].ring
             /\ pool'[m].txs \subseteq pool[m].txs
  <2>1. RingOK(pool[m])
    BY DEF SInv, RingsOK
  <2>2. CASE Swept(n)
    BY <2>1, <2>2, SweptRing DEF Swept, IInv
  <2>3. CASE RemoveConfirmed(n)
    BY <2>1, <2>3, RemovedRing DEF RemoveConfirmed, OnConfirmed, IInv
  <2> QED
    BY <2>2, <2>3
<1>3. ASSUME NEW k \in Links, NEW t \in pool'[k[1]].txs
      PROVE  t \in pool[k[1]].txs /\ (Told(k[1], k[2], t) => Told(k[1], k[2], t)')
  BY <1>1, <1>2, LinkEnds DEF Told, Flies
<1>4. \A k \in Links, t \in Txs : Flies("tx", k, t)' => Flies("tx", k, t)
  BY <1>1 DEF Flies
<1> QED
  BY <1>1, <1>2, <1>3, <1>4, SpreadStays

\* A mishap: connections and requests are lost, and pools are asked for.
LEMMA MishapSpread ==
  ASSUME IInv, SInv, NEW l \in Links, Lose(l) \/ Refuse(l) \/ AskPool(l)
  PROVE  SInv'
<1>1. mishaps' = mishaps + 1 /\ pool' = pool /\ world' = world
  BY DEF Lose, Refuse, AskPool, Mishap
<1>2. RingsOK'
  BY <1>1 DEF SInv, RingsOK, RingOK
<1>3. AllTold'
  BY <1>1 DEF SInv, RingsOK, AllTold
<1>4. ASSUME NEW k \in Links, NEW t \in Txs, Flies("tx", k, t)' PROVE Flies("tx", k, t)
  <2>1. k \in Pairs /\ net[k] \in Seq(Msg) /\ l \in Pairs /\ net[l] \in Seq(Msg)
    BY LinkEnds DEF IInv
  <2>2. CASE Lose(l)
    <3>1. net'[k] = <<>> \/ net'[k] = net[k]
      BY <2>1, <2>2 DEF Lose
    <3>2. ToSet(<<>>) = {}
      BY DEF ToSet
    <3> QED
      BY <1>4, <3>1, <3>2 DEF Flies
  <2>3. CASE Refuse(l)
    <3>1. net[l] # <<>> /\ net'[k] = IF k = l THEN Tail(net[l]) ELSE net[k]
      BY <2>1, <2>3 DEF Refuse, IInv
    <3>2. ToSet(Tail(net[l])) \subseteq ToSet(net[l])
      BY <2>1, <3>1, TailSet
    <3> QED
      BY <1>4, <3>1, <3>2 DEF Flies
  <2>4. CASE AskPool(l)
    <3>1. PICK s \in SetToSeqs(pool[l[1]].txs) :
            net' = [net EXCEPT ![l] = @ \o [i \in 1 .. Len(s) |-> [cmd |-> "inv", tx |-> s[i]]]]
      BY <2>4 DEF AskPool
    <3> DEFINE a == net[l]
               b == [i \in 1 .. Len(s) |-> [cmd |-> "inv", tx |-> s[i]]]
    <3>2. s \in Seq(Txs)
      <4>1. pool[l[1]].txs \subseteq Txs /\ IsFiniteSet(pool[l[1]].txs)
        BY LinkEnds, TxsAssumption, FS_Subset DEF IInv, PoolOK, Shape
      <4>2. Cardinality(pool[l[1]].txs) \in Nat
        BY <4>1, FS_CardinalityType
      <4>3. s \in [1 .. Cardinality(pool[l[1]].txs) -> pool[l[1]].txs]
        BY DEF SetToSeqs
      <4> QED
        BY <4>1, <4>2, <4>3, SeqDef
    <3>3. b \in Seq(Msg) /\ \A i \in DOMAIN b : b[i].cmd = "inv"
      <4>1. Len(s) \in Nat /\ \A i \in 1 .. Len(s) : s[i] \in Txs
        BY <3>2
      <4>2. \A i \in 1 .. Len(s) : [cmd |-> "inv", tx |-> s[i]] \in Msg
        BY <4>1 DEF Msg
      <4> QED
        BY <4>1, <4>2, SeqDef
    <3>4. net'[k] = IF k = l THEN a \o b ELSE net[k]
      BY <2>1, <3>1 DEF IInv
    <3> HIDE DEF b
    <3>5. ToSet(a \o b) \subseteq ToSet(a) \cup ToSet(b)
      BY <2>1, <3>3 DEF ToSet
    <3>6. [cmd |-> "tx", tx |-> t] \notin ToSet(b)
      BY <3>3 DEF ToSet
    <3> QED
      BY <1>4, <3>4, <3>5, <3>6 DEF Flies
  <2> QED
    BY <2>2, <2>3, <2>4
<1>5. SendersSaw'
  <2> SUFFICES ASSUME NEW k \in Links, NEW t \in Txs, Flies("tx", k, t)'
               PROVE  t \in ToSet(pool[k[1]].ring)
    BY <1>1 DEF SendersSaw, Links
  <2> QED
    BY <1>4 DEF SInv, SendersSaw
<1> QED
  BY <1>2, <1>3, <1>5 DEF SInv

LEMMA InitSpread == Init => SInv
<1> SUFFICES ASSUME Init PROVE SInv
  OBVIOUS
<1>1. IInv
  BY InitInv
<1>2. RingOK(EmptyPool) /\ EmptyPool.txs = {}
  BY DEF RingOK, EmptyPool
<1>3. \A n \in Nodes : pool[n] = EmptyPool
  BY DEF Init
<1>4. ASSUME NEW l \in Links, NEW t PROVE ~Flies("tx", l, t)
  BY <1>1, LinkEnds DEF Init, Flies, ToSet
<1>5. AllTold
  BY <1>1, <1>2, <1>3, LinkEnds DEF AllTold
<1>6. RingsOK
  BY <1>2, <1>3 DEF RingsOK, Init
<1> QED
  BY <1>4, <1>5, <1>6 DEF SInv, SendersSaw

LEMMA NextSpread ==
  ASSUME IInv, SInv, [Next]_vars, Cardinality(Txs) <= SeenRing
  PROVE  SInv'
<1>1. ASSUME NEW n \in Nodes, Serve(n) PROVE SInv'
  BY <1>1, InvSpread, GetdataSpread, TxSpread DEF Serve
<1>2. ASSUME NEW n \in Nodes, NEW t \in Txs, Submit(n, t) PROVE SInv'
  BY <1>2, SubmitSpread
<1>3. ASSUME NEW n \in Nodes, Swept(n) \/ RemoveConfirmed(n) PROVE SInv'
  BY <1>3, LeavesSpread
<1>4. ASSUME NEW l \in Links, Lose(l) \/ Refuse(l) \/ AskPool(l) PROVE SInv'
  BY <1>4, MishapSpread
<1>5. CASE UNCHANGED <<world, pool, net, mishaps>>
  BY <1>5 DEF SInv, RingsOK, RingOK, SendersSaw, AllTold, Told, Flies, Links
<1> QED
  BY <1>1, <1>2, <1>3, <1>4, <1>5 DEF Next, Confirm, vars

\* As long as the ring has a place for every transaction, no announcement is
\* skipped or misdirected for good: when nothing is under way, every entry of a
\* pool is known to every peer (sync.c:1958-1960, 1986-1993).
THEOREM SpreadHolds ==
  ASSUME Cardinality(Txs) <= SeenRing
  PROVE  Spec => []SpreadAtRest
<1>1. IInv /\ SInv => SpreadAtRest
  <2> SUFFICES ASSUME IInv, SInv, \A l \in Links : net[l] = <<>>, mishaps = 0,
                      NEW l \in Links, NEW t \in pool[l[1]].txs
               PROVE  Seen(pool[l[2]], t)
    BY DEF SpreadAtRest
  <2>1. Told(l[1], l[2], t)
    BY DEF SInv, AllTold
  <2>2. l = <<l[1], l[2]>> /\ <<l[2], l[1]>> \in Links
    BY LinkEnds
  <2>3. net[<<l[1], l[2]>>] = <<>> /\ net[<<l[2], l[1]>>] = <<>>
    BY <2>2
  <2>4. t \in ToSet(pool[l[2]].ring)
    BY <2>1, <2>3 DEF Told, Flies, ToSet
  <2> QED
    BY <2>4 DEF Seen
<1>2. IInv /\ SInv /\ [Next]_vars => SInv'
  BY NextSpread
<1> QED
  BY <1>1, <1>2, InitSpread, Inductive, PTL DEF Spec
=============================================================================
