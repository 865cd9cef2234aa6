------------------------------- MODULE TxRelay -------------------------------
(***************************************************************************)
(* Nodes that relay transactions over their standing connections.  In each *)
(* the serve thread takes transactions in, announces and serves them; the  *)
(* sync thread takes confirmed ones out, and looks whether the pool is     *)
(* empty before it takes the lock.                                         *)
(***************************************************************************)
EXTENDS Mempool

CONSTANTS
  Nodes,
  Worlds,    \* the worlds that are checked
  MaxMishaps \* bound on connections lost, requests refused and pools asked for

VARIABLES
  world,     \* who is connected, what wallets send to whom, what is mined
  pool,      \* the pool of every node
  net,       \* the messages under way on every connection, in both directions
  hook,      \* the transaction whose removal waits for the lock
  confirmed, \* the transactions of the blocks that a node has folded
  sent,      \* what wallets have sent
  mishaps

vars == <<world, pool, net, hook, confirmed, sent, mishaps>>

Pairs == Nodes \X Nodes

Links == world.links

Back(l) == <<l[2], l[1]>>

\* A connection carries messages both ways.
ASSUME WorldsAssumption ==
  /\ Worlds \subseteq [links : SUBSET Pairs, wallets : SUBSET (Nodes \X Txs),
                       mined : SUBSET (Nodes \X Txs)]
  /\ \A w \in Worlds : \A l \in w.links : Back(l) \in w.links

Init ==
  /\ world \in Worlds
  /\ pool = [n \in Nodes |-> EmptyPool]
  /\ net = [l \in Pairs |-> <<>>]
  /\ hook = [n \in Nodes |-> NoTx]
  /\ confirmed = [n \in Nodes |-> {}]
  /\ sent = {}
  /\ mishaps = 0

-----------------------------------------------------------------------------
(* The serve thread *)

First(l) == Head(net[l])

Peers(n) == {o \in Nodes : <<n, o>> \in Links}

\* Variant: what a peer sent is not announced further.
OnlyOwn(n, o) == IF o = n THEN Peers(n) ELSE {}

\* The peers that n announces a transaction to which it took from o, or, if o is n
\* itself, from a wallet.
Others(n, o) == Peers(n) \ {o}

\* The message at the head of l is taken, and m is sent on the links of S.
Answer(l, S, m) ==
  net' = [k \in Pairs |-> LET left == IF k = l THEN Tail(net[k]) ELSE net[k]
                          IN  IF k \in S THEN Append(left, m) ELSE left]

\* Variant: only the pool is looked at.
KnownPooled(p, t) == Has(p, t)

\* Known transactions are not asked for.
Known(p, t) == Seen(p, t)

\* An inv is answered with a getdata for what is not known.
OnInv(l) ==
  /\ net[l] # <<>> /\ First(l).cmd = "inv"
  /\ LET t == First(l).tx
     IN  Answer(l, IF Known(pool[l[2]], t) THEN {} ELSE {Back(l)},
                [cmd |-> "getdata", tx |-> t])
  /\ UNCHANGED <<world, pool, hook, confirmed, sent, mishaps>>

\* A getdata is answered from the pool.
OnGetdata(l) ==
  /\ net[l] # <<>> /\ First(l).cmd = "getdata"
  /\ LET t == First(l).tx
     IN  Answer(l, IF Has(pool[l[2]], t) THEN {Back(l)} ELSE {}, [cmd |-> "tx", tx |-> t])
  /\ UNCHANGED <<world, pool, hook, confirmed, sent, mishaps>>

\* A transaction is taken in, and announced to the others if the pool took it.
OnTx(l) ==
  /\ net[l] # <<>> /\ First(l).cmd = "tx"
  /\ LET n == l[2]
         t == First(l).tx
         told == IF Admits(pool[n], t) THEN Others(n, l[1]) ELSE {}
     IN  /\ \E p \in Accepted(pool[n], t) : pool' = [pool EXCEPT ![n] = p]
         /\ Answer(l, {n} \X told, [cmd |-> "inv", tx |-> t])
  /\ UNCHANGED <<world, hook, confirmed, sent, mishaps>>

\* A wallet that is no node sends t.
Submit(n, t) ==
  /\ <<n, t>> \in world.wallets \ sent
  /\ sent' = sent \cup {<<n, t>>}
  /\ \E p \in Accepted(pool[n], t) : pool' = [pool EXCEPT ![n] = p]
  /\ net' = [l \in Pairs |-> IF l \in {n} \X Others(n, n) /\ Admits(pool[n], t)
                               THEN Append(net[l], [cmd |-> "inv", tx |-> t])
                               ELSE net[l]]
  /\ UNCHANGED <<world, hook, confirmed, mishaps>>

\* The hourly sweep; an entry is as old as the sweeps it has met.
Swept(n) ==
  /\ pool' = [pool EXCEPT ![n] = Sweep(@)]
  /\ UNCHANGED <<world, net, hook, confirmed, sent, mishaps>>

\* The serve thread of n reads the connection that l names.
Serve(n) == \E l \in Links : l[2] = n /\ (OnInv(l) \/ OnGetdata(l) \/ OnTx(l))

-----------------------------------------------------------------------------
(* The sync thread *)

\* Node n folds a block with t.
\* An empty pool is left alone, without the lock.
Confirm(n, t) ==
  /\ hook[n] = NoTx
  /\ <<n, t>> \in world.mined /\ t \notin confirmed[n]
  /\ confirmed' = [confirmed EXCEPT ![n] = @ \cup {t}]
  /\ hook' = IF pool[n].count = 0 THEN hook ELSE [hook EXCEPT ![n] = t]
  /\ UNCHANGED <<world, pool, net, sent, mishaps>>

RemoveConfirmed(n) ==
  /\ hook[n] # NoTx
  /\ pool' = [pool EXCEPT ![n] = OnConfirmed(@, hook[n])]
  /\ hook' = [hook EXCEPT ![n] = NoTx]
  /\ UNCHANGED <<world, net, confirmed, sent, mishaps>>

-----------------------------------------------------------------------------
(* Mishaps *)

Mishap == mishaps < MaxMishaps /\ mishaps' = mishaps + 1

\* A connection is lost with what is under way on it, and dialled again.
Lose(l) ==
  /\ Mishap
  /\ net' = [k \in Pairs |-> IF k \in {l, Back(l)} THEN <<>> ELSE net[k]]
  /\ UNCHANGED <<world, pool, hook, confirmed, sent>>

\* The budget of a connection is spent: its getdata is not answered.
Refuse(l) ==
  /\ Mishap
  /\ net[l] # <<>> /\ First(l).cmd = "getdata"
  /\ net' = [net EXCEPT ![l] = Tail(@)]
  /\ UNCHANGED <<world, pool, hook, confirmed, sent>>

\* A peer asks for the pool (mempool) and is answered with an inv.
AskPool(l) ==
  /\ Mishap
  /\ \E s \in SetToSeqs(pool[l[1]].txs) :
       net' = [net EXCEPT ![l] = @ \o [i \in 1 .. Len(s) |-> [cmd |-> "inv", tx |-> s[i]]]]
  /\ UNCHANGED <<world, pool, hook, confirmed, sent>>

-----------------------------------------------------------------------------
(* The specification *)

Next ==
  \/ \E n \in Nodes : Serve(n)
  \/ \E n \in Nodes, t \in Txs : Submit(n, t)
  \/ \E n \in Nodes : Swept(n)
  \/ \E n \in Nodes, t \in Txs : Confirm(n, t)
  \/ \E n \in Nodes : RemoveConfirmed(n)
  \/ \E l \in Links : Lose(l)
  \/ \E l \in Links : Refuse(l)
  \/ \E l \in Links : AskPool(l)

\* The serve thread goes on reading its connections and sweeps every hour; a block that is
\* being folded is folded to its end.
Spec ==
  /\ Init /\ [][Next]_vars
  /\ \A n \in Nodes : WF_vars(Serve(n)) /\ WF_vars(Swept(n)) /\ WF_vars(RemoveConfirmed(n))

-----------------------------------------------------------------------------
(* Properties *)

\* Both indexes, the count and the bytes describe one set of entries, whatever
\* was evicted, confirmed, swept or refused: an output is indexed exactly if an
\* entry spends it, and to that entry (mempool.c:58-71, 131-156).
IndexInv ==
  \A n \in Nodes :
    LET p == pool[n]
    IN  /\ \A i \in Outs, t \in Txs : p.owner[i] = t <=> t \in p.txs /\ i \in Spends[t]
        /\ p.count = Cardinality(p.txs)

\* The pool keeps to its limits, and counts the bytes it holds (mempool.c:131).
WithinLimits ==
  \A n \in Nodes :
    LET p == pool[n]
    IN  /\ p.bytes = Bytes(p.txs)
        /\ p.count <= MaxTxs /\ p.bytes <= MaxBytes

\* No two entries spend one output: "within-pool conflict check" (mempool.h:21).
NoDoubleSpend ==
  \A n \in Nodes : \A t, u \in pool[n].txs : t # u => Spends[t] \cap Spends[u] = {}

\* When the hook of a confirmed transaction returns, neither it nor anything that
\* spends one of its inputs is in the pool, whatever came in since the emptiness
\* check (mempool.c:190-200).
ConfirmedLeaves ==
  [][\A n \in Nodes :
       hook[n] # NoTx /\ hook'[n] = NoTx =>
         \A e \in pool'[n].txs : e # hook[n] /\ Spends[e] \cap Spends[hook[n]] = {}]_vars

\* When nothing is under way, every pooled transaction is known to every peer: an
\* announcement that is skipped, or sent to the wrong peers, is never made good
\* (sync.c:1958-1960, 1986-1993).
SpreadAtRest ==
  (\A l \in Links : net[l] = <<>>) /\ mishaps = 0 =>
    \A l \in Links : \A t \in pool[l[1]].txs : Seen(pool[l[2]], t)

\* Relaying comes to rest: "the receiver's own has/seen guard breaks the echo
\* loop" (sync.c:1984), whatever leaves the pools meanwhile.
Quiesces == <>[](\A l \in Links : net[l] = <<>>)

\* Every entry leaves the pools in the end, one that was confirmed before it came
\* in included: the sweep takes what no block takes (mempool.c:202-211).
PoolsEmpty == <>[](\A n \in Nodes : pool[n].txs = {})
=============================================================================
