------------------------------- MODULE Mempool -------------------------------
(***************************************************************************)
(* The relay pool of one node: what each call of mempool.c does to it.     *)
(* Entries are found by txid and by the outputs they spend; both indexes,  *)
(* the entry count and the byte count are kept apart, as in the code.      *)
(***************************************************************************)
EXTENDS Integers, Sequences, FiniteSets, FiniteSetsExt, SequencesExt

CONSTANTS
  Txs,         \* transactions whose bytes parse
  Nonstandard, \* those that txcheck_stateless refuses
  Spends,      \* the outputs that a transaction spends
  Size,        \* its length
  NoTx,        \* no entry
  MaxTxs,      \* MEMPOOL_MAX_TXS, 5000
  MaxBytes,    \* MEMPOOL_MAX_BYTES, 64 MiB
  SeenRing,    \* MP_SEEN_RING, 4096
  Expiry       \* MEMPOOL_EXPIRY_SEC, 72 h

Outs == UNION {Spends[t] : t \in Txs}

ASSUME TxsAssumption ==
  /\ NoTx \notin Txs /\ IsFiniteSet(Txs)
  /\ Nonstandard \subseteq Txs
  /\ Spends \in [Txs -> SUBSET Outs]
  /\ Size \in [Txs -> Nat]

\* No transaction is larger than the pool (TX_MAX_SIZE is 100 KB).
ASSUME LimitsAssumption ==
  /\ {MaxTxs, MaxBytes, SeenRing, Expiry} \subseteq Nat \ {0}
  /\ \A t \in Txs : Size[t] <= MaxBytes

Ages == 0 .. Expiry

Pool == [txs : SUBSET Txs, age : [Txs -> Ages], owner : [Outs -> Txs \cup {NoTx}],
         count : Int, bytes : Int, ring : Seq(Txs)]

EmptyPool ==
  [txs |-> {}, age |-> [t \in Txs |-> 0], owner |-> [i \in Outs |-> NoTx],
   count |-> 0, bytes |-> 0, ring |-> <<>>]

Has(p, t) == t \in p.txs

Seen(p, t) == Has(p, t) \/ t \in ToSet(p.ring)

\* A new transaction takes the slot of the one seen longest ago.
NoteSeen(p, t) ==
  IF t \in ToSet(p.ring) THEN p
  ELSE [p EXCEPT !.ring = IF Len(@) < SeenRing THEN Append(@, t) ELSE Append(Tail(@), t)]

Bytes(S) == MapThenSumSet(LAMBDA t : Size[t], S)

\* Variant: an entry leaves the prevout index with its first output.
RemoveHalf(p, E) ==
  [txs |-> p.txs \ E,
   age |-> [t \in Txs |-> IF t \in E THEN 0 ELSE p.age[t]],
   owner |-> [i \in Outs |->
               IF \E t \in E : p.owner[i] = t /\ \E j \in Spends[t] \ {i} : p.owner[j] = t
                 THEN NoTx ELSE p.owner[i]],
   count |-> p.count - Cardinality(E),
   bytes |-> p.bytes - Bytes(E),
   ring |-> p.ring]

\* remove_entry, for each entry of E.
RemoveEntries(p, E) ==
  [txs |-> p.txs \ E,
   age |-> [t \in Txs |-> IF t \in E THEN 0 ELSE p.age[t]],
   owner |-> [i \in Outs |->
               IF \E t \in E : i \in Spends[t] /\ p.owner[i] = t THEN NoTx ELSE p.owner[i]],
   count |-> p.count - Cardinality(E),
   bytes |-> p.bytes - Bytes(E),
   ring |-> p.ring]

\* Variant: the entry count alone is looked at.
RoomByCount(p, E, t) == p.count - Cardinality(E) < MaxTxs

\* Without the entries of E the pool has room for t.
Room(p, E, t) ==
  /\ p.count - Cardinality(E) < MaxTxs
  /\ p.bytes - Bytes(E) + Size[t] <= MaxBytes

\* The entries that may be evicted for t: the oldest, one by one, until there is
\* room.  Entries of the same second go in the order of the table.
Evictions(p, t) ==
  {E \in SUBSET p.txs :
     /\ \A e \in E, k \in p.txs \ E : p.age[e] >= p.age[k]
     /\ E = p.txs \/ Room(p, E, t)
     /\ E # {} => \E e \in E : /\ \A f \in E : p.age[f] >= p.age[e]
                               /\ ~Room(p, E \ {e}, t)}

\* Variant: an entry is not counted.
InsertUncounted(p, t) ==
  [txs |-> p.txs \cup {t},
   age |-> [p.age EXCEPT ![t] = 0],
   owner |-> [i \in Outs |-> IF i \in Spends[t] THEN t ELSE p.owner[i]],
   count |-> p.count,
   bytes |-> p.bytes + Size[t],
   ring |-> p.ring]

\* The entry of t, in both indexes.
Insert(p, t) ==
  [txs |-> p.txs \cup {t},
   age |-> [p.age EXCEPT ![t] = 0],
   owner |-> [i \in Outs |-> IF i \in Spends[t] THEN t ELSE p.owner[i]],
   count |-> p.count + 1,
   bytes |-> p.bytes + Size[t],
   ring |-> p.ring]

\* Variant: a conflict is looked for in the first output alone.
ConflictsFirst(p, t) == p.owner[CHOOSE i \in Spends[t] : TRUE] # NoTx

\* An output that t spends is spent by an entry.
Conflicts(p, t) == \E i \in Spends[t] : p.owner[i] # NoTx

Admits(p, t) == t \notin Nonstandard /\ ~Has(p, t) /\ ~Conflicts(p, t)

\* mempool_accept: the pools that may result; t is noted whatever becomes of it.
Accepted(p, t) ==
  LET noted == NoteSeen(p, t)
  IN  IF Admits(p, t)
        THEN {Insert(RemoveEntries(noted, E), t) : E \in Evictions(noted, t)}
        ELSE {noted}

\* Variant: only the entry of the confirmed transaction goes.
OnConfirmedAlone(p, t) == RemoveEntries(p, {e \in p.txs : e = t})

\* mempool_on_confirmed_tx, once it holds the lock.
OnConfirmed(p, t) ==
  RemoveEntries(p, {e \in p.txs : e = t \/ \E i \in Spends[t] : p.owner[i] = e})

Expired(p) == {e \in p.txs : p.age[e] = Expiry}

\* mempool_sweep: what has reached the expiry goes, the rest is older.
Sweep(p) ==
  LET left == RemoveEntries(p, Expired(p))
  IN  IF p.count = 0 THEN p
      ELSE [left EXCEPT !.age = [t \in Txs |-> IF t \in left.txs THEN @[t] + 1 ELSE @[t]]]
=============================================================================
